---------------------------- MODULE CommandsProofs ----------------------------
(* Theorems about the commands beside the mail, for any processes, names and  *)
(* bounds: accounts find their own secrets, calendar commands replace only    *)
(* what was seen, only `contacts remove` forgets, folder commands touch what  *)
(* the user named, and what was exported comes back.                          *)
EXTENDS MCCommands, FiniteFacts, SequenceTheorems

-----------------------------------------------------------------------------
(* Accounts: lists of accounts *)

Lists == Seq(Login!AccountTypes)

\* What remove leaves: the accounts of other names, and no other.
LEMMA WithoutFacts ==
    ASSUME NEW s \in Lists, NEW name
    PROVE  /\ Login!Without(s, name) \in Lists
           /\ \A i \in 1 .. Len(Login!Without(s, name)) :
                 \E k \in 1 .. Len(s) : Login!Without(s, name)[i] = s[k] /\ s[k].name # name
           /\ \A k \in 1 .. Len(s) : s[k].name # name =>
                 \E i \in 1 .. Len(Login!Without(s, name)) : Login!Without(s, name)[i] = s[k]
<1> DEFINE n == Len(s)
           More(i, t) == IF s[i].name = name THEN t ELSE Append(t, s[i])
           step == [i \in 1 .. n |-> [t \in Lists |-> More(i, t)]]
<1>1. n \in Nat /\ \A i \in 1 .. n : s[i] \in Login!AccountTypes
  BY DEF Lists
<1>2. \A i \in 1 .. n, t \in Lists : More(i, t) \in Lists
  BY <1>1 DEF Lists
<1>3. \A i \in 1 .. n, t \in Lists : step[i][t] = More(i, t) /\ step[i][t] \in Lists
  BY <1>2
<1> HIDE DEF step, n
<1>4. PICK h \in [0 .. n -> Lists] : h[0] = <<>> /\ \A i \in 1 .. n : h[i] = step[i][h[i - 1]]
  <2>1. Solvable(n, Lists, <<>>, step)
    BY <1>1, Recursion
  <2>2. <<>> \in Lists
    BY DEF Lists
  <2> QED
    BY <1>3, <2>1, <2>2 DEF Solvable
<1>5. \A i \in 1 .. n : h[i] = More(i, h[i - 1])
  <2>1. \A i \in 1 .. n : i - 1 \in 0 .. n
    BY <1>1
  <2> QED
    BY <1>3, <1>4, <2>1
<1> DEFINE rec(g) == [i \in 0 .. n |-> IF i = 0 THEN <<>>
                                      ELSE IF s[i].name = name THEN g[i - 1] ELSE Append(g[i - 1], s[i])]
           kept == CHOOSE g : g = rec(g)
<1>6. h = rec(h)
  <2>1. \A i \in 0 .. n : h[i] = IF i = 0 THEN <<>>
                                ELSE IF s[i].name = name THEN h[i - 1] ELSE Append(h[i - 1], s[i])
    <3>1. \A i \in 0 .. n : i = 0 \/ i \in 1 .. n
      BY <1>1
    <3> QED
      BY <1>4, <1>5, <3>1
  <2> QED
    BY <2>1
<1>7. kept = rec(kept)
  BY <1>6
<1>8. Login!Without(s, name) = kept[n]
  BY DEF Login!Without, n
<1> HIDE DEF kept
<1>9. \A i \in 0 .. n : kept[i] = IF i = 0 THEN <<>> ELSE More(i, kept[i - 1])
  BY <1>7
<1> DEFINE Good(i) ==
             /\ kept[i] \in Lists
             /\ \A k \in 1 .. Len(kept[i]) : \E l \in 1 .. n : kept[i][k] = s[l] /\ s[l].name # name
             /\ \A l \in 1 .. i : s[l].name # name => \E k \in 1 .. Len(kept[i]) : kept[i][k] = s[l]
           Goods == {i \in 0 .. n : Good(i)}
<1>10. 0 \in Goods
  <2>1. kept[0] = <<>> /\ 0 \in 0 .. n
    BY <1>1, <1>9
  <2>2. <<>> \in Lists /\ 1 .. Len(<<>>) = {} /\ 1 .. 0 = {}
    BY DEF Lists
  <2> QED
    BY <2>1, <2>2
<1>11. ASSUME NEW i \in 1 .. n, i - 1 \in Goods PROVE i \in Goods
  <2>1. i \in 0 .. n /\ i \in 1 .. i /\ \A l \in 1 .. i : l = i \/ l \in 1 .. (i - 1)
    BY <1>1
  <2>2. kept[i] = More(i, kept[i - 1]) /\ s[i] \in Login!AccountTypes
    BY <1>1, <1>9, <2>1
  <2>3. Good(i - 1)
    BY <1>11
  <2>4. CASE s[i].name = name
    BY <2>1, <2>2, <2>3, <2>4
  <2>5. CASE s[i].name # name
    <3> DEFINE t == kept[i - 1]
    <3>1. kept[i] = Append(t, s[i]) /\ t \in Lists
      BY <2>2, <2>3, <2>5
    <3>2. /\ kept[i] \in Lists /\ Len(kept[i]) = Len(t) + 1 /\ kept[i][Len(t) + 1] = s[i]
          /\ Len(t) \in Nat /\ \A k \in 1 .. Len(t) : kept[i][k] = t[k]
      BY <2>2, <3>1 DEF Lists
    <3>3. /\ Len(t) + 1 \in 1 .. Len(kept[i])
          /\ \A k \in 1 .. Len(t) : k \in 1 .. Len(kept[i])
          /\ \A k \in 1 .. Len(kept[i]) : k = Len(t) + 1 \/ k \in 1 .. Len(t)
      BY <3>2
    <3>4. \A l \in 1 .. n : (\E k \in 1 .. Len(t) : t[k] = s[l]) => \E k \in 1 .. Len(kept[i]) : kept[i][k] = s[l]
      BY <3>2, <3>3
    <3>5. \A l \in 1 .. i : s[l].name # name => \E k \in 1 .. Len(kept[i]) : kept[i][k] = s[l]
      <4> SUFFICES ASSUME NEW l \in 1 .. i, s[l].name # name
                   PROVE  \E k \in 1 .. Len(kept[i]) : kept[i][k] = s[l]
        OBVIOUS
      <4>1. CASE l = i
        BY <3>2, <3>3, <4>1
      <4>2. CASE l \in 1 .. (i - 1)
        <5>1. l \in 1 .. n
          BY <1>1, <4>2
        <5> QED
          BY <2>3, <3>4, <4>2, <5>1
      <4> QED
        BY <2>1, <4>1, <4>2
    <3>6. \A k \in 1 .. Len(kept[i]) : \E l \in 1 .. n : kept[i][k] = s[l] /\ s[l].name # name
      <4> SUFFICES ASSUME NEW k \in 1 .. Len(kept[i])
                   PROVE  \E l \in 1 .. n : kept[i][k] = s[l] /\ s[l].name # name
        OBVIOUS
      <4>1. CASE k \in 1 .. Len(t)
        BY <2>3, <3>2, <4>1
      <4>2. CASE k = Len(t) + 1
        BY <2>5, <3>2, <4>2
      <4> QED
        BY <3>3, <4>1, <4>2
    <3> QED
      BY <2>1, <3>2, <3>5, <3>6
  <2> QED
    BY <2>4, <2>5
<1>12. Goods \subseteq 0 .. n
  OBVIOUS
<1> HIDE DEF Goods
<1>13. n \in Goods
  BY <1>1, <1>10, <1>11, <1>12, UpTo
<1> QED
  BY <1>8, <1>13 DEF Goods, n

\* pick_account finds an account of the name.
LEMMA PickedFacts ==
    ASSUME config \in Lists, NEW name \in Login!NamesIn(config)
    PROVE  Login!Picked(name) \in 1 .. Len(config) /\ config[Login!Picked(name)].name = name
<1> DEFINE I == {i \in 1 .. Len(config) : config[i].name = name}
<1>1. I # {} /\ I \subseteq Nat
  BY DEF Login!NamesIn, Lists
<1>2. \E k \in I : \A l \in I : k <= l
  BY <1>1, LeastExists
<1>3. Login!Picked(name) = CHOOSE k \in I : \A l \in I : k <= l
  BY <1>1 DEF Login!Picked, Login!SelectInSeq, Login!Min
<1> QED
  BY <1>2, <1>3

\* A new account goes to the end of the list.
LEMMA AppendFacts ==
    ASSUME NEW s \in Lists, NEW a \in Login!AccountTypes
    PROVE  /\ Append(s, a) \in Lists /\ Len(Append(s, a)) = Len(s) + 1
           /\ Append(s, a)[Len(s) + 1] = a /\ \A i \in 1 .. Len(s) : Append(s, a)[i] = s[i]
           /\ \A i \in 1 .. Len(Append(s, a)) : i = Len(s) + 1 \/ i \in 1 .. Len(s)
           /\ \A i \in 1 .. Len(s) : i \in 1 .. Len(Append(s, a))
           /\ Len(s) + 1 \in 1 .. Len(Append(s, a))
BY DEF Lists

\* An edit leaves names, kinds and passwords alone.
LEMMA EditFacts ==
    ASSUME NEW s \in Lists, NEW k \in 1 .. Len(s)
    PROVE  LET t == [s EXCEPT ![k].edited = TRUE] IN
             /\ t \in Lists /\ Len(t) = Len(s)
             /\ \A i \in 1 .. Len(s) : /\ t[i].name = s[i].name /\ t[i].auth = s[i].auth
                                        /\ t[i].by = s[i].by
<1> DEFINE t == [s EXCEPT ![k].edited = TRUE]
<1>1. \A i \in 1 .. Len(s) : s[i] \in Login!AccountTypes
  BY DEF Lists
<1>2. t = [i \in 1 .. Len(s) |-> IF i = k THEN [s[k] EXCEPT !.edited = TRUE] ELSE s[i]]
  <2>1. DOMAIN s = 1 .. Len(s)
    BY DEF Lists
  <2> QED
    BY <2>1
<1>3. [s[k] EXCEPT !.edited = TRUE] \in Login!AccountTypes
  BY <1>1 DEF Login!AccountTypes
<1>4. t \in [1 .. Len(s) -> Login!AccountTypes] /\ Len(s) \in Nat
  BY <1>1, <1>2, <1>3 DEF Lists
<1>5. t \in Lists /\ Len(t) = Len(s)
  BY <1>4 DEF Lists
<1>6. \A i \in 1 .. Len(s) : t[i].name = s[i].name /\ t[i].auth = s[i].auth /\ t[i].by = s[i].by
  BY <1>1, <1>2 DEF Login!AccountTypes
<1> QED
  BY <1>5, <1>6

\* t is s with a at its end, s but for what an edit changes, s without a name.
Extends(t, s, a) ==
    /\ t \in Lists
    /\ \A i \in 1 .. Len(t) : t[i] = a \/ \E k \in 1 .. Len(s) : t[i] = s[k]
    /\ \A k \in 1 .. Len(s) : \E i \in 1 .. Len(t) : t[i] = s[k]
    /\ \E i \in 1 .. Len(t) : t[i] = a

Edits(t, s) ==
    /\ t \in Lists /\ Len(t) = Len(s)
    /\ \A i \in 1 .. Len(s) : t[i].name = s[i].name /\ t[i].auth = s[i].auth /\ t[i].by = s[i].by

Leaves(t, s, name) ==
    /\ t \in Lists
    /\ \A i \in 1 .. Len(t) : \E k \in 1 .. Len(s) : t[i] = s[k] /\ s[k].name # name
    /\ \A k \in 1 .. Len(s) : s[k].name # name => \E i \in 1 .. Len(t) : t[i] = s[k]

LEMMA Shapes ==
    ASSUME config \in Lists
    PROVE  /\ \A a \in Login!AccountTypes : Extends(Append(config, a), config, a)
           /\ \A n \in Login!NamesIn(config) : Edits([config EXCEPT ![Login!Picked(n)].edited = TRUE], config)
           /\ \A n : Leaves(Login!Without(config, n), config, n)
<1>1. ASSUME NEW a \in Login!AccountTypes PROVE Extends(Append(config, a), config, a)
  <2> DEFINE t == Append(config, a)
  <2>1. /\ t \in Lists /\ Len(t) = Len(config) + 1
        /\ t[Len(config) + 1] = a /\ \A i \in 1 .. Len(config) : t[i] = config[i]
        /\ \A i \in 1 .. Len(t) : i = Len(config) + 1 \/ i \in 1 .. Len(config)
        /\ \A i \in 1 .. Len(config) : i \in 1 .. Len(t)
        /\ Len(config) + 1 \in 1 .. Len(t)
    BY AppendFacts, Zenon
  <2> HIDE DEF t
  <2>2. \A i \in 1 .. Len(t) : t[i] = a \/ \E k \in 1 .. Len(config) : t[i] = config[k]
    BY <2>1
  <2>3. \A k \in 1 .. Len(config) : \E i \in 1 .. Len(t) : t[i] = config[k]
    BY <2>1
  <2>4. \E i \in 1 .. Len(t) : t[i] = a
    BY <2>1
  <2> QED
    BY <2>1, <2>2, <2>3, <2>4 DEF Extends, t
<1>2. ASSUME NEW n \in Login!NamesIn(config) PROVE Edits([config EXCEPT ![Login!Picked(n)].edited = TRUE], config)
  <2>1. Login!Picked(n) \in 1 .. Len(config)
    BY PickedFacts
  <2> DEFINE k == Login!Picked(n)
  <2> HIDE DEF k
  <2>2. Edits([config EXCEPT ![k].edited = TRUE], config)
    BY <2>1, EditFacts, Zenon DEF Edits, k
  <2> QED
    BY <2>2 DEF k
<1>3. ASSUME NEW n PROVE Leaves(Login!Without(config, n), config, n)
  <2> DEFINE t == Login!Without(config, n)
  <2>1. t \in Lists
    BY WithoutFacts
  <2>2. \A i \in 1 .. Len(t) : \E k \in 1 .. Len(config) : t[i] = config[k] /\ config[k].name # n
    BY WithoutFacts
  <2>3. \A k \in 1 .. Len(config) : config[k].name # n => \E i \in 1 .. Len(t) : t[i] = config[k]
    BY WithoutFacts
  <2> HIDE DEF t
  <2> QED
    BY <2>1, <2>2, <2>3 DEF Leaves, t
<1> QED
  BY <1>1, <1>2, <1>3

LEMMA ListFacts ==
    ASSUME NEW s \in Lists
    PROVE  /\ Len(s) \in Nat
           /\ \A i \in 1 .. Len(s) : /\ s[i] \in Login!AccountTypes /\ s[i].name \in AccountNames
                                      /\ s[i].by \in Nat \ {0} /\ s[i].auth \in {"password", "oauth"}
<1>1. Len(s) \in Nat /\ \A i \in 1 .. Len(s) : s[i] \in Login!AccountTypes
  BY DEF Lists
<1>2. \A a \in Login!AccountTypes :
         a.name \in AccountNames /\ a.by \in Nat \ {0} /\ a.auth \in {"password", "oauth"}
  BY DEF Login!AccountTypes
<1> QED
  BY <1>1, <1>2

LEMMA AccountFacts ==
    ASSUME NEW n \in AccountNames, NEW auth \in {"password", "oauth"}, NEW k \in Nat \ {0}
    PROVE  /\ Login!Account(n, auth, k) \in Login!AccountTypes
           /\ Login!Account(n, auth, k).name = n /\ Login!Account(n, auth, k).auth = auth
           /\ Login!Account(n, auth, k).by = k
BY DEF Login!Account, Login!AccountTypes

-----------------------------------------------------------------------------
(* Accounts: what a step makes of a command *)

Job(pc, name, by, accounts) == [pc |-> pc, name |-> name, by |-> by, accounts |-> accounts]
Rest == Job("idle", Login!NoName, 0, <<>>)
Becomes(p, j) == account_job' = [account_job EXCEPT ![p] = j]

LEMMA Outcomes ==
    ASSUME Login!TypeOK, NEW p \in Processes
    PROVE  LET j == account_job[p] IN
      /\ j = Job(j.pc, j.name, j.by, j.accounts) /\ Login!Idle = Rest
      /\ \A n, auth : Login!StartAdd(p, n, auth) =>
            Becomes(p, Job(Login!AfterPrompts(auth), n, added + 1,
                           Append(config, Login!Account(n, auth, added + 1))))
      /\ \A n : Login!StartWizard(p, n) =>
            Becomes(p, Job("store password", n, added + 1,
                           Append(config, Login!Account(n, "password", added + 1))))
      /\ Login!StorePassword(p) => Becomes(p, Job("save", Login!NoName, 0, j.accounts))
      /\ Login!Truncate(p) =>
            Becomes(p, Job(IF j.pc = "save" THEN "saving" ELSE "saving remove", j.name, j.by, j.accounts))
      /\ Login!Save(p) =>
            Becomes(p, IF j.pc = "saving" THEN Rest ELSE Job("password", j.name, j.by, <<>>))
      /\ \A n : Login!StartEdit(p, n) =>
            Becomes(p, Job("save", Login!NoName, 0, [config EXCEPT ![Login!Picked(n)].edited = TRUE]))
      /\ \A n : Login!StartRemove(p, n) => Becomes(p, Job("save remove", n, 0, Login!Without(config, n)))
      /\ Login!DeletePassword(p) => Becomes(p, Job("token", j.name, j.by, j.accounts))
      /\ Login!DeleteRefreshToken(p) => Becomes(p, Rest)
      /\ Login!KeyringRefuses(p) =>
            Becomes(p, IF j.pc = "password" THEN Job("token", j.name, j.by, j.accounts) ELSE Rest)
      /\ \A n : Login!StartLogin(p, n) => Becomes(p, Job("listen", n, config[Login!Picked(n)].by, <<>>))
      /\ \A yes : Login!Callback(p, yes) =>
            Becomes(p, IF yes THEN Job("exchange", j.name, j.by, j.accounts) ELSE Rest)
      /\ \A yes : Login!Exchange(p, yes) =>
            Becomes(p, IF yes THEN Job("store token", j.name, j.by, j.accounts) ELSE Rest)
      /\ Login!StoreRefreshToken(p) => Becomes(p, Rest)
      /\ Login!Killed(p) => Becomes(p, Rest)
<1> DEFINE j == account_job[p]
<1>0. Login!Idle = Rest
  BY DEF Login!Idle, Rest, Job
<1>1. account_job \in [Processes -> Login!Jobs] /\ j \in Login!Jobs
  BY DEF Login!TypeOK
<1>2. j = Job(j.pc, j.name, j.by, j.accounts)
  BY <1>1 DEF Login!Jobs, Job
<1>3. \A n, auth : Login!StartAdd(p, n, auth) =>
            Becomes(p, Job(Login!AfterPrompts(auth), n, added + 1,
                           Append(config, Login!Account(n, auth, added + 1))))
  BY DEF Login!StartAdd, Login!Begin, Job, Becomes
<1>4. \A n : Login!StartWizard(p, n) =>
            Becomes(p, Job("store password", n, added + 1,
                           Append(config, Login!Account(n, "password", added + 1))))
  BY DEF Login!StartWizard, Job, Becomes
<1>5. Login!StorePassword(p) => Becomes(p, Job("save", Login!NoName, 0, j.accounts))
  BY DEF Login!StorePassword, Login!Idle, Job, Becomes
<1>6. Login!Truncate(p) =>
            Becomes(p, Job(IF j.pc = "save" THEN "saving" ELSE "saving remove", j.name, j.by, j.accounts))
  BY <1>1, <1>2 DEF Login!Truncate, Job, Becomes, Login!Jobs
<1>7. Login!Save(p) =>
            Becomes(p, IF j.pc = "saving" THEN Rest ELSE Job("password", j.name, j.by, <<>>))
  BY <1>0, <1>1, <1>2 DEF Login!Save, Job, Becomes, Login!Jobs
<1>8. \A n : Login!StartEdit(p, n) =>
            Becomes(p, Job("save", Login!NoName, 0, [config EXCEPT ![Login!Picked(n)].edited = TRUE]))
  <2> SUFFICES ASSUME NEW n, Login!StartEdit(p, n)
               PROVE  Becomes(p, Job("save", Login!NoName, 0, [config EXCEPT ![Login!Picked(n)].edited = TRUE]))
    OBVIOUS
  <2> DEFINE c == [config EXCEPT ![Login!Picked(n)].edited = TRUE]
         y == [Login!Idle EXCEPT !.pc = "save", !.accounts = c]
  <2>1. Becomes(p, y)
    BY DEF Login!StartEdit, Login!Begin, Becomes
  <2>2. y \in [pc : {"save"}, name : {Login!NoName}, by : {0}, accounts : {c}]
    BY DEF Login!Idle
  <2> HIDE DEF y
  <2>3. y = Job("save", Login!NoName, 0, c)
    BY <2>2 DEF Job
  <2> QED
    BY <2>1, <2>3, Zenon
<1>9. \A n : Login!StartRemove(p, n) => Becomes(p, Job("save remove", n, 0, Login!Without(config, n)))
  <2> SUFFICES ASSUME NEW n, Login!StartRemove(p, n)
               PROVE  Becomes(p, Job("save remove", n, 0, Login!Without(config, n)))
    OBVIOUS
  <2> DEFINE c == Login!Without(config, n)
         y == [Login!Idle EXCEPT !.pc = "save remove", !.name = n, !.accounts = c]
  <2>1. Becomes(p, y)
    BY DEF Login!StartRemove, Login!Begin, Becomes
  <2>2. y \in [pc : {"save remove"}, name : {n}, by : {0}, accounts : {c}]
    BY DEF Login!Idle
  <2> HIDE DEF y
  <2>3. y = Job("save remove", n, 0, c)
    BY <2>2 DEF Job
  <2> QED
    BY <2>1, <2>3, Zenon
<1>10. Login!DeletePassword(p) => Becomes(p, Job("token", j.name, j.by, j.accounts))
  BY <1>1, <1>2 DEF Login!DeletePassword, Job, Becomes, Login!Jobs
<1>11. Login!DeleteRefreshToken(p) => Becomes(p, Rest)
  BY <1>0 DEF Login!DeleteRefreshToken, Becomes
<1>12. Login!KeyringRefuses(p) =>
            Becomes(p, IF j.pc = "password" THEN Job("token", j.name, j.by, j.accounts) ELSE Rest)
  BY <1>0, <1>1, <1>2 DEF Login!KeyringRefuses, Job, Becomes, Login!Jobs
<1>13. \A n : Login!StartLogin(p, n) => Becomes(p, Job("listen", n, config[Login!Picked(n)].by, <<>>))
  <2> SUFFICES ASSUME NEW n, Login!StartLogin(p, n)
               PROVE  Becomes(p, Job("listen", n, config[Login!Picked(n)].by, <<>>))
    OBVIOUS
  <2> DEFINE b == config[Login!Picked(n)].by
         y == [Login!Idle EXCEPT !.pc = "listen", !.name = n, !.by = b]
  <2>1. Becomes(p, y)
    BY DEF Login!StartLogin, Login!Begin, Becomes
  <2>2. y \in [pc : {"listen"}, name : {n}, by : {b}, accounts : {<<>>}]
    BY DEF Login!Idle
  <2> HIDE DEF y
  <2>3. y = Job("listen", n, b, <<>>)
    BY <2>2 DEF Job
  <2> QED
    BY <2>1, <2>3, Zenon
<1>14. \A yes : Login!Callback(p, yes) =>
            Becomes(p, IF yes THEN Job("exchange", j.name, j.by, j.accounts) ELSE Rest)
  BY <1>0, <1>1, <1>2 DEF Login!Callback, Job, Becomes, Login!Jobs
<1>15. \A yes : Login!Exchange(p, yes) =>
            Becomes(p, IF yes THEN Job("store token", j.name, j.by, j.accounts) ELSE Rest)
  BY <1>0, <1>1, <1>2 DEF Login!Exchange, Job, Becomes, Login!Jobs
<1>16. Login!StoreRefreshToken(p) => Becomes(p, Rest)
  BY <1>0 DEF Login!StoreRefreshToken, Becomes
<1>17. Login!Killed(p) => Becomes(p, Rest)
  BY <1>0 DEF Login!Killed, Becomes
<1> QED
  BY <1>0, <1>2, <1>3, <1>4, <1>5, <1>6, <1>7, <1>8, <1>9, <1>10, <1>11, <1>12, <1>13, <1>14, <1>15,
     <1>16, <1>17
\* And what the step needs and does besides.
LEMMA Effects ==
    ASSUME NEW p \in Processes
    PROVE  LET j == account_job[p] IN
      /\ \A n, auth : Login!StartAdd(p, n, auth) =>
            /\ j.pc = "idle" /\ n \notin Login!NamesIn(config) /\ added' = added + 1
            /\ account_mishaps' = account_mishaps \cup Login!Overlap(p, FALSE)
            /\ config' = config /\ keyring' = keyring /\ tokens' = tokens /\ account_faults' = account_faults
      /\ \A n : Login!StartWizard(p, n) =>
            /\ j.pc = "idle" /\ added' = added + 1
            /\ account_mishaps' = account_mishaps \cup Login!Overlap(p, FALSE)
                                   \cup (IF n \in Login!NamesIn(config) THEN {"twins"} ELSE {})
            /\ config' = config /\ keyring' = keyring /\ tokens' = tokens /\ account_faults' = account_faults
      /\ \A n : Login!StartEdit(p, n) \/ Login!StartLogin(p, n) =>
            /\ j.pc = "idle" /\ n \in Login!NamesIn(config) /\ added' = added
            /\ account_mishaps' = account_mishaps \cup Login!Overlap(p, FALSE)
            /\ config' = config /\ keyring' = keyring /\ tokens' = tokens /\ account_faults' = account_faults
      /\ \A n : Login!StartRemove(p, n) =>
            /\ j.pc = "idle" /\ added' = added
            /\ account_mishaps' = account_mishaps \cup Login!Overlap(p, TRUE)
            /\ config' = config /\ keyring' = keyring /\ tokens' = tokens /\ account_faults' = account_faults
      /\ Login!StorePassword(p) =>
            /\ j.pc = "store password" /\ keyring' = [keyring EXCEPT ![j.name] = j.by]
            /\ config' = config /\ tokens' = tokens
            /\ added' = added /\ account_mishaps' = account_mishaps /\ account_faults' = account_faults
      /\ Login!Truncate(p) =>
            /\ j.pc \in {"save", "save remove"} /\ config' = <<>> /\ keyring' = keyring /\ tokens' = tokens
            /\ added' = added /\ account_mishaps' = account_mishaps /\ account_faults' = account_faults
      /\ Login!Save(p) =>
            /\ j.pc \in {"saving", "saving remove"} /\ config' = j.accounts /\ keyring' = keyring /\ tokens' = tokens
            /\ added' = added /\ account_mishaps' = account_mishaps /\ account_faults' = account_faults
      /\ Login!DeletePassword(p) =>
            /\ j.pc = "password" /\ keyring' = [keyring EXCEPT ![j.name] = 0]
            /\ config' = config /\ tokens' = tokens
            /\ added' = added /\ account_mishaps' = account_mishaps /\ account_faults' = account_faults
      /\ Login!DeleteRefreshToken(p) =>
            /\ j.pc = "token" /\ tokens' = [tokens EXCEPT ![j.name] = 0]
            /\ config' = config /\ keyring' = keyring
            /\ added' = added /\ account_mishaps' = account_mishaps /\ account_faults' = account_faults
      /\ Login!KeyringRefuses(p) \/ Login!Killed(p) =>
            /\ j.pc # "idle"
            /\ config' = config /\ keyring' = keyring /\ tokens' = tokens /\ added' = added
            /\ account_mishaps' = account_mishaps \cup {"killed"} /\ account_faults' = account_faults + 1
      /\ \A yes : Login!Callback(p, yes) \/ Login!Exchange(p, yes) =>
            /\ j.pc \in {"listen", "exchange"}
            /\ config' = config /\ keyring' = keyring /\ tokens' = tokens
            /\ added' = added /\ account_mishaps' = account_mishaps /\ account_faults' = account_faults
      /\ Login!StoreRefreshToken(p) =>
            /\ j.pc = "store token" /\ tokens' = [tokens EXCEPT ![j.name] = j.by]
            /\ config' = config /\ keyring' = keyring
            /\ added' = added /\ account_mishaps' = account_mishaps /\ account_faults' = account_faults
<1> DEFINE j == account_job[p]
           same == account_mishaps' = account_mishaps /\ account_faults' = account_faults
           still == config' = config /\ keyring' = keyring /\ tokens' = tokens
<1>1. \A n, auth : Login!StartAdd(p, n, auth) =>
         /\ j.pc = "idle" /\ n \notin Login!NamesIn(config) /\ added' = added + 1
         /\ account_mishaps' = account_mishaps \cup Login!Overlap(p, FALSE)
         /\ still /\ account_faults' = account_faults
  BY Zenon DEF Login!StartAdd, Login!Begin
<1>2. \A n : Login!StartWizard(p, n) =>
         /\ j.pc = "idle" /\ added' = added + 1
         /\ account_mishaps' = account_mishaps \cup Login!Overlap(p, FALSE)
                                \cup (IF n \in Login!NamesIn(config) THEN {"twins"} ELSE {})
         /\ still /\ account_faults' = account_faults
  BY Zenon DEF Login!StartWizard
<1>3. \A n : Login!StartEdit(p, n) \/ Login!StartLogin(p, n) =>
         /\ j.pc = "idle" /\ n \in Login!NamesIn(config) /\ added' = added
         /\ account_mishaps' = account_mishaps \cup Login!Overlap(p, FALSE)
         /\ still /\ account_faults' = account_faults
  BY Zenon DEF Login!StartEdit, Login!StartLogin, Login!Begin
<1>4. \A n : Login!StartRemove(p, n) =>
         /\ j.pc = "idle" /\ added' = added
         /\ account_mishaps' = account_mishaps \cup Login!Overlap(p, TRUE)
         /\ still /\ account_faults' = account_faults
  BY Zenon DEF Login!StartRemove, Login!Begin
<1>5. Login!StorePassword(p) =>
         /\ j.pc = "store password" /\ keyring' = [keyring EXCEPT ![j.name] = j.by]
         /\ config' = config /\ tokens' = tokens /\ added' = added /\ same
  BY Zenon DEF Login!StorePassword
<1>6. Login!Truncate(p) =>
         /\ j.pc \in {"save", "save remove"} /\ config' = <<>> /\ keyring' = keyring /\ tokens' = tokens
         /\ added' = added /\ same
  BY Zenon DEF Login!Truncate
<1>7. Login!Save(p) =>
         /\ j.pc \in {"saving", "saving remove"} /\ config' = j.accounts /\ keyring' = keyring
         /\ tokens' = tokens /\ added' = added /\ same
  BY Zenon DEF Login!Save
<1>8. Login!DeletePassword(p) =>
         /\ j.pc = "password" /\ keyring' = [keyring EXCEPT ![j.name] = 0]
         /\ config' = config /\ tokens' = tokens /\ added' = added /\ same
  BY Zenon DEF Login!DeletePassword
<1>9. Login!DeleteRefreshToken(p) =>
         /\ j.pc = "token" /\ tokens' = [tokens EXCEPT ![j.name] = 0]
         /\ config' = config /\ keyring' = keyring /\ added' = added /\ same
  BY Zenon DEF Login!DeleteRefreshToken
<1>10. Login!KeyringRefuses(p) \/ Login!Killed(p) =>
         /\ j.pc # "idle" /\ still /\ added' = added
         /\ account_mishaps' = account_mishaps \cup {"killed"} /\ account_faults' = account_faults + 1
  <2>1. ASSUME Login!KeyringRefuses(p)
        PROVE  /\ j.pc \in {"password", "token"} /\ still /\ added' = added
               /\ account_mishaps' = account_mishaps \cup {"killed"} /\ account_faults' = account_faults + 1
    BY <2>1, Zenon DEF Login!KeyringRefuses
  <2>2. ASSUME Login!Killed(p)
        PROVE  /\ j.pc # "idle" /\ still /\ added' = added
               /\ account_mishaps' = account_mishaps \cup {"killed"} /\ account_faults' = account_faults + 1
    BY <2>2, Zenon DEF Login!Killed
  <2>3. j.pc \in {"password", "token"} => j.pc # "idle"
    OBVIOUS
  <2> QED
    BY <2>1, <2>2, <2>3
<1>11. \A yes : Login!Callback(p, yes) \/ Login!Exchange(p, yes) =>
         /\ j.pc \in {"listen", "exchange"} /\ still /\ added' = added /\ same
  BY Zenon DEF Login!Callback, Login!Exchange
<1>12. Login!StoreRefreshToken(p) =>
         /\ j.pc = "store token" /\ tokens' = [tokens EXCEPT ![j.name] = j.by]
         /\ config' = config /\ keyring' = keyring /\ added' = added /\ same
  BY Zenon DEF Login!StoreRefreshToken
<1> QED
  BY <1>1, <1>2, <1>3, <1>4, <1>5, <1>6, <1>7, <1>8, <1>9, <1>10, <1>11, <1>12

-----------------------------------------------------------------------------
(* Accounts: types *)

\* What a command in progress carries.
Typed(j) ==
    /\ j \in Login!Jobs
    /\ j.pc \in {"store password"} \cup Login!Removing \cup Login!LoggingIn => j.name \in AccountNames
    /\ j.pc \in {"store password"} \cup Login!LoggingIn => j.by # 0

Histories(m) == /\ m \subseteq {"overlap", "removal overlaps", "twins", "killed"}
                /\ "removal overlaps" \in m => "overlap" \in m

LEMMA HistoryKept ==
    ASSUME Login!TypeOK, NEW p, NEW removes \in BOOLEAN
    PROVE  /\ Histories(account_mishaps \cup Login!Overlap(p, removes))
           /\ Histories(account_mishaps \cup Login!Overlap(p, removes) \cup {"twins"})
           /\ Histories(account_mishaps \cup Login!Overlap(p, removes) \cup {})
<1>1. \/ Login!Overlap(p, removes) = {} \/ Login!Overlap(p, removes) = {"overlap"}
      \/ Login!Overlap(p, removes) = {"overlap", "removal overlaps"}
  BY DEF Login!Overlap
<1> QED
  BY <1>1 DEF Histories, Login!TypeOK

LEMMA TypesOf ==
    ASSUME Login!TypeOK, NEW p \in Processes, NEW j, Typed(j), Becomes(p, j), config' \in Lists,
           keyring' \in [AccountNames -> Nat], tokens' \in [AccountNames -> Nat],
           added' \in Nat, account_faults' \in Nat, Histories(account_mishaps')
    PROVE  Login!TypeOK'
<1>1. account_job \in [Processes -> Login!Jobs]
  BY DEF Login!TypeOK
<1>2. account_job' \in [Processes -> Login!Jobs]
  BY <1>1 DEF Becomes, Typed
<1>3. \A q \in Processes : account_job'[q] = IF q = p THEN j ELSE account_job[q]
  BY <1>1 DEF Becomes
<1>4. \A q \in Processes : Typed(account_job[q])
  BY DEF Login!TypeOK, Typed
<1>5. \A q \in Processes : Typed(account_job'[q])
  BY <1>3, <1>4
<1> QED
  BY <1>2, <1>5 DEF Login!TypeOK, Typed, Histories, Lists

LEMMA JobFields ==
    ASSUME NEW pc, NEW name, NEW by, NEW accounts
    PROVE  /\ Job(pc, name, by, accounts).pc = pc /\ Job(pc, name, by, accounts).name = name
           /\ Job(pc, name, by, accounts).by = by /\ Job(pc, name, by, accounts).accounts = accounts
BY DEF Job

LEMMA TypedJob ==
    ASSUME NEW pc \in {"idle"} \cup Login!Removing \cup Login!Writing \cup Login!LoggingIn,
           NEW name \in AccountNames \cup {Login!NoName}, NEW by \in Nat, NEW accounts \in Lists,
           pc \in {"store password"} \cup Login!Removing \cup Login!LoggingIn => name \in AccountNames,
           pc \in {"store password"} \cup Login!LoggingIn => by # 0
    PROVE  Typed(Job(pc, name, by, accounts))
<1>1. Job(pc, name, by, accounts) \in Login!Jobs
  BY DEF Job, Login!Jobs, Lists
<1> DEFINE j == Job(pc, name, by, accounts)
<1>2. j.pc = pc /\ j.name = name /\ j.by = by
  BY DEF Job
<1> HIDE DEF j
<1> QED
  BY <1>1, <1>2 DEF Typed, j

\* What is known of the command at hand, and of a command that waits for the next.
LEMMA TypedFacts ==
    ASSUME Login!TypeOK, NEW p \in Processes
    PROVE  LET j == account_job[p] IN
             /\ j.pc \in {"idle"} \cup Login!Removing \cup Login!Writing \cup Login!LoggingIn
             /\ j.name \in AccountNames \cup {Login!NoName} /\ j.by \in Nat /\ j.accounts \in Lists
             /\ j.pc \in {"store password"} \cup Login!Removing \cup Login!LoggingIn => j.name \in AccountNames
             /\ j.pc \in {"store password"} \cup Login!LoggingIn => j.by # 0
             /\ Typed(j)
BY DEF Login!TypeOK, Typed, Login!Jobs, Lists

LEMMA RestTyped == Rest.pc = "idle" /\ Typed(Rest)
<1>1. <<>> \in Lists
  BY DEF Lists
<1>2. "idle" \notin {"store password"} \cup Login!Removing \cup Login!LoggingIn
  BY DEF Login!Removing, Login!LoggingIn
<1>3. Typed(Job("idle", Login!NoName, 0, <<>>))
  BY <1>1, <1>2, TypedJob
<1> QED
  BY <1>3, JobFields DEF Rest

LEMMA Phases ==
    /\ "idle" \notin Login!Removing \cup Login!Writing \cup Login!LoggingIn
    /\ \A pc : /\ pc \in Login!Removing <=> pc \in {"save remove", "saving remove", "password", "token"}
               /\ pc \in Login!Writing <=> pc \in {"store password", "save", "saving", "save remove", "saving remove"}
               /\ pc \in Login!LoggingIn <=> pc \in {"listen", "exchange", "store token"}
BY DEF Login!Removing, Login!Writing, Login!LoggingIn

LEMMA TypesKept ==
    ASSUME Login!TypeOK, [Login!Next]_(Login!vars)
    PROVE  Login!TypeOK'
<1>1. /\ config \in Lists /\ keyring \in [AccountNames -> Nat] /\ tokens \in [AccountNames -> Nat]
      /\ added \in Nat /\ account_faults \in Nat /\ Histories(account_mishaps)
      /\ <<>> \in Lists /\ \A p \in Processes : Typed(account_job[p])
  <2>1. \A p \in Processes : Typed(account_job[p])
    BY TypedFacts
  <2>2. <<>> \in Lists
    BY DEF Lists
  <2> QED
    BY <2>1, <2>2 DEF Login!TypeOK, Lists, Histories
<1>2. \A n \in AccountNames, auth \in {"password", "oauth"} :
         /\ Login!Account(n, auth, added + 1) \in Login!AccountTypes
         /\ Append(config, Login!Account(n, auth, added + 1)) \in Lists
  BY <1>1 DEF Login!Account, Login!AccountTypes, Lists
<1>3. ASSUME NEW p \in Processes, NEW n \in AccountNames, NEW auth \in {"password", "oauth"},
             Login!StartAdd(p, n, auth)
      PROVE  Login!TypeOK'
  <2> DEFINE j == Job(Login!AfterPrompts(auth), n, added + 1, Append(config, Login!Account(n, auth, added + 1)))
  <2>1. Becomes(p, j)
    BY <1>3, Outcomes
  <2>2. Typed(j)
    <3>1. /\ Login!AfterPrompts(auth) \in {"store password", "save"} /\ n \in AccountNames
          /\ added + 1 \in Nat /\ added + 1 # 0
      BY <1>1 DEF Login!AfterPrompts
    <3> QED
      BY <1>2, <3>1, Phases, TypedJob
  <2>3. Histories(account_mishaps')
    BY <1>3, HistoryKept, Effects
  <2>4. /\ config' = config /\ keyring' = keyring /\ tokens' = tokens /\ added' = added + 1
        /\ account_faults' = account_faults
    BY <1>3, Effects, Zenon
  <2>5. added' \in Nat
    BY <1>1, <2>4
  <2> HIDE DEF j
  <2> QED
    BY <1>1, <2>1, <2>2, <2>3, <2>4, <2>5, TypesOf
<1>4. ASSUME NEW p \in Processes, NEW n \in AccountNames, Login!StartWizard(p, n)
      PROVE  Login!TypeOK'
  <2> DEFINE j == Job("store password", n, added + 1, Append(config, Login!Account(n, "password", added + 1)))
  <2>1. Becomes(p, j)
    BY <1>4, Outcomes
  <2>2. Typed(j)
    <3>1. n \in AccountNames /\ added + 1 \in Nat /\ added + 1 # 0
      BY <1>1
    <3> QED
      BY <1>2, <3>1, Phases, TypedJob
  <2>3. Histories(account_mishaps')
    BY <1>4, HistoryKept, Effects
  <2>4. /\ config' = config /\ keyring' = keyring /\ tokens' = tokens /\ added' = added + 1
        /\ account_faults' = account_faults
    BY <1>4, Effects, Zenon
  <2>5. added' \in Nat
    BY <1>1, <2>4
  <2> HIDE DEF j
  <2> QED
    BY <1>1, <2>1, <2>2, <2>3, <2>4, <2>5, TypesOf
<1>5. ASSUME NEW p \in Processes, Login!StorePassword(p)
      PROVE  Login!TypeOK'
  <2> DEFINE j == Job("save", Login!NoName, 0, account_job[p].accounts)
  <2>1. Becomes(p, j)
    BY <1>5, Outcomes
  <2>2. Typed(j)
    BY <1>1, TypedFacts, Phases, TypedJob
  <2>3. keyring' \in [AccountNames -> Nat]
    BY <1>1, <1>5, Effects, TypedFacts
  <2> HIDE DEF j
  <2> QED
    BY <1>1, <1>5, <2>1, <2>2, <2>3, TypesOf, Effects
<1>6. ASSUME NEW p \in Processes, Login!Truncate(p)
      PROVE  Login!TypeOK'
  <2> DEFINE o == account_job[p]
             j == Job(IF o.pc = "save" THEN "saving" ELSE "saving remove", o.name, o.by, o.accounts)
  <2>1. Becomes(p, j)
    BY <1>6, Outcomes
  <2>2. Typed(j)
    BY <1>1, <1>6, TypedFacts, Phases, TypedJob, Effects
  <2> HIDE DEF j
  <2> QED
    BY <1>1, <1>6, <2>1, <2>2, TypesOf, Effects
<1>7. ASSUME NEW p \in Processes, Login!Save(p)
      PROVE  Login!TypeOK'
  <2> DEFINE o == account_job[p]
             j == IF o.pc = "saving" THEN Rest ELSE Job("password", o.name, o.by, <<>>)
  <2>1. Becomes(p, j)
    BY <1>7, Outcomes
  <2>2. Typed(j) /\ config' \in Lists
    BY <1>1, <1>7, TypedFacts, RestTyped, Phases, TypedJob, Effects
  <2> HIDE DEF j
  <2> QED
    BY <1>1, <1>7, <2>1, <2>2, TypesOf, Effects
<1>8. ASSUME NEW p \in Processes, NEW n \in AccountNames, Login!StartEdit(p, n)
      PROVE  Login!TypeOK'
  <2> DEFINE c == [config EXCEPT ![Login!Picked(n)].edited = TRUE]
             j == Job("save", Login!NoName, 0, c)
  <2>1. Becomes(p, j)
    BY <1>8, Outcomes
  <2>2. c \in Lists
    BY <1>1, <1>8, PickedFacts, EditFacts, Effects
  <2> HIDE DEF c
  <2>3. Typed(j)
    BY <2>2, Phases, TypedJob
  <2>4. Histories(account_mishaps')
    BY <1>8, HistoryKept, Effects
  <2> HIDE DEF j
  <2> QED
    BY <1>1, <1>8, <2>1, <2>3, <2>4, TypesOf, Effects
<1>9. ASSUME NEW p \in Processes, NEW n \in AccountNames, Login!StartRemove(p, n)
      PROVE  Login!TypeOK'
  <2> DEFINE j == Job("save remove", n, 0, Login!Without(config, n))
  <2>1. Becomes(p, j)
    BY <1>9, Outcomes
  <2>2. Login!Without(config, n) \in Lists
    BY <1>1, WithoutFacts
  <2>3. Typed(j)
    BY <2>2, Phases, TypedJob
  <2>4. Histories(account_mishaps')
    BY <1>9, HistoryKept, Effects
  <2> HIDE DEF j
  <2> QED
    BY <1>1, <1>9, <2>1, <2>3, <2>4, TypesOf, Effects
<1>10. ASSUME NEW p \in Processes,
              Login!DeletePassword(p) \/ (Login!KeyringRefuses(p) /\ account_job[p].pc = "password")
       PROVE  Login!TypeOK'
  <2> DEFINE o == account_job[p]
             j == Job("token", o.name, o.by, o.accounts)
  <2>1. Becomes(p, j)
    BY <1>10, Outcomes
  <2>2. o.pc = "password"
    BY <1>10, Effects
  <2>3. Typed(j)
    BY <1>1, <2>2, TypedFacts, Phases, TypedJob
  <2>4. /\ keyring' \in [AccountNames -> Nat] /\ account_faults' \in Nat
        /\ Histories(account_mishaps') /\ config' = config /\ tokens' = tokens /\ added' = added
    <3>1. CASE Login!DeletePassword(p)
      <4>1. /\ keyring' = [keyring EXCEPT ![o.name] = 0] /\ config' = config /\ tokens' = tokens
            /\ added' = added /\ account_mishaps' = account_mishaps /\ account_faults' = account_faults
        BY <3>1, Effects, Zenon
      <4> QED
        BY <1>1, <4>1
    <3>2. CASE Login!KeyringRefuses(p)
      <4>1. /\ config' = config /\ keyring' = keyring /\ tokens' = tokens /\ added' = added
            /\ account_mishaps' = account_mishaps \cup {"killed"} /\ account_faults' = account_faults + 1
        BY <3>2, Effects, Zenon
      <4>2. Histories(account_mishaps \cup {"killed"})
        BY <1>1 DEF Histories
      <4> QED
        BY <1>1, <4>1, <4>2
    <3> QED
      BY <1>10, <3>1, <3>2
  <2> HIDE DEF j
  <2> QED
    BY <1>1, <2>1, <2>3, <2>4, TypesOf
<1>11. ASSUME NEW p \in Processes,
              \/ Login!DeleteRefreshToken(p)
              \/ Login!KeyringRefuses(p) /\ account_job[p].pc # "password"
              \/ Login!Callback(p, FALSE) \/ Login!Exchange(p, FALSE)
              \/ Login!StoreRefreshToken(p) \/ Login!Killed(p)
       PROVE  Login!TypeOK'
  <2>1. Becomes(p, Rest)
    BY <1>11, Outcomes
  <2>2. /\ tokens' \in [AccountNames -> Nat] /\ account_faults' \in Nat
        /\ Histories(account_mishaps') /\ config' = config /\ keyring' = keyring /\ added' = added
    <3>1. CASE Login!DeleteRefreshToken(p)
      <4>1. /\ tokens' = [tokens EXCEPT ![account_job[p].name] = 0] /\ config' = config /\ keyring' = keyring
            /\ added' = added /\ account_mishaps' = account_mishaps /\ account_faults' = account_faults
        BY <3>1, Effects, Zenon
      <4> QED
        BY <1>1, <4>1
    <3>2. CASE Login!KeyringRefuses(p) \/ Login!Killed(p)
      <4>1. /\ config' = config /\ keyring' = keyring /\ tokens' = tokens /\ added' = added
            /\ account_mishaps' = account_mishaps \cup {"killed"} /\ account_faults' = account_faults + 1
        BY <3>2, Effects, Zenon
      <4>2. Histories(account_mishaps \cup {"killed"})
        BY <1>1 DEF Histories
      <4> QED
        BY <1>1, <4>1, <4>2
    <3>3. CASE Login!Callback(p, FALSE) \/ Login!Exchange(p, FALSE)
      BY <1>1, <3>3, Effects
    <3>4. CASE Login!StoreRefreshToken(p)
      <4>1. account_job[p].name \in AccountNames /\ account_job[p].by \in Nat
        BY <3>4, Effects, TypedFacts, Phases
      <4> QED
        BY <1>1, <3>4, <4>1, Effects
    <3> QED
      BY <1>11, <3>1, <3>2, <3>3, <3>4
  <2> QED
    BY <1>1, <2>1, <2>2, TypesOf, RestTyped
<1>12. ASSUME NEW p \in Processes, NEW n \in AccountNames, Login!StartLogin(p, n)
       PROVE  Login!TypeOK'
  <2> DEFINE b == config[Login!Picked(n)].by
             j == Job("listen", n, b, <<>>)
  <2>1. Becomes(p, j)
    BY <1>12, Outcomes
  <2>2. b \in Nat /\ b # 0
    <3>1. Login!Picked(n) \in 1 .. Len(config)
      BY <1>1, <1>12, PickedFacts, Effects
    <3>2. config[Login!Picked(n)] \in Login!AccountTypes
      BY <1>1, <3>1 DEF Lists
    <3> QED
      BY <3>2 DEF Login!AccountTypes
  <2> HIDE DEF b
  <2>3. Typed(j)
    BY <1>1, <2>2, Phases, TypedJob
  <2>4. Histories(account_mishaps')
    BY <1>12, HistoryKept, Effects
  <2> HIDE DEF j
  <2> QED
    BY <1>1, <1>12, <2>1, <2>3, <2>4, TypesOf, Effects
<1>13. ASSUME NEW p \in Processes, Login!Callback(p, TRUE) \/ Login!Exchange(p, TRUE)
       PROVE  Login!TypeOK'
  <2> DEFINE o == account_job[p]
             j == Job(IF o.pc = "listen" THEN "exchange" ELSE "store token", o.name, o.by, o.accounts)
  <2>1. Becomes(p, j) /\ o.pc \in {"listen", "exchange"}
    BY <1>13, Outcomes DEF Login!Callback, Login!Exchange
  <2>2. Typed(j)
    BY <1>1, <2>1, TypedFacts, Phases, TypedJob
  <2> HIDE DEF j
  <2> QED
    BY <1>1, <1>13, <2>1, <2>2, TypesOf, Effects
<1>14. ASSUME NEW n \in AccountNames, Login!Logout(n)
       PROVE  Login!TypeOK'
  BY <1>14 DEF Login!Logout, Login!TypeOK
<1>15. CASE UNCHANGED Login!vars
  BY <1>15 DEF Login!vars, Login!TypeOK
<1> QED
  BY <1>3, <1>4, <1>5, <1>6, <1>7, <1>8, <1>9, <1>10, <1>11, <1>12, <1>13, <1>14, <1>15
     DEF Login!Next, Login!Step
-----------------------------------------------------------------------------
(* Accounts: passwords *)

\* What a step makes of the commands, one of which has become j.
LEMMA JobsAfter ==
    ASSUME Login!TypeOK, NEW p \in Processes, NEW j, Becomes(p, j)
    PROVE  /\ account_job'[p] = j /\ \A q \in Processes \ {p} : account_job'[q] = account_job[q]
           /\ j.pc # "idle" => Login!Doing' = Login!Doing \cup {p}
           /\ j.pc = "idle" => Login!Doing' = Login!Doing \ {p}
<1>1. account_job \in [Processes -> Login!Jobs]
  BY DEF Login!TypeOK
<1>2. \A q \in Processes : account_job'[q] = IF q = p THEN j ELSE account_job[q]
  BY <1>1 DEF Becomes
<1> QED
  BY <1>2 DEF Login!Doing

\* A command that starts, and leaves no trace of an overlap.
LEMMA OverlapFacts ==
    ASSUME NEW p \in Processes, NEW removes \in BOOLEAN, account_job[p].pc = "idle",
           NEW m, account_mishaps \cup Login!Overlap(p, removes) \subseteq m
    PROVE  /\ "overlap" \notin m => Login!Doing = {}
           /\ "removal overlaps" \notin m =>
                 /\ removes => Login!Doing = {}
                 /\ \A q \in Processes : account_job[q].pc \notin Login!Removing
<1> DEFINE others == {q \in Processes \ {p} : account_job[q].pc # "idle"}
<1>1. Login!Doing = others
  BY DEF Login!Doing
<1>2. "overlap" \notin m => others = {}
  BY DEF Login!Overlap
<1>3. ASSUME "removal overlaps" \notin m
      PROVE  /\ removes => others = {}
             /\ \A q \in others : account_job[q].pc \notin {"save remove", "saving remove", "password", "token"}
  <2>1. "removal overlaps" \notin Login!Overlap(p, removes)
    BY <1>3
  <2> QED
    BY <2>1 DEF Login!Overlap
<1>4. \A q \in Processes : q \in others \/ account_job[q].pc = "idle"
  OBVIOUS
<1> QED
  BY <1>1, <1>2, <1>3, <1>4, Phases

Keyed(accounts, ring) ==
    \A i \in 1 .. Len(accounts) : accounts[i].auth = "password" => ring[accounts[i].name] # 0

KeyedFor(j, ring) ==
    j.pc \in Login!Writing => \A i \in 1 .. Len(j.accounts) :
        \/ j.accounts[i].auth = "password" => ring[j.accounts[i].name] # 0
        \/ j.pc = "store password" /\ j.accounts[i].name = j.name

OffList(j, list) ==
    /\ j.pc \in {"save remove", "saving remove"} => j.name \notin Login!NamesIn(j.accounts)
    /\ j.pc = "password" => j.name \notin Login!NamesIn(list)

LEMMA KeyedFacts ==
    ASSUME Login!TypeOK, Login!KeyedInv, "removal overlaps" \notin account_mishaps
    PROVE  /\ Keyed(config, keyring)
           /\ \A q \in Processes : /\ KeyedFor(account_job[q], keyring) /\ OffList(account_job[q], config)
                                   /\ account_job[q].pc \in Login!Removing => Login!Doing = {q}
           /\ \A p \in Login!Doing : \A q \in Processes \ {p} : account_job[q].pc \notin Login!Removing
BY DEF Login!KeyedInv, Keyed, KeyedFor, OffList

LEMMA KeyedStep ==
    ASSUME Login!TypeOK, Login!KeyedInv, "removal overlaps" \notin account_mishaps,
           NEW p \in Processes, NEW j, Becomes(p, j),
           Keyed(config', keyring'), KeyedFor(j, keyring'), OffList(j, config'),
           \A q \in Processes \ {p} : account_job[q].pc \notin Login!Removing,
           (\A n \in AccountNames : keyring[n] # 0 => keyring'[n] # 0) \/ Login!Doing \subseteq {p},
           j.pc \in Login!Removing => Login!Doing \subseteq {p}
    PROVE  Login!KeyedInv'
<1>1. \A q \in Processes : KeyedFor(account_job'[q], keyring')
  <2>1. ASSUME NEW q \in Processes \ {p} PROVE KeyedFor(account_job[q], keyring')
    <3>1. KeyedFor(account_job[q], keyring) /\ account_job[q].accounts \in Lists
      BY KeyedFacts, TypedFacts
    <3>2. \A i \in 1 .. Len(account_job[q].accounts) : account_job[q].accounts[i].name \in AccountNames
      BY <3>1, ListFacts
    <3>3. CASE \A n \in AccountNames : keyring[n] # 0 => keyring'[n] # 0
      BY <3>1, <3>2, <3>3 DEF KeyedFor
    <3>4. CASE Login!Doing \subseteq {p}
      <4>1. account_job[q].pc = "idle"
        BY <3>4 DEF Login!Doing
      <4> QED
        BY <4>1, Phases DEF KeyedFor
    <3> QED
      BY <3>3, <3>4
  <2> QED
    BY <2>1, JobsAfter
<1>2. \A q \in Processes : OffList(account_job'[q], config')
  <2>1. ASSUME NEW q \in Processes \ {p} PROVE OffList(account_job[q], config')
    BY Phases DEF OffList
  <2> QED
    BY <2>1, JobsAfter
<1>3. \A q \in Processes : account_job'[q].pc \in Login!Removing => Login!Doing' = {q}
  <2>1. j.pc \in Login!Removing => Login!Doing' = {p}
    <3>1. j.pc \in Login!Removing => j.pc # "idle"
      BY Phases
    <3> QED
      BY <3>1, JobsAfter
  <2> QED
    BY <2>1, JobsAfter
<1> QED
  BY <1>1, <1>2, <1>3 DEF Login!KeyedInv, Keyed, KeyedFor, OffList

LEMMA NoneKeyed == \A ring : Keyed(<<>>, ring)
BY DEF Keyed

LEMMA NextAccount ==
    ASSUME Login!TypeOK
    PROVE  config \in Lists /\ added + 1 \in Nat \ {0}
<1>1. config \in Lists /\ added \in Nat
  BY DEF Login!TypeOK, Lists
<1>2. added + 1 \in Nat \ {0}
  BY <1>1
<1> QED
  BY <1>1, <1>2

\* What a new account adds to the list.
LEMMA NewKeyed ==
    ASSUME Login!TypeOK, Keyed(config, keyring), NEW n \in AccountNames, NEW auth \in {"password", "oauth"}, NEW b
    PROVE  KeyedFor(Job(Login!AfterPrompts(auth), n, b, Append(config, Login!Account(n, auth, added + 1))), keyring)
<1>1. config \in Lists /\ added + 1 \in Nat \ {0}
  BY NextAccount
<1> DEFINE a == Login!Account(n, auth, added + 1)
           c == Append(config, a)
           pc == Login!AfterPrompts(auth)
<1>2. a \in Login!AccountTypes /\ a.name = n /\ a.auth = auth
  BY <1>1, AccountFacts
<1> HIDE DEF a
<1>3. Extends(c, config, a)
  BY <1>1, <1>2, Shapes
<1> HIDE DEF c
<1>4. ASSUME NEW i \in 1 .. Len(c)
      PROVE  \/ c[i].auth = "password" => keyring[c[i].name] # 0
             \/ pc = "store password" /\ c[i].name = n
  <2>1. c[i] = a \/ \E k \in 1 .. Len(config) : c[i] = config[k]
    BY <1>3 DEF Extends
  <2>2. auth = "password" => pc = "store password"
    BY DEF Login!AfterPrompts
  <2> QED
    BY <1>2, <2>1, <2>2 DEF Keyed
<1> HIDE DEF pc
<1> QED
  BY <1>4 DEF Job, KeyedFor, c, a, pc

LEMMA KeyedKept ==
    ASSUME Login!TypeOK, Login!KeyedInv, [Login!Next]_(Login!vars)
    PROVE  Login!KeyedInv'
<1> SUFFICES ASSUME "removal overlaps" \notin account_mishaps' PROVE Login!KeyedInv'
  BY DEF Login!KeyedInv
<1>1. config \in Lists /\ keyring \in [AccountNames -> Nat] /\ added \in Nat
  BY DEF Login!TypeOK, Lists
<1>2. \A i \in 1 .. Len(config) : config[i] \in Login!AccountTypes /\ config[i].name \in AccountNames
  BY <1>1, ListFacts
<1>4. ASSUME NEW p \in Processes, NEW n \in AccountNames, NEW auth \in {"password", "oauth"},
             Login!StartAdd(p, n, auth)
      PROVE  Login!KeyedInv'
  <2> DEFINE j == Job(Login!AfterPrompts(auth), n, added + 1, Append(config, Login!Account(n, auth, added + 1)))
  <2>1. /\ account_job[p].pc = "idle" /\ config' = config /\ keyring' = keyring
        /\ account_mishaps' = account_mishaps \cup Login!Overlap(p, FALSE)
    BY <1>4, Effects, Zenon
  <2>2. Becomes(p, j)
    BY <1>4, Outcomes
  <2>3. Login!AfterPrompts(auth) \in {"store password", "save"}
    BY DEF Login!AfterPrompts
  <2>4. KeyedFor(j, keyring) /\ OffList(j, config) /\ j.pc \notin Login!Removing
    <3>1. j.pc \in {"store password", "save"}
      BY <2>3 DEF Job
    <3>2. KeyedFor(j, keyring)
      BY <2>1, NewKeyed, KeyedFacts
    <3> QED
      BY <3>1, <3>2, Phases DEF OffList
  <2>5. \A q \in Processes : account_job[q].pc \notin Login!Removing
    BY <2>1, OverlapFacts
  <2> HIDE DEF j
  <2> QED
    BY <2>1, <2>2, <2>4, <2>5, KeyedStep, KeyedFacts
<1>5. ASSUME NEW p \in Processes, NEW n \in AccountNames, Login!StartWizard(p, n)
      PROVE  Login!KeyedInv'
  <2> DEFINE j == Job("store password", n, added + 1, Append(config, Login!Account(n, "password", added + 1)))
  <2>1. /\ account_job[p].pc = "idle" /\ config' = config /\ keyring' = keyring
        /\ account_mishaps \cup Login!Overlap(p, FALSE) \subseteq account_mishaps'
    BY <1>5, Effects
  <2>2. Becomes(p, j)
    BY <1>5, Outcomes
  <2>3. KeyedFor(j, keyring) /\ OffList(j, config) /\ j.pc \notin Login!Removing
    <3>1. j.pc = "store password"
      BY DEF Job
    <3>2. Login!AfterPrompts("password") = "store password"
      BY DEF Login!AfterPrompts
    <3>3. KeyedFor(j, keyring)
      BY <2>1, <3>2, NewKeyed, KeyedFacts
    <3> QED
      BY <3>1, <3>3, Phases DEF OffList
  <2>4. \A q \in Processes : account_job[q].pc \notin Login!Removing
    BY <2>1, OverlapFacts
  <2> HIDE DEF j
  <2> QED
    BY <2>1, <2>2, <2>3, <2>4, KeyedStep, KeyedFacts
<1>6. ASSUME NEW p \in Processes, Login!StorePassword(p)
      PROVE  Login!KeyedInv'
  <2> DEFINE o == account_job[p]
             j == Job("save", Login!NoName, 0, o.accounts)
  <2>1. /\ o.pc = "store password" /\ keyring' = [keyring EXCEPT ![o.name] = o.by]
        /\ config' = config /\ account_mishaps' = account_mishaps
    BY <1>6, Effects, Zenon
  <2>2. Becomes(p, j)
    BY <1>6, Outcomes
  <2>3. o.name \in AccountNames /\ o.by # 0 /\ o.accounts \in Lists /\ p \in Login!Doing
    BY <2>1, TypedFacts DEF Login!Doing
  <2>4. keyring'[o.name] # 0 /\ \A n \in AccountNames : keyring[n] # 0 => keyring'[n] # 0
    BY <1>1, <2>1, <2>3
  <2>5. Keyed(config', keyring')
    BY <1>2, <2>1, <2>4, KeyedFacts DEF Keyed
  <2>6. KeyedFor(j, keyring')
    <3>1. \A i \in 1 .. Len(o.accounts) : o.accounts[i].name \in AccountNames
      BY <2>3, ListFacts
    <3>2. \A i \in 1 .. Len(o.accounts) :
             \/ o.accounts[i].auth = "password" => keyring[o.accounts[i].name] # 0
             \/ o.accounts[i].name = o.name
      BY <2>1, KeyedFacts, Phases DEF KeyedFor
    <3>3. \A i \in 1 .. Len(o.accounts) : o.accounts[i].auth = "password" => keyring'[o.accounts[i].name] # 0
      BY <2>4, <3>1, <3>2
    <3> QED
      BY <3>3 DEF Job, KeyedFor
  <2>7. OffList(j, config') /\ j.pc \notin Login!Removing
    BY Phases DEF Job, OffList
  <2>8. \A q \in Processes \ {p} : account_job[q].pc \notin Login!Removing
    BY <2>1, <2>3, KeyedFacts
  <2> HIDE DEF j
  <2> QED
    BY <2>1, <2>2, <2>4, <2>5, <2>6, <2>7, <2>8, KeyedStep
<1>7. ASSUME NEW p \in Processes, Login!Truncate(p)
      PROVE  Login!KeyedInv'
  <2> DEFINE o == account_job[p]
             j == Job(IF o.pc = "save" THEN "saving" ELSE "saving remove", o.name, o.by, o.accounts)
  <2>1. /\ o.pc \in {"save", "save remove"} /\ config' = <<>> /\ keyring' = keyring
        /\ account_mishaps' = account_mishaps
    BY <1>7, Effects, Zenon
  <2>2. Becomes(p, j)
    BY <1>7, Outcomes
  <2>3. Keyed(config', keyring') /\ p \in Login!Doing
    <3>1. p \in Login!Doing
      BY <2>1 DEF Login!Doing
    <3> QED
      BY <2>1, <3>1, NoneKeyed
  <2>4. KeyedFor(o, keyring) /\ OffList(o, config) /\ (o.pc \in Login!Removing => Login!Doing = {p})
    BY <2>1, KeyedFacts
  <2>5. /\ j.pc = (IF o.pc = "save" THEN "saving" ELSE "saving remove")
        /\ j.name = o.name /\ j.accounts = o.accounts
    BY DEF Job
  <2> HIDE DEF j
  <2>6. KeyedFor(j, keyring') /\ OffList(j, config') /\ (j.pc \in Login!Removing => Login!Doing \subseteq {p})
    BY <2>1, <2>4, <2>5, Phases DEF KeyedFor, OffList
  <2>7. \A q \in Processes \ {p} : account_job[q].pc \notin Login!Removing
    BY <2>1, <2>3, KeyedFacts
  <2> QED
    BY <2>1, <2>2, <2>3, <2>6, <2>7, KeyedStep
<1>8. ASSUME NEW p \in Processes, Login!Save(p)
      PROVE  Login!KeyedInv'
  <2> DEFINE o == account_job[p]
             j == IF o.pc = "saving" THEN Rest ELSE Job("password", o.name, o.by, <<>>)
  <2>1. /\ o.pc \in {"saving", "saving remove"} /\ config' = o.accounts /\ keyring' = keyring
        /\ account_mishaps' = account_mishaps
    BY <1>8, Effects, Zenon
  <2>2. Becomes(p, j)
    BY <1>8, Outcomes
  <2>3. KeyedFor(o, keyring) /\ OffList(o, config) /\ (o.pc \in Login!Removing => Login!Doing = {p})
    BY <2>1, KeyedFacts
  <2>4. Keyed(config', keyring') /\ p \in Login!Doing
    BY <2>1, <2>3, Phases DEF Keyed, KeyedFor, Login!Doing
  <2>5. /\ j.pc = (IF o.pc = "saving" THEN "idle" ELSE "password")
        /\ o.pc # "saving" => j.name = o.name
    BY RestTyped DEF Job
  <2> HIDE DEF j
  <2>6. KeyedFor(j, keyring') /\ OffList(j, config') /\ (j.pc \in Login!Removing => Login!Doing \subseteq {p})
    BY <2>1, <2>3, <2>5, Phases DEF KeyedFor, OffList
  <2>7. \A q \in Processes \ {p} : account_job[q].pc \notin Login!Removing
    BY <2>1, <2>4, KeyedFacts
  <2> QED
    BY <2>1, <2>2, <2>4, <2>6, <2>7, KeyedStep
<1>9. ASSUME NEW p \in Processes, NEW n \in AccountNames, Login!StartEdit(p, n)
      PROVE  Login!KeyedInv'
  <2> DEFINE c == [config EXCEPT ![Login!Picked(n)].edited = TRUE]
             j == Job("save", Login!NoName, 0, c)
  <2>1. /\ account_job[p].pc = "idle" /\ n \in Login!NamesIn(config) /\ config' = config /\ keyring' = keyring
        /\ account_mishaps' = account_mishaps \cup Login!Overlap(p, FALSE)
    BY <1>9, Effects, Zenon
  <2>2. Becomes(p, j)
    BY <1>9, Outcomes
  <2>3. Len(c) = Len(config) /\ \A i \in 1 .. Len(config) : c[i].name = config[i].name /\ c[i].auth = config[i].auth
    <3>1. Edits(c, config)
      BY <1>1, <2>1, Shapes
    <3> HIDE DEF c
    <3> QED
      BY <3>1 DEF Edits
  <2> HIDE DEF c
  <2>4. Keyed(config, keyring)
    BY <2>1, KeyedFacts
  <2>5. KeyedFor(j, keyring) /\ OffList(j, config) /\ j.pc \notin Login!Removing
    BY <2>3, <2>4, Phases DEF Job, KeyedFor, Keyed, OffList
  <2>6. \A q \in Processes : account_job[q].pc \notin Login!Removing
    BY <2>1, OverlapFacts
  <2> HIDE DEF j
  <2> QED
    BY <2>1, <2>2, <2>4, <2>5, <2>6, KeyedStep
<1>10. ASSUME NEW p \in Processes, NEW n \in AccountNames, Login!StartRemove(p, n)
       PROVE  Login!KeyedInv'
  <2> DEFINE c == Login!Without(config, n)
             j == Job("save remove", n, 0, c)
  <2>1. /\ account_job[p].pc = "idle" /\ config' = config /\ keyring' = keyring
        /\ account_mishaps' = account_mishaps \cup Login!Overlap(p, TRUE)
    BY <1>10, Effects, Zenon
  <2>2. Becomes(p, j)
    BY <1>10, Outcomes
  <2>3. \A i \in 1 .. Len(c) : \E k \in 1 .. Len(config) : c[i] = config[k] /\ config[k].name # n
    <3>1. Leaves(c, config, n)
      BY <1>1, Shapes
    <3> HIDE DEF c
    <3> QED
      BY <3>1 DEF Leaves
  <2> HIDE DEF c
  <2>4. Keyed(config, keyring)
    BY <2>1, KeyedFacts
  <2>5. KeyedFor(j, keyring) /\ OffList(j, config)
    BY <2>3, <2>4 DEF Job, KeyedFor, Keyed, OffList, Login!NamesIn
  <2>6. Login!Doing = {} /\ \A q \in Processes : account_job[q].pc \notin Login!Removing
    BY <2>1, OverlapFacts
  <2> HIDE DEF j
  <2> QED
    BY <2>1, <2>2, <2>4, <2>5, <2>6, KeyedStep
<1>11. ASSUME NEW p \in Processes, Login!DeletePassword(p)
       PROVE  Login!KeyedInv'
  <2> DEFINE o == account_job[p]
             j == Job("token", o.name, o.by, o.accounts)
  <2>1. /\ o.pc = "password" /\ keyring' = [keyring EXCEPT ![o.name] = 0]
        /\ config' = config /\ account_mishaps' = account_mishaps
    BY <1>11, Effects, Zenon
  <2>2. Becomes(p, j)
    BY <1>11, Outcomes
  <2>3. Login!Doing = {p} /\ o.name \notin Login!NamesIn(config) /\ Keyed(config, keyring)
    BY <2>1, KeyedFacts, Phases DEF OffList
  <2>4. Keyed(config', keyring')
    BY <1>1, <1>2, <2>1, <2>3 DEF Keyed, Login!NamesIn
  <2>5. KeyedFor(j, keyring') /\ OffList(j, config')
    BY Phases DEF Job, KeyedFor, OffList
  <2>6. \A q \in Processes \ {p} : account_job[q].pc \notin Login!Removing
    BY <2>1, <2>3, KeyedFacts
  <2> HIDE DEF j
  <2> QED
    BY <2>1, <2>2, <2>3, <2>4, <2>5, <2>6, KeyedStep
<1>12. ASSUME NEW p \in Processes, p \in Login!Doing, config' = config, keyring' = keyring,
              account_mishaps \subseteq account_mishaps',
              NEW j, Becomes(p, j), j.pc \in {"idle", "token"} \cup Login!LoggingIn,
              j.pc = "token" => account_job[p].pc = "password"
       PROVE  Login!KeyedInv'
  <2>1. "removal overlaps" \notin account_mishaps
    BY <1>12
  <2>2. KeyedFor(j, keyring') /\ OffList(j, config')
    BY <1>12, Phases DEF KeyedFor, OffList
  <2>3. j.pc \in Login!Removing => Login!Doing \subseteq {p}
    BY <1>12, <2>1, KeyedFacts, Phases
  <2>4. \A q \in Processes \ {p} : account_job[q].pc \notin Login!Removing
    BY <1>12, <2>1, KeyedFacts
  <2> QED
    BY <1>12, <2>1, <2>2, <2>3, <2>4, KeyedStep, KeyedFacts
<1>13. ASSUME NEW p \in Processes, Login!KeyringRefuses(p) \/ Login!Killed(p)
       PROVE  Login!KeyedInv'
  <2> DEFINE o == account_job[p]
             j == IF Login!KeyringRefuses(p) /\ o.pc = "password" THEN Job("token", o.name, o.by, o.accounts) ELSE Rest
  <2>1. /\ o.pc # "idle" /\ config' = config /\ keyring' = keyring
        /\ account_mishaps' = account_mishaps \cup {"killed"}
    BY <1>13, Effects, Zenon
  <2>2. Becomes(p, j)
    BY <1>13, Outcomes
  <2>3. j.pc \in {"idle", "token"} /\ (j.pc = "token" => o.pc = "password")
    BY RestTyped DEF Job
  <2>4. p \in Login!Doing
    BY <2>1 DEF Login!Doing
  <2> HIDE DEF j
  <2> QED
    BY <1>12, <2>1, <2>2, <2>3, <2>4
<1>14. ASSUME NEW p \in Processes, NEW n \in AccountNames, Login!StartLogin(p, n)
       PROVE  Login!KeyedInv'
  <2> DEFINE j == Job("listen", n, config[Login!Picked(n)].by, <<>>)
  <2>1. /\ account_job[p].pc = "idle" /\ config' = config /\ keyring' = keyring
        /\ account_mishaps' = account_mishaps \cup Login!Overlap(p, FALSE)
    BY <1>14, Effects, Zenon
  <2>2. Becomes(p, j)
    BY <1>14, Outcomes
  <2>3. KeyedFor(j, keyring) /\ OffList(j, config) /\ j.pc \notin Login!Removing
    BY Phases DEF Job, KeyedFor, OffList
  <2>4. \A q \in Processes : account_job[q].pc \notin Login!Removing
    BY <2>1, OverlapFacts
  <2> HIDE DEF j
  <2> QED
    BY <2>1, <2>2, <2>3, <2>4, KeyedStep, KeyedFacts
<1>15. ASSUME NEW p \in Processes, NEW yes \in BOOLEAN, Login!Callback(p, yes) \/ Login!Exchange(p, yes)
       PROVE  Login!KeyedInv'
  <2> DEFINE o == account_job[p]
             j == IF yes THEN Job(IF Login!Callback(p, yes) THEN "exchange" ELSE "store token",
                                  o.name, o.by, o.accounts)
                  ELSE Rest
  <2>1. /\ o.pc \in {"listen", "exchange"} /\ config' = config /\ keyring' = keyring
        /\ account_mishaps' = account_mishaps
    BY <1>15, Effects, Zenon
  <2>2. Becomes(p, j)
    BY <1>15, Outcomes
  <2>3. j.pc \in {"idle"} \cup Login!LoggingIn /\ j.pc # "token"
    BY RestTyped, Phases DEF Job
  <2>4. p \in Login!Doing
    BY <2>1 DEF Login!Doing
  <2> HIDE DEF j
  <2> QED
    BY <1>12, <2>1, <2>2, <2>3, <2>4
<1>16. ASSUME NEW p \in Processes, Login!DeleteRefreshToken(p) \/ Login!StoreRefreshToken(p)
       PROVE  Login!KeyedInv'
  <2>1. /\ account_job[p].pc \in {"token", "store token"} /\ config' = config /\ keyring' = keyring
        /\ account_mishaps' = account_mishaps
    BY <1>16, Effects
  <2>2. Becomes(p, Rest) /\ p \in Login!Doing
    BY <1>16, <2>1, Outcomes DEF Login!Doing
  <2> QED
    BY <1>12, <2>1, <2>2, RestTyped
<1>17. ASSUME Login!vars' = Login!vars \/ \E n \in AccountNames : Login!Logout(n)
       PROVE  Login!KeyedInv'
  <2>1. config' = config /\ keyring' = keyring /\ account_job' = account_job /\ account_mishaps' = account_mishaps
    BY <1>17, Zenon DEF Login!vars, Login!Logout
  <2> QED
    BY <2>1 DEF Login!KeyedInv, Login!Doing
<1> QED
  BY <1>4, <1>5, <1>6, <1>7, <1>8, <1>9, <1>10, <1>11, <1>13, <1>14, <1>15, <1>16, <1>17
     DEF Login!Next, Login!Step
-----------------------------------------------------------------------------
(* Accounts: whose password it is *)

LEMMA NamesAfter ==
    /\ \A t, s, a : Extends(t, s, a) => Login!NamesIn(t) = Login!NamesIn(s) \cup {a.name}
    /\ \A t, s : Edits(t, s) => Login!NamesIn(t) = Login!NamesIn(s)
    /\ \A t, s, n : Leaves(t, s, n) => /\ n \notin Login!NamesIn(t)
                                       /\ Login!NamesIn(s) \subseteq Login!NamesIn(t) \cup {n}
    /\ \A s : \A i \in 1 .. Len(s) : s[i].name \in Login!NamesIn(s)
<1>1. ASSUME NEW t, NEW s, NEW a, Extends(t, s, a) PROVE Login!NamesIn(t) = Login!NamesIn(s) \cup {a.name}
  BY <1>1 DEF Extends, Login!NamesIn
<1>2. ASSUME NEW t, NEW s, Edits(t, s) PROVE Login!NamesIn(t) = Login!NamesIn(s)
  BY <1>2 DEF Edits, Login!NamesIn
<1>3. ASSUME NEW t, NEW s, NEW n, Leaves(t, s, n)
      PROVE  n \notin Login!NamesIn(t) /\ Login!NamesIn(s) \subseteq Login!NamesIn(t) \cup {n}
  BY <1>3 DEF Leaves, Login!NamesIn
<1>4. \A s : \A i \in 1 .. Len(s) : s[i].name \in Login!NamesIn(s)
  BY DEF Login!NamesIn
<1> QED
  BY <1>1, <1>2, <1>3, <1>4

Own(accounts, ring) ==
    \A i \in 1 .. Len(accounts) : accounts[i].auth = "password" => ring[accounts[i].name] = accounts[i].by

OwnFor(j, ring) ==
    j.pc \in Login!Writing => /\ Login!Twinless(j.accounts)
                              /\ \A i \in 1 .. Len(j.accounts) :
                                   IF j.pc = "store password" /\ j.accounts[i].name = j.name
                                   THEN j.accounts[i].by = j.by
                                   ELSE j.accounts[i].auth = "password"
                                        => ring[j.accounts[i].name] = j.accounts[i].by

Fresh(j, list) == j.pc = "store password" => j.name \notin Login!NamesIn(list)

Orderly(m) == m \cap {"overlap", "twins"} = {}

LEMMA NoneOwn == Login!Twinless(<<>>) /\ \A ring : Own(<<>>, ring)
BY DEF Own, Login!Twinless

LEMMA OwnFacts ==
    ASSUME Login!OwnInv, Orderly(account_mishaps)
    PROVE  /\ \A p \in Login!Doing : Login!Doing \subseteq {p}
           /\ Own(config, keyring) /\ Login!Twinless(config)
           /\ \A q \in Processes : OwnFor(account_job[q], keyring) /\ Fresh(account_job[q], config)
BY DEF Login!OwnInv, Own, OwnFor, Fresh, Orderly

LEMMA OwnStep ==
    ASSUME Login!TypeOK, NEW p \in Processes, NEW j, Becomes(p, j), Login!Doing \subseteq {p},
           Own(config', keyring'), Login!Twinless(config'), OwnFor(j, keyring'), Fresh(j, config')
    PROVE  Login!OwnInv'
<1>1. \A q \in Processes \ {p} : account_job[q].pc = "idle"
  BY DEF Login!Doing
<1>2. \A q \in Processes : OwnFor(account_job'[q], keyring') /\ Fresh(account_job'[q], config')
  <2>1. \A q \in Processes \ {p} : OwnFor(account_job[q], keyring') /\ Fresh(account_job[q], config')
    BY <1>1, Phases DEF OwnFor, Fresh
  <2> QED
    BY <2>1, JobsAfter
<1>3. \A q \in Login!Doing' : q = p
  BY JobsAfter
<1> QED
  BY <1>2, <1>3 DEF Login!OwnInv, Own, OwnFor, Fresh

LEMMA NewOwn ==
    ASSUME Login!TypeOK, Own(config, keyring), Login!Twinless(config), NEW n \in AccountNames,
           n \notin Login!NamesIn(config), NEW auth \in {"password", "oauth"}
    PROVE  OwnFor(Job(Login!AfterPrompts(auth), n, added + 1,
                      Append(config, Login!Account(n, auth, added + 1))), keyring)
<1> DEFINE k == added + 1
<1>1. config \in Lists /\ k \in Nat \ {0}
  BY NextAccount
<1> HIDE DEF k
<1> DEFINE a == Login!Account(n, auth, k)
           c == Append(config, a)
           pc == Login!AfterPrompts(auth)
<1>2. a \in Login!AccountTypes /\ a.name = n /\ a.auth = auth /\ a.by = k
  BY <1>1, AccountFacts
<1> HIDE DEF a
<1>3. Extends(c, config, a)
  BY <1>1, <1>2, Shapes
<1> HIDE DEF c
<1>4. \A i \in 1 .. Len(c) : c[i] = a \/ \E l \in 1 .. Len(config) : c[i] = config[l]
  BY <1>3 DEF Extends
<1>5. \A l \in 1 .. Len(config) : config[l].name # n
  BY NamesAfter
<1>6. Login!Twinless(c)
  BY <1>2, <1>4, <1>5 DEF Login!Twinless
<1>7. ASSUME NEW i \in 1 .. Len(c)
      PROVE  IF pc = "store password" /\ c[i].name = n THEN c[i].by = k
             ELSE c[i].auth = "password" => keyring[c[i].name] = c[i].by
  <2>1. auth = "password" => pc = "store password"
    BY DEF Login!AfterPrompts
  <2> QED
    BY <1>2, <1>4, <1>5, <2>1 DEF Own
<1> HIDE DEF pc
<1> QED
  BY <1>6, <1>7 DEF Job, OwnFor, c, a, pc, k

\* A command that starts alone.
LEMMA StartsAlone ==
    ASSUME NEW p \in Processes, NEW removes \in BOOLEAN, account_job[p].pc = "idle",
           account_mishaps \cup Login!Overlap(p, removes) \subseteq account_mishaps', Orderly(account_mishaps')
    PROVE  Login!Doing = {} /\ Orderly(account_mishaps)
<1>1. "overlap" \notin account_mishaps' /\ Orderly(account_mishaps)
  BY DEF Orderly
<1> QED
  BY <1>1, OverlapFacts

LEMMA OwnKept ==
    ASSUME Login!TypeOK, Login!KeyedInv, Login!OwnInv, [Login!Next]_(Login!vars)
    PROVE  Login!OwnInv'
<1> SUFFICES ASSUME Orderly(account_mishaps') PROVE Login!OwnInv'
  BY DEF Login!OwnInv, Orderly
<1>1. config \in Lists /\ keyring \in [AccountNames -> Nat]
  BY DEF Login!TypeOK, Lists
<1>2. \A i \in 1 .. Len(config) : config[i].name \in AccountNames
  BY <1>1, ListFacts
<1>4. ASSUME NEW p \in Processes, NEW n \in AccountNames, NEW auth \in {"password", "oauth"},
             Login!StartAdd(p, n, auth)
      PROVE  Login!OwnInv'
  <2> DEFINE j == Job(Login!AfterPrompts(auth), n, added + 1, Append(config, Login!Account(n, auth, added + 1)))
  <2>1. /\ account_job[p].pc = "idle" /\ n \notin Login!NamesIn(config) /\ config' = config /\ keyring' = keyring
        /\ account_mishaps' = account_mishaps \cup Login!Overlap(p, FALSE)
    BY <1>4, Effects, Zenon
  <2>2. Becomes(p, j)
    BY <1>4, Outcomes
  <2>3. Login!Doing = {} /\ Orderly(account_mishaps)
    BY <2>1, StartsAlone
  <2>4. OwnFor(j, keyring)
    BY <2>1, <2>3, NewOwn, OwnFacts
  <2>5. Fresh(j, config)
    BY <2>1 DEF Fresh, Job
  <2> HIDE DEF j
  <2> QED
    BY <2>1, <2>2, <2>3, <2>4, <2>5, OwnStep, OwnFacts
<1>5. ASSUME NEW p \in Processes, NEW n \in AccountNames, Login!StartWizard(p, n)
      PROVE  Login!OwnInv'
  <2> DEFINE j == Job("store password", n, added + 1, Append(config, Login!Account(n, "password", added + 1)))
  <2>1. /\ account_job[p].pc = "idle" /\ config' = config /\ keyring' = keyring
        /\ account_mishaps \cup Login!Overlap(p, FALSE) \subseteq account_mishaps'
        /\ n \in Login!NamesIn(config) => "twins" \in account_mishaps'
    BY <1>5, Effects
  <2>2. Becomes(p, j)
    BY <1>5, Outcomes
  <2>3. Login!Doing = {} /\ Orderly(account_mishaps) /\ n \notin Login!NamesIn(config)
    BY <2>1, StartsAlone DEF Orderly
  <2>4. OwnFor(j, keyring)
    <3>1. Login!AfterPrompts("password") = "store password"
      BY DEF Login!AfterPrompts
    <3> QED
      BY <2>3, <3>1, NewOwn, OwnFacts
  <2>5. Fresh(j, config)
    BY <2>3 DEF Fresh, Job
  <2> HIDE DEF j
  <2> QED
    BY <2>1, <2>2, <2>3, <2>4, <2>5, OwnStep, OwnFacts
<1>6. ASSUME NEW p \in Processes, Login!StorePassword(p)
      PROVE  Login!OwnInv'
  <2> DEFINE o == account_job[p]
             j == Job("save", Login!NoName, 0, o.accounts)
  <2>1. /\ o.pc = "store password" /\ keyring' = [keyring EXCEPT ![o.name] = o.by]
        /\ config' = config /\ account_mishaps' = account_mishaps
    BY <1>6, Effects, Zenon
  <2>2. Becomes(p, j)
    BY <1>6, Outcomes
  <2>3. o.name \in AccountNames /\ o.accounts \in Lists /\ p \in Login!Doing
    BY <2>1, TypedFacts DEF Login!Doing
  <2>4. keyring'[o.name] = o.by /\ \A n \in AccountNames : n # o.name => keyring'[n] = keyring[n]
    BY <1>1, <2>1, <2>3
  <2>5. Own(config, keyring) /\ Login!Twinless(config) /\ OwnFor(o, keyring) /\ Fresh(o, config)
    BY <2>1, OwnFacts
  <2>6. \A i \in 1 .. Len(config) : config[i].name # o.name
    BY <2>1, <2>5, NamesAfter DEF Fresh
  <2>7. Own(config, keyring')
    BY <1>2, <2>4, <2>5, <2>6 DEF Own
  <2>8. OwnFor(j, keyring')
    <3>1. \A i \in 1 .. Len(o.accounts) : o.accounts[i].name \in AccountNames
      BY <2>3, ListFacts
    <3>2. /\ Login!Twinless(o.accounts)
          /\ \A i \in 1 .. Len(o.accounts) :
               IF o.accounts[i].name = o.name THEN o.accounts[i].by = o.by
               ELSE o.accounts[i].auth = "password" => keyring[o.accounts[i].name] = o.accounts[i].by
      BY <2>1, <2>5, Phases DEF OwnFor
    <3>3. \A i \in 1 .. Len(o.accounts) :
             o.accounts[i].auth = "password" => keyring'[o.accounts[i].name] = o.accounts[i].by
      BY <2>4, <3>1, <3>2
    <3> QED
      BY <3>2, <3>3 DEF OwnFor, Job
  <2>9. Fresh(j, config') /\ Login!Doing \subseteq {p}
    BY <2>1, <2>3, OwnFacts DEF Fresh, Job
  <2> HIDE DEF j
  <2> QED
    BY <2>1, <2>2, <2>5, <2>7, <2>8, <2>9, OwnStep
<1>7. ASSUME NEW p \in Processes, Login!Truncate(p)
      PROVE  Login!OwnInv'
  <2> DEFINE o == account_job[p]
             j == Job(IF o.pc = "save" THEN "saving" ELSE "saving remove", o.name, o.by, o.accounts)
  <2>1. /\ o.pc \in {"save", "save remove"} /\ config' = <<>> /\ keyring' = keyring
        /\ account_mishaps' = account_mishaps
    BY <1>7, Effects, Zenon
  <2>2. Becomes(p, j)
    BY <1>7, Outcomes
  <2>3. Login!Doing \subseteq {p}
    <3>1. p \in Login!Doing
      BY <2>1 DEF Login!Doing
    <3> QED
      BY <2>1, <3>1, OwnFacts
  <2>4. OwnFor(o, keyring)
    BY <2>1, OwnFacts
  <2>5. /\ j.pc = (IF o.pc = "save" THEN "saving" ELSE "saving remove")
        /\ j.name = o.name /\ j.accounts = o.accounts
    BY DEF Job
  <2> HIDE DEF j
  <2>6. OwnFor(j, keyring') /\ Fresh(j, config')
    BY <2>1, <2>4, <2>5, Phases DEF OwnFor, Fresh
  <2> QED
    BY <2>1, <2>2, <2>3, <2>6, OwnStep, NoneOwn
<1>8. ASSUME NEW p \in Processes, Login!Save(p)
      PROVE  Login!OwnInv'
  <2> DEFINE o == account_job[p]
             j == IF o.pc = "saving" THEN Rest ELSE Job("password", o.name, o.by, <<>>)
  <2>1. /\ o.pc \in {"saving", "saving remove"} /\ config' = o.accounts /\ keyring' = keyring
        /\ account_mishaps' = account_mishaps
    BY <1>8, Effects, Zenon
  <2>2. Becomes(p, j)
    BY <1>8, Outcomes
  <2>3. Login!Doing \subseteq {p}
    <3>1. p \in Login!Doing
      BY <2>1 DEF Login!Doing
    <3> QED
      BY <2>1, <3>1, OwnFacts
  <2>4. Own(o.accounts, keyring) /\ Login!Twinless(o.accounts)
    <3>1. OwnFor(o, keyring)
      BY <2>1, OwnFacts
    <3> QED
      BY <2>1, <3>1, Phases DEF Own, OwnFor
  <2>5. j.pc \in {"idle", "password"}
    BY RestTyped DEF Job
  <2> HIDE DEF j
  <2>6. OwnFor(j, keyring') /\ Fresh(j, config')
    BY <2>5, Phases DEF OwnFor, Fresh
  <2> QED
    BY <2>1, <2>2, <2>3, <2>4, <2>6, OwnStep
<1>9. ASSUME NEW p \in Processes, NEW n \in AccountNames, Login!StartEdit(p, n)
      PROVE  Login!OwnInv'
  <2> DEFINE c == [config EXCEPT ![Login!Picked(n)].edited = TRUE]
             j == Job("save", Login!NoName, 0, c)
  <2>1. /\ account_job[p].pc = "idle" /\ n \in Login!NamesIn(config) /\ config' = config /\ keyring' = keyring
        /\ account_mishaps' = account_mishaps \cup Login!Overlap(p, FALSE)
    BY <1>9, Effects, Zenon
  <2>2. Becomes(p, j)
    BY <1>9, Outcomes
  <2>3. Login!Doing = {} /\ Orderly(account_mishaps)
    BY <2>1, StartsAlone
  <2>4. Edits(c, config)
    BY <1>1, <2>1, Shapes
  <2> HIDE DEF c
  <2>5. Own(c, keyring) /\ Login!Twinless(c)
    BY <2>3, <2>4, OwnFacts DEF Edits, Own, Login!Twinless
  <2>6. OwnFor(j, keyring) /\ Fresh(j, config)
    BY <2>5 DEF OwnFor, Own, Fresh, Job
  <2> HIDE DEF j
  <2> QED
    BY <2>1, <2>2, <2>3, <2>6, OwnStep, OwnFacts
<1>10. ASSUME NEW p \in Processes, NEW n \in AccountNames, Login!StartRemove(p, n)
       PROVE  Login!OwnInv'
  <2> DEFINE c == Login!Without(config, n)
             j == Job("save remove", n, 0, c)
  <2>1. /\ account_job[p].pc = "idle" /\ config' = config /\ keyring' = keyring
        /\ account_mishaps' = account_mishaps \cup Login!Overlap(p, TRUE)
    BY <1>10, Effects, Zenon
  <2>2. Becomes(p, j)
    BY <1>10, Outcomes
  <2>3. Login!Doing = {} /\ Orderly(account_mishaps)
    BY <2>1, StartsAlone
  <2>4. Leaves(c, config, n)
    BY <1>1, Shapes
  <2> HIDE DEF c
  <2>5. Own(c, keyring) /\ Login!Twinless(c)
    <3>1. \A i \in 1 .. Len(c) : \E k \in 1 .. Len(config) : c[i] = config[k]
      BY <2>4 DEF Leaves
    <3>2. Own(config, keyring) /\ Login!Twinless(config)
      BY <2>3, OwnFacts
    <3>3. Own(c, keyring)
      BY <3>1, <3>2 DEF Own
    <3>4. Login!Twinless(c)
      BY <3>1, <3>2 DEF Login!Twinless
    <3> QED
      BY <3>3, <3>4
  <2>6. OwnFor(j, keyring) /\ Fresh(j, config)
    BY <2>5 DEF OwnFor, Own, Fresh, Job
  <2> HIDE DEF j
  <2> QED
    BY <2>1, <2>2, <2>3, <2>6, OwnStep, OwnFacts
<1>11. ASSUME NEW p \in Processes, Login!DeletePassword(p)
       PROVE  Login!OwnInv'
  <2> DEFINE o == account_job[p]
             j == Job("token", o.name, o.by, o.accounts)
  <2>1. /\ o.pc = "password" /\ keyring' = [keyring EXCEPT ![o.name] = 0]
        /\ config' = config /\ account_mishaps' = account_mishaps
    BY <1>11, Effects, Zenon
  <2>2. Becomes(p, j)
    BY <1>11, Outcomes
  <2>3. \A i \in 1 .. Len(config) : config[i].name # o.name
    <3>1. "removal overlaps" \notin account_mishaps
      BY <2>1 DEF Login!TypeOK, Orderly
    <3>2. o.name \notin Login!NamesIn(config)
      BY <2>1, <3>1, KeyedFacts DEF OffList
    <3> QED
      BY <3>2, NamesAfter
  <2>4. Own(config, keyring')
    BY <1>1, <1>2, <2>1, <2>3, OwnFacts DEF Own
  <2>5. OwnFor(j, keyring') /\ Fresh(j, config')
    BY Phases DEF OwnFor, Fresh, Job
  <2>6. Login!Doing \subseteq {p}
    <3>1. p \in Login!Doing
      BY <2>1 DEF Login!Doing
    <3> QED
      BY <2>1, <3>1, OwnFacts
  <2> HIDE DEF j
  <2> QED
    BY <2>1, <2>2, <2>4, <2>5, <2>6, OwnStep, OwnFacts
<1>12. ASSUME NEW p \in Processes, p \in Login!Doing, config' = config, keyring' = keyring,
              account_mishaps \subseteq account_mishaps',
              NEW j, Becomes(p, j), j.pc \in {"idle", "token"} \cup Login!LoggingIn
       PROVE  Login!OwnInv'
  <2>1. Orderly(account_mishaps)
    BY <1>12 DEF Orderly
  <2>2. OwnFor(j, keyring') /\ Fresh(j, config')
    BY <1>12, Phases DEF OwnFor, Fresh
  <2> QED
    BY <1>12, <2>1, <2>2, OwnStep, OwnFacts
<1>13. ASSUME NEW p \in Processes, Login!KeyringRefuses(p) \/ Login!Killed(p)
       PROVE  Login!OwnInv'
  <2> DEFINE o == account_job[p]
             j == IF Login!KeyringRefuses(p) /\ o.pc = "password" THEN Job("token", o.name, o.by, o.accounts) ELSE Rest
  <2>1. /\ o.pc # "idle" /\ config' = config /\ keyring' = keyring
        /\ account_mishaps' = account_mishaps \cup {"killed"}
    BY <1>13, Effects, Zenon
  <2>2. Becomes(p, j)
    BY <1>13, Outcomes
  <2>3. j.pc \in {"idle", "token"}
    BY RestTyped DEF Job
  <2>4. p \in Login!Doing
    BY <2>1 DEF Login!Doing
  <2> HIDE DEF j
  <2> QED
    BY <1>12, <2>1, <2>2, <2>3, <2>4
<1>14. ASSUME NEW p \in Processes, NEW n \in AccountNames, Login!StartLogin(p, n)
       PROVE  Login!OwnInv'
  <2> DEFINE j == Job("listen", n, config[Login!Picked(n)].by, <<>>)
  <2>1. /\ account_job[p].pc = "idle" /\ config' = config /\ keyring' = keyring
        /\ account_mishaps' = account_mishaps \cup Login!Overlap(p, FALSE)
    BY <1>14, Effects, Zenon
  <2>2. Becomes(p, j)
    BY <1>14, Outcomes
  <2>3. OwnFor(j, keyring) /\ Fresh(j, config)
    BY Phases DEF OwnFor, Fresh, Job
  <2>4. Login!Doing = {} /\ Orderly(account_mishaps)
    BY <2>1, StartsAlone
  <2> HIDE DEF j
  <2> QED
    BY <2>1, <2>2, <2>3, <2>4, OwnStep, OwnFacts
<1>15. ASSUME NEW p \in Processes, NEW yes \in BOOLEAN, Login!Callback(p, yes) \/ Login!Exchange(p, yes)
       PROVE  Login!OwnInv'
  <2> DEFINE o == account_job[p]
             j == IF yes THEN Job(IF Login!Callback(p, yes) THEN "exchange" ELSE "store token",
                                  o.name, o.by, o.accounts)
                  ELSE Rest
  <2>1. /\ o.pc \in {"listen", "exchange"} /\ config' = config /\ keyring' = keyring
        /\ account_mishaps' = account_mishaps
    BY <1>15, Effects, Zenon
  <2>2. Becomes(p, j)
    BY <1>15, Outcomes
  <2>3. j.pc \in {"idle"} \cup Login!LoggingIn
    BY RestTyped, Phases DEF Job
  <2>4. p \in Login!Doing
    BY <2>1 DEF Login!Doing
  <2> HIDE DEF j
  <2> QED
    BY <1>12, <2>1, <2>2, <2>3, <2>4
<1>16. ASSUME NEW p \in Processes, Login!DeleteRefreshToken(p) \/ Login!StoreRefreshToken(p)
       PROVE  Login!OwnInv'
  <2>1. /\ account_job[p].pc \in {"token", "store token"} /\ config' = config /\ keyring' = keyring
        /\ account_mishaps' = account_mishaps
    BY <1>16, Effects
  <2>2. Becomes(p, Rest) /\ p \in Login!Doing
    BY <1>16, <2>1, Outcomes DEF Login!Doing
  <2> QED
    BY <1>12, <2>1, <2>2, RestTyped
<1>17. ASSUME Login!vars' = Login!vars \/ \E n \in AccountNames : Login!Logout(n)
       PROVE  Login!OwnInv'
  <2>1. config' = config /\ keyring' = keyring /\ account_job' = account_job /\ account_mishaps' = account_mishaps
    BY <1>17, Zenon DEF Login!vars, Login!Logout
  <2> QED
    BY <2>1 DEF Login!OwnInv, Login!Doing
<1> QED
  BY <1>4, <1>5, <1>6, <1>7, <1>8, <1>9, <1>10, <1>11, <1>13, <1>14, <1>15, <1>16, <1>17
     DEF Login!Next, Login!Step
-----------------------------------------------------------------------------
(* Accounts: no secret outlives its account *)

Fits(accounts, tok) ==
    \A i \in 1 .. Len(accounts) : accounts[i].auth = "oauth" => tok[accounts[i].name] \in {0, accounts[i].by}

Held(ring, tok, names) == \A n \in AccountNames : ring[n] # 0 \/ tok[n] # 0 => n \in names

HoldersOf(j, list) ==
    (IF j.pc \in Login!Writing THEN Login!NamesIn(j.accounts) ELSE Login!NamesIn(list))
    \cup (IF j.pc \in Login!Removing THEN {j.name} ELSE {})

CleanFor(j, list, ring, tok) ==
    /\ j.pc \in Login!Writing => Fits(j.accounts, tok)
    /\ j.pc = "store password" => j.name \in Login!NamesIn(j.accounts)
    /\ j.pc = "token" => \A n \in AccountNames : ring[n] # 0 => n \in Login!NamesIn(list)
    /\ Held(ring, tok, HoldersOf(j, list))
    /\ j.pc \in Login!LoggingIn =>
          /\ j.name \in Login!NamesIn(list)
          /\ \A i \in 1 .. Len(list) : list[i].name = j.name => list[i].by = j.by

LEMMA NoneFits == \A tok : Fits(<<>>, tok)
BY DEF Fits

LEMMA CleanFacts ==
    ASSUME Login!OwnInv, Login!CleanInv, account_mishaps = {}
    PROVE  /\ \A p \in Login!Doing : Login!Doing \subseteq {p}
           /\ Login!Twinless(config) /\ Fits(config, tokens)
           /\ Login!Doing = {} => Held(keyring, tokens, Login!NamesIn(config))
           /\ \A p \in Login!Doing : CleanFor(account_job[p], config, keyring, tokens)
<1>1. Orderly(account_mishaps)
  BY DEF Orderly
<1> QED
  BY <1>1, OwnFacts DEF Login!CleanInv, Fits, Login!Fitting, Held, Login!Holders, HoldersOf, CleanFor

LEMMA CleanStep ==
    ASSUME Login!TypeOK, NEW p \in Processes, NEW j, Becomes(p, j), Login!Doing \subseteq {p},
           Fits(config', tokens'),
           j.pc = "idle" => Held(keyring', tokens', Login!NamesIn(config')),
           j.pc # "idle" => CleanFor(j, config', keyring', tokens')
    PROVE  Login!CleanInv'
<1>1. \A q \in Login!Doing' : q = p
  BY JobsAfter
<1>2. \A q \in Login!Doing' : CleanFor(account_job'[q], config', keyring', tokens')
  BY <1>1, JobsAfter
<1>3. Login!Doing' = {} => Held(keyring', tokens', Login!NamesIn(config'))
  BY JobsAfter
<1> QED
  BY <1>2, <1>3 DEF Login!CleanInv, Fits, Login!Fitting, Held, Login!Holders, HoldersOf, CleanFor

LEMMA NewClean ==
    ASSUME Login!TypeOK, Fits(config, tokens), Held(keyring, tokens, Login!NamesIn(config)),
           NEW n \in AccountNames, n \notin Login!NamesIn(config), NEW auth \in {"password", "oauth"}, NEW b
    PROVE  CleanFor(Job(Login!AfterPrompts(auth), n, b, Append(config, Login!Account(n, auth, added + 1))),
                    config, keyring, tokens)
<1> DEFINE k == added + 1
<1>1. config \in Lists /\ k \in Nat \ {0}
  BY NextAccount
<1> HIDE DEF k
<1> DEFINE a == Login!Account(n, auth, k)
           c == Append(config, a)
           pc == Login!AfterPrompts(auth)
           j == Job(pc, n, b, c)
<1>2. a \in Login!AccountTypes /\ a.name = n
  BY <1>1, AccountFacts
<1> HIDE DEF a
<1>3. Extends(c, config, a)
  BY <1>1, <1>2, Shapes
<1> HIDE DEF c
<1>4. \A i \in 1 .. Len(c) : c[i] = a \/ \E l \in 1 .. Len(config) : c[i] = config[l]
  BY <1>3 DEF Extends
<1>5. tokens[n] = 0
  BY DEF Held
<1>6. Fits(c, tokens)
  BY <1>2, <1>4, <1>5 DEF Fits
<1>7. Login!NamesIn(c) = Login!NamesIn(config) \cup {n}
  BY <1>2, <1>3, NamesAfter
<1>8. pc \in {"store password", "save"}
  BY DEF Login!AfterPrompts
<1> HIDE DEF pc
<1>9. j.pc = pc /\ j.name = n /\ j.accounts = c
  BY DEF Job
<1> HIDE DEF j
<1>10. CleanFor(j, config, keyring, tokens)
  BY <1>6, <1>7, <1>8, <1>9, Phases DEF CleanFor, HoldersOf, Held
<1> QED
  BY <1>10 DEF j, c, a, pc, k

LEMMA CleanKept ==
    ASSUME Login!TypeOK, Login!KeyedInv, Login!OwnInv, Login!CleanInv, [Login!Next]_(Login!vars)
    PROVE  Login!CleanInv'
<1> SUFFICES ASSUME account_mishaps' = {} PROVE Login!CleanInv'
  BY DEF Login!CleanInv
<1>1. /\ config \in Lists /\ keyring \in [AccountNames -> Nat] /\ tokens \in [AccountNames -> Nat]
      /\ Orderly({})
  BY DEF Login!TypeOK, Lists, Orderly
<1>2. \A i \in 1 .. Len(config) : config[i].name \in AccountNames
  BY <1>1, ListFacts
\* A command that starts does so alone, and one that goes on is alone.
<1>3. ASSUME NEW p \in Processes, NEW removes \in BOOLEAN, account_job[p].pc = "idle",
             account_mishaps \cup Login!Overlap(p, removes) \subseteq account_mishaps'
      PROVE  /\ account_mishaps = {} /\ Login!Doing = {} /\ Login!Twinless(config) /\ Fits(config, tokens)
             /\ Held(keyring, tokens, Login!NamesIn(config))
  BY <1>1, <1>3, StartsAlone, CleanFacts
<1>4. ASSUME NEW p \in Processes, NEW n \in AccountNames, NEW auth \in {"password", "oauth"},
             Login!StartAdd(p, n, auth)
      PROVE  Login!CleanInv'
  <2> DEFINE j == Job(Login!AfterPrompts(auth), n, added + 1, Append(config, Login!Account(n, auth, added + 1)))
  <2>1. /\ account_job[p].pc = "idle" /\ n \notin Login!NamesIn(config)
        /\ config' = config /\ keyring' = keyring /\ tokens' = tokens
        /\ account_mishaps' = account_mishaps \cup Login!Overlap(p, FALSE)
    BY <1>4, Effects, Zenon
  <2>2. Becomes(p, j)
    BY <1>4, Outcomes
  <2>3. Login!Doing = {} /\ Fits(config, tokens) /\ Held(keyring, tokens, Login!NamesIn(config))
    BY <1>3, <2>1
  <2>4. CleanFor(j, config, keyring, tokens)
    BY <2>1, <2>3, NewClean
  <2>5. j.pc # "idle"
    BY DEF Login!AfterPrompts, Job
  <2> HIDE DEF j
  <2> QED
    BY <2>1, <2>2, <2>3, <2>4, <2>5, CleanStep
<1>5. ASSUME NEW p \in Processes, NEW n \in AccountNames, Login!StartWizard(p, n)
      PROVE  Login!CleanInv'
  <2> DEFINE j == Job("store password", n, added + 1, Append(config, Login!Account(n, "password", added + 1)))
  <2>1. /\ account_job[p].pc = "idle" /\ config' = config /\ keyring' = keyring /\ tokens' = tokens
        /\ account_mishaps \cup Login!Overlap(p, FALSE) \subseteq account_mishaps'
        /\ n \in Login!NamesIn(config) => "twins" \in account_mishaps'
    BY <1>5, Effects
  <2>2. Becomes(p, j)
    BY <1>5, Outcomes
  <2>3. Login!Doing = {} /\ Fits(config, tokens) /\ Held(keyring, tokens, Login!NamesIn(config))
    BY <1>3, <2>1
  <2>4. CleanFor(j, config, keyring, tokens)
    <3>1. Login!AfterPrompts("password") = "store password"
      BY DEF Login!AfterPrompts
    <3>2. n \notin Login!NamesIn(config)
      BY <2>1
    <3> QED
      BY <2>3, <3>1, <3>2, NewClean
  <2>5. j.pc # "idle"
    BY DEF Job
  <2> HIDE DEF j
  <2> QED
    BY <2>1, <2>2, <2>3, <2>4, <2>5, CleanStep
<1>6. ASSUME NEW p \in Processes, NEW n \in AccountNames, Login!StartEdit(p, n)
      PROVE  Login!CleanInv'
  <2> DEFINE c == [config EXCEPT ![Login!Picked(n)].edited = TRUE]
             j == Job("save", Login!NoName, 0, c)
  <2>1. /\ account_job[p].pc = "idle" /\ n \in Login!NamesIn(config)
        /\ config' = config /\ keyring' = keyring /\ tokens' = tokens
        /\ account_mishaps' = account_mishaps \cup Login!Overlap(p, FALSE)
    BY <1>6, Effects, Zenon
  <2>2. Becomes(p, j)
    BY <1>6, Outcomes
  <2>3. Login!Doing = {} /\ Fits(config, tokens) /\ Held(keyring, tokens, Login!NamesIn(config))
    BY <1>3, <2>1
  <2>4. Edits(c, config)
    BY <1>1, <2>1, Shapes
  <2> HIDE DEF c
  <2>5. Fits(c, tokens) /\ Login!NamesIn(c) = Login!NamesIn(config)
    <3>1. Fits(c, tokens)
      BY <2>3, <2>4 DEF Edits, Fits
    <3> QED
      BY <2>4, <3>1, NamesAfter
  <2>6. j.pc = "save" /\ j.accounts = c
    BY DEF Job
  <2> HIDE DEF j
  <2>7. CleanFor(j, config, keyring, tokens)
    BY <2>3, <2>5, <2>6, Phases DEF CleanFor, HoldersOf, Held
  <2> QED
    BY <2>1, <2>2, <2>3, <2>6, <2>7, CleanStep
<1>7. ASSUME NEW p \in Processes, NEW n \in AccountNames, Login!StartRemove(p, n)
      PROVE  Login!CleanInv'
  <2> DEFINE c == Login!Without(config, n)
             j == Job("save remove", n, 0, c)
  <2>1. /\ account_job[p].pc = "idle" /\ config' = config /\ keyring' = keyring /\ tokens' = tokens
        /\ account_mishaps' = account_mishaps \cup Login!Overlap(p, TRUE)
    BY <1>7, Effects, Zenon
  <2>2. Becomes(p, j)
    BY <1>7, Outcomes
  <2>3. Login!Doing = {} /\ Fits(config, tokens) /\ Held(keyring, tokens, Login!NamesIn(config))
    BY <1>3, <2>1
  <2>4. Leaves(c, config, n)
    BY <1>1, Shapes
  <2> HIDE DEF c
  <2>5. Fits(c, tokens) /\ Login!NamesIn(config) \subseteq Login!NamesIn(c) \cup {n}
    <3>1. \A i \in 1 .. Len(c) : \E k \in 1 .. Len(config) : c[i] = config[k]
      BY <2>4 DEF Leaves
    <3>2. Fits(c, tokens)
      BY <2>3, <3>1 DEF Fits
    <3> QED
      BY <2>4, <3>2, NamesAfter
  <2>6. j.pc = "save remove" /\ j.accounts = c /\ j.name = n
    BY DEF Job
  <2> HIDE DEF j
  <2>7. CleanFor(j, config, keyring, tokens)
    BY <2>3, <2>5, <2>6, Phases DEF CleanFor, HoldersOf, Held
  <2> QED
    BY <2>1, <2>2, <2>3, <2>6, <2>7, CleanStep
<1>8. ASSUME NEW p \in Processes, NEW n \in AccountNames, Login!StartLogin(p, n)
      PROVE  Login!CleanInv'
  <2> DEFINE b == config[Login!Picked(n)].by
             j == Job("listen", n, b, <<>>)
  <2>1. /\ account_job[p].pc = "idle" /\ n \in Login!NamesIn(config)
        /\ config' = config /\ keyring' = keyring /\ tokens' = tokens
        /\ account_mishaps' = account_mishaps \cup Login!Overlap(p, FALSE)
    BY <1>8, Effects, Zenon
  <2>2. Becomes(p, j)
    BY <1>8, Outcomes
  <2>3. /\ Login!Doing = {} /\ Login!Twinless(config) /\ Fits(config, tokens)
        /\ Held(keyring, tokens, Login!NamesIn(config))
    BY <1>3, <2>1
  <2>4. \A i \in 1 .. Len(config) : config[i].name = n => config[i].by = b
    <3>1. Login!Picked(n) \in 1 .. Len(config) /\ config[Login!Picked(n)].name = n
      BY <1>1, <2>1, PickedFacts
    <3> QED
      BY <2>3, <3>1 DEF Login!Twinless
  <2> HIDE DEF b
  <2>5. j.pc = "listen" /\ j.name = n /\ j.by = b
    BY DEF Job
  <2> HIDE DEF j
  <2>6. CleanFor(j, config, keyring, tokens)
    BY <2>1, <2>3, <2>4, <2>5, Phases DEF CleanFor, HoldersOf, Held
  <2> QED
    BY <2>1, <2>2, <2>3, <2>5, <2>6, CleanStep
\* A command that goes on is alone.
<1>9. ASSUME NEW p \in Processes, account_job[p].pc # "idle", account_mishaps' = account_mishaps
      PROVE  /\ Login!Doing \subseteq {p} /\ Fits(config, tokens) /\ CleanFor(account_job[p], config, keyring, tokens)
             /\ \A n \in AccountNames : keyring[n] # 0 \/ tokens[n] # 0 => n \in HoldersOf(account_job[p], config)
  <2>1. p \in Login!Doing
    BY <1>9 DEF Login!Doing
  <2>2. account_mishaps = {}
    BY <1>9
  <2> QED
    BY <2>1, <2>2, CleanFacts DEF CleanFor, Held
<1>10. ASSUME NEW p \in Processes, Login!StorePassword(p)
       PROVE  Login!CleanInv'
  <2> DEFINE o == account_job[p]
             j == Job("save", Login!NoName, 0, o.accounts)
  <2>1. /\ o.pc = "store password" /\ keyring' = [keyring EXCEPT ![o.name] = o.by]
        /\ config' = config /\ tokens' = tokens /\ account_mishaps' = account_mishaps
    BY <1>10, Effects, Zenon
  <2>2. Becomes(p, j)
    BY <1>10, Outcomes
  <2>3. o.name \in AccountNames
    BY <2>1, TypedFacts
  <2>4. o.pc \in Login!Writing /\ o.pc \notin Login!Removing /\ o.pc # "idle"
    BY <2>1, Phases
  <2>5. /\ Fits(config, tokens) /\ Login!Doing \subseteq {p}
        /\ CleanFor(o, config, keyring, tokens)
    BY <1>9, <2>1, <2>4
  <2>6. /\ Fits(o.accounts, tokens) /\ o.name \in Login!NamesIn(o.accounts)
        /\ Held(keyring, tokens, Login!NamesIn(o.accounts))
    BY <2>1, <2>4, <2>5 DEF CleanFor, HoldersOf, Held
  <2>7. Held(keyring', tokens', Login!NamesIn(o.accounts))
    <3>1. \A n \in AccountNames : n # o.name => keyring'[n] = keyring[n]
      BY <1>1, <2>1, <2>3
    <3> QED
      BY <2>1, <2>6, <3>1 DEF Held
  <2>8. j.pc = "save" /\ j.accounts = o.accounts
    BY DEF Job
  <2> HIDE DEF j
  <2>9. CleanFor(j, config', keyring', tokens')
    BY <2>1, <2>6, <2>7, <2>8, Phases DEF CleanFor, HoldersOf, Held
  <2> QED
    BY <2>1, <2>2, <2>5, <2>8, <2>9, CleanStep
<1>11. ASSUME NEW p \in Processes, Login!Truncate(p)
       PROVE  Login!CleanInv'
  <2> DEFINE o == account_job[p]
             j == Job(IF o.pc = "save" THEN "saving" ELSE "saving remove", o.name, o.by, o.accounts)
  <2>1. /\ o.pc \in {"save", "save remove"} /\ config' = <<>> /\ keyring' = keyring /\ tokens' = tokens
        /\ account_mishaps' = account_mishaps
    BY <1>11, Effects, Zenon
  <2>2. Becomes(p, j)
    BY <1>11, Outcomes
  <2>3. Login!Doing \subseteq {p} /\ CleanFor(o, config, keyring, tokens) /\ Fits(<<>>, tokens)
    <3>1. o.pc # "idle"
      BY <2>1
    <3> QED
      BY <1>9, <2>1, <3>1, NoneFits
  <2>4. /\ j.pc = (IF o.pc = "save" THEN "saving" ELSE "saving remove")
        /\ j.name = o.name /\ j.accounts = o.accounts
    BY DEF Job
  <2> HIDE DEF j
  <2>5. CleanFor(j, config', keyring', tokens') /\ j.pc # "idle"
    BY <2>1, <2>3, <2>4, Phases DEF CleanFor, HoldersOf, Held
  <2> QED
    BY <2>1, <2>2, <2>3, <2>5, CleanStep
<1>12. ASSUME NEW p \in Processes, Login!Save(p)
       PROVE  Login!CleanInv'
  <2> DEFINE o == account_job[p]
             j == IF o.pc = "saving" THEN Rest ELSE Job("password", o.name, o.by, <<>>)
  <2>1. /\ o.pc \in {"saving", "saving remove"} /\ config' = o.accounts /\ keyring' = keyring /\ tokens' = tokens
        /\ account_mishaps' = account_mishaps
    BY <1>12, Effects, Zenon
  <2>2. Becomes(p, j)
    BY <1>12, Outcomes
  <2>3. Login!Doing \subseteq {p} /\ CleanFor(o, config, keyring, tokens)
    <3>1. o.pc # "idle"
      BY <2>1
    <3> QED
      BY <1>9, <2>1, <3>1
  <2>4. j.pc = (IF o.pc = "saving" THEN "idle" ELSE "password") /\ (o.pc # "saving" => j.name = o.name)
    BY RestTyped DEF Job
  <2> HIDE DEF j
  <2>5. Fits(o.accounts, tokens)
    BY <2>1, <2>3, Phases DEF CleanFor
  <2>6. CASE o.pc = "saving"
    <3>1. Held(keyring, tokens, Login!NamesIn(o.accounts))
      BY <2>3, <2>6, Phases DEF CleanFor, HoldersOf, Held
    <3> QED
      BY <2>1, <2>2, <2>3, <2>4, <2>5, <2>6, <3>1, CleanStep
  <2>7. CASE o.pc = "saving remove"
    <3>1. Held(keyring, tokens, Login!NamesIn(o.accounts) \cup {o.name})
      BY <2>3, <2>7, Phases DEF CleanFor, HoldersOf, Held
    <3>2. CleanFor(j, config', keyring', tokens') /\ j.pc # "idle"
      BY <2>1, <2>4, <2>7, <3>1, Phases DEF CleanFor, HoldersOf
    <3> QED
      BY <2>1, <2>2, <2>3, <2>5, <3>2, CleanStep
  <2> QED
    BY <2>1, <2>6, <2>7
<1>13. ASSUME NEW p \in Processes, Login!DeletePassword(p)
       PROVE  Login!CleanInv'
  <2> DEFINE o == account_job[p]
             j == Job("token", o.name, o.by, o.accounts)
  <2>1. /\ o.pc = "password" /\ keyring' = [keyring EXCEPT ![o.name] = 0]
        /\ config' = config /\ tokens' = tokens /\ account_mishaps' = account_mishaps
    BY <1>13, Effects, Zenon
  <2>2. Becomes(p, j)
    BY <1>13, Outcomes
  <2>3. o.pc \notin Login!Writing /\ o.pc \in Login!Removing /\ o.pc # "idle" /\ o.name \in AccountNames
    BY <2>1, Phases, TypedFacts
  <2>4. /\ Login!Doing \subseteq {p} /\ Fits(config, tokens)
        /\ \A n \in AccountNames : keyring[n] # 0 \/ tokens[n] # 0 => n \in HoldersOf(o, config)
    BY <1>9, <2>1, <2>3
  <2>5. Held(keyring, tokens, Login!NamesIn(config) \cup {o.name})
    BY <2>3, <2>4 DEF HoldersOf, Held
  <2>6. keyring'[o.name] = 0 /\ \A n \in AccountNames : n # o.name => keyring'[n] = keyring[n]
    BY <1>1, <2>1, <2>3
  <2>7. j.pc = "token" /\ j.name = o.name
    BY DEF Job
  <2> HIDE DEF j
  <2>8. CleanFor(j, config', keyring', tokens')
    BY <2>1, <2>5, <2>6, <2>7, Phases DEF CleanFor, HoldersOf, Held
  <2> QED
    BY <2>1, <2>2, <2>4, <2>7, <2>8, CleanStep
<1>14. ASSUME NEW p \in Processes, Login!DeleteRefreshToken(p)
       PROVE  Login!CleanInv'
  <2> DEFINE o == account_job[p]
  <2>1. /\ o.pc = "token" /\ tokens' = [tokens EXCEPT ![o.name] = 0]
        /\ config' = config /\ keyring' = keyring /\ account_mishaps' = account_mishaps
    BY <1>14, Effects, Zenon
  <2>2. Becomes(p, Rest)
    BY <1>14, Outcomes
  <2>3. o.pc \notin Login!Writing /\ o.pc \in Login!Removing /\ o.pc # "idle" /\ o.name \in AccountNames
    BY <2>1, Phases, TypedFacts
  <2>4. /\ Login!Doing \subseteq {p} /\ Fits(config, tokens) /\ CleanFor(o, config, keyring, tokens)
        /\ \A n \in AccountNames : keyring[n] # 0 \/ tokens[n] # 0 => n \in HoldersOf(o, config)
    BY <1>9, <2>1, <2>3
  <2>5. /\ \A n \in AccountNames : tokens[n] # 0 => n \in Login!NamesIn(config) \cup {o.name}
        /\ \A n \in AccountNames : keyring[n] # 0 => n \in Login!NamesIn(config)
    BY <2>1, <2>3, <2>4 DEF HoldersOf, CleanFor
  <2>6. tokens'[o.name] = 0 /\ \A n \in AccountNames : n # o.name => tokens'[n] = tokens[n]
    BY <1>1, <2>1, <2>3
  <2>7. Held(keyring', tokens', Login!NamesIn(config'))
    BY <2>1, <2>5, <2>6 DEF Held
  <2>8. Fits(config', tokens')
    BY <1>2, <2>1, <2>4, <2>6 DEF Fits
  <2> QED
    BY <2>2, <2>4, <2>7, <2>8, CleanStep, RestTyped
<1>15. ASSUME NEW p \in Processes, Login!KeyringRefuses(p) \/ Login!Killed(p)
       PROVE  Login!CleanInv'
  <2>1. account_mishaps' = account_mishaps \cup {"killed"}
    BY <1>15, Effects, Zenon
  <2> QED
    BY <2>1
<1>16. ASSUME NEW p \in Processes, NEW yes \in BOOLEAN, Login!Callback(p, yes) \/ Login!Exchange(p, yes)
       PROVE  Login!CleanInv'
  <2> DEFINE o == account_job[p]
             j == IF yes THEN Job(IF Login!Callback(p, yes) THEN "exchange" ELSE "store token",
                                  o.name, o.by, o.accounts)
                  ELSE Rest
  <2>1. /\ o.pc \in {"listen", "exchange"} /\ config' = config /\ keyring' = keyring /\ tokens' = tokens
        /\ account_mishaps' = account_mishaps
    BY <1>16, Effects, Zenon
  <2>2. Becomes(p, j)
    BY <1>16, Outcomes
  <2>3. o.pc \notin Login!Writing /\ o.pc \notin Login!Removing /\ o.pc \in Login!LoggingIn /\ o.pc # "idle"
    BY <2>1, Phases
  <2>4. /\ Login!Doing \subseteq {p} /\ Fits(config, tokens) /\ CleanFor(o, config, keyring, tokens)
        /\ \A n \in AccountNames : keyring[n] # 0 \/ tokens[n] # 0 => n \in HoldersOf(o, config)
    BY <1>9, <2>1, <2>3
  <2>5. j.pc \in {"idle", "exchange", "store token"} /\ (j.pc # "idle" => j.name = o.name /\ j.by = o.by)
    BY RestTyped DEF Job
  <2> HIDE DEF j
  <2>6. Held(keyring, tokens, Login!NamesIn(config))
    BY <2>3, <2>4 DEF HoldersOf, Held
  <2>7. j.pc # "idle" => CleanFor(j, config, keyring, tokens)
    BY <2>3, <2>4, <2>5, <2>6, Phases DEF CleanFor, HoldersOf
  <2> QED
    BY <2>1, <2>2, <2>4, <2>6, <2>7, CleanStep
<1>17. ASSUME NEW p \in Processes, Login!StoreRefreshToken(p)
       PROVE  Login!CleanInv'
  <2> DEFINE o == account_job[p]
  <2>1. /\ o.pc = "store token" /\ tokens' = [tokens EXCEPT ![o.name] = o.by]
        /\ config' = config /\ keyring' = keyring /\ account_mishaps' = account_mishaps
    BY <1>17, Effects, Zenon
  <2>2. Becomes(p, Rest)
    BY <1>17, Outcomes
  <2>3. /\ o.pc \notin Login!Writing /\ o.pc \notin Login!Removing /\ o.pc \in Login!LoggingIn /\ o.pc # "idle"
        /\ o.name \in AccountNames
    BY <2>1, Phases, TypedFacts
  <2>4. /\ Login!Doing \subseteq {p} /\ Fits(config, tokens) /\ CleanFor(o, config, keyring, tokens)
        /\ \A n \in AccountNames : keyring[n] # 0 \/ tokens[n] # 0 => n \in HoldersOf(o, config)
    BY <1>9, <2>1, <2>3
  <2>5. /\ o.name \in Login!NamesIn(config)
        /\ \A i \in 1 .. Len(config) : config[i].name = o.name => config[i].by = o.by
        /\ Held(keyring, tokens, Login!NamesIn(config))
    BY <2>3, <2>4 DEF CleanFor, HoldersOf, Held
  <2>6. tokens'[o.name] = o.by /\ \A n \in AccountNames : n # o.name => tokens'[n] = tokens[n]
    BY <1>1, <2>1, <2>3
  <2>7. Held(keyring', tokens', Login!NamesIn(config'))
    BY <2>1, <2>5, <2>6 DEF Held
  <2>8. Fits(config', tokens')
    <3>1. ASSUME NEW i \in 1 .. Len(config), config[i].auth = "oauth"
          PROVE  tokens'[config[i].name] \in {0, config[i].by}
      <4>1. CASE config[i].name = o.name
        BY <2>5, <2>6, <4>1
      <4>2. CASE config[i].name # o.name
        <5>1. tokens'[config[i].name] = tokens[config[i].name]
          BY <1>2, <2>6, <4>2
        <5> QED
          BY <2>4, <3>1, <5>1 DEF Fits
      <4> QED
        BY <4>1, <4>2
    <3> QED
      BY <2>1, <3>1 DEF Fits
  <2> QED
    BY <2>2, <2>4, <2>7, <2>8, CleanStep, RestTyped
<1>18. ASSUME NEW name \in AccountNames, Login!Logout(name)
       PROVE  Login!CleanInv'
  <2>1. /\ config' = config /\ keyring' = keyring /\ account_job' = account_job /\ account_mishaps' = account_mishaps
        /\ tokens' = [tokens EXCEPT ![name] = 0]
    BY <1>18, Zenon DEF Login!Logout
  <2>2. \A n \in AccountNames : tokens'[n] \in {0, tokens[n]}
    BY <1>1, <2>1
  <2>3. \A q \in Processes : account_job[q].accounts \in Lists
    BY TypedFacts
  <2>4. \A s \in Lists : Fits(s, tokens) => Fits(s, tokens')
    <3>1. \A s \in Lists : \A i \in 1 .. Len(s) : s[i].name \in AccountNames
      BY ListFacts
    <3> QED
      BY <2>2, <3>1 DEF Fits
  <2>5. \A names : Held(keyring, tokens, names) => Held(keyring', tokens', names)
    BY <2>1, <2>2 DEF Held
  <2>6. Fits(config, tokens') /\ (Login!Doing = {} => Held(keyring', tokens', Login!NamesIn(config)))
    BY <1>1, <2>1, <2>4, <2>5, CleanFacts
  <2>7. \A q \in Login!Doing : CleanFor(account_job[q], config, keyring', tokens')
    <3>1. \A q \in Login!Doing : CleanFor(account_job[q], config, keyring, tokens) /\ account_job[q].accounts \in Lists
      BY <2>1, <2>3, CleanFacts DEF Login!Doing
    <3> QED
      BY <2>1, <2>4, <2>5, <3>1 DEF CleanFor
  <2>8. Login!Doing' = Login!Doing
    BY <2>1 DEF Login!Doing
  <2>9. \A q \in Login!Doing' : CleanFor(account_job'[q], config', keyring', tokens')
    BY <2>1, <2>7, <2>8
  <2>10. Fits(config', tokens') /\ (Login!Doing' = {} => Held(keyring', tokens', Login!NamesIn(config')))
    BY <2>1, <2>6, <2>8
  <2> QED
    BY <2>9, <2>10 DEF Login!CleanInv, Fits, Login!Fitting, Held, Login!Holders, HoldersOf, CleanFor
<1>19. CASE Login!vars' = Login!vars
  <2>1. /\ config' = config /\ keyring' = keyring /\ account_job' = account_job
        /\ account_mishaps' = account_mishaps /\ tokens' = tokens
    BY <1>19, Zenon DEF Login!vars
  <2> QED
    BY <2>1 DEF Login!CleanInv, Login!Doing, Login!Fitting, Login!Holders
<1> QED
  BY <1>4, <1>5, <1>6, <1>7, <1>8, <1>10, <1>11, <1>12, <1>13, <1>14, <1>15, <1>16, <1>17, <1>18, <1>19
     DEF Login!Next, Login!Step

-----------------------------------------------------------------------------
(* Accounts: the theorem *)

AccountsInv == Login!TypeOK /\ Login!KeyedInv /\ Login!OwnInv /\ Login!CleanInv

LEMMA AccountsStart ==
    ASSUME Login!Init
    PROVE  AccountsInv
<1>1. /\ config = <<>> /\ keyring = [n \in AccountNames |-> 0] /\ tokens = [n \in AccountNames |-> 0]
      /\ account_job = [p \in Processes |-> Rest] /\ added = 0 /\ account_mishaps = {} /\ account_faults = 0
  BY DEF Login!Init, Login!Idle, Rest, Job
<1>2. <<>> \in Lists /\ 1 .. Len(<<>>) = {}
  BY DEF Lists
<1>3. \A p \in Processes : account_job[p] = Rest
  BY <1>1
<1>4. Login!TypeOK
  <2>1. account_job \in [Processes -> Login!Jobs]
    BY <1>1, RestTyped DEF Typed
  <2>2. \A p \in Processes : Typed(account_job[p])
    BY <1>3, RestTyped
  <2>3. config \in Lists /\ keyring \in [AccountNames -> Nat] /\ tokens \in [AccountNames -> Nat]
    BY <1>1, <1>2
  <2> QED
    BY <1>1, <2>1, <2>2, <2>3 DEF Login!TypeOK, Typed, Lists
<1>5. Login!Doing = {}
  BY <1>3, RestTyped DEF Login!Doing
<1>6. Keyed(config, keyring) /\ Own(config, keyring) /\ Login!Twinless(config) /\ Fits(config, tokens)
  BY <1>1, NoneKeyed, NoneOwn, NoneFits
<1>7. Held(keyring, tokens, Login!NamesIn(config))
  BY <1>1 DEF Held
<1>8. \A p \in Processes : account_job[p].pc = "idle"
  BY <1>3, RestTyped
<1>9. Login!KeyedInv
  BY <1>6, <1>8, Phases DEF Login!KeyedInv, Keyed
<1>10. Login!OwnInv
  BY <1>5, <1>6, <1>8, Phases DEF Login!OwnInv, Own
<1>11. Login!CleanInv
  BY <1>5, <1>6, <1>7 DEF Login!CleanInv, Login!Fitting, Fits, Held
<1> QED
  BY <1>4, <1>9, <1>10, <1>11 DEF AccountsInv

LEMMA AccountsKept ==
    ASSUME AccountsInv, [CommandsNext]_allVars
    PROVE  AccountsInv'
<1>1. [Login!Next]_(Login!vars)
  BY DEF CommandsNext, allVars, loginVars, Login!vars
<1> QED
  BY <1>1, TypesKept, KeyedKept, OwnKept, CleanKept DEF AccountsInv

\* Whatever commands and logins run, overlap and die: an account with a password
\* finds one unless another command ran during a removal; it finds its own while
\* commands run one at a time and the wizard reuses no name; and while they also
\* run to their end no secret outlives its account.
THEOREM SecretsStayWithAccounts == CommandsSpec => []SecretsFollowAccounts
<1>1. CommandsInit => AccountsInv
  BY AccountsStart DEF CommandsInit
<1>2. AccountsInv /\ [CommandsNext]_allVars => AccountsInv'
  BY AccountsKept
<1>3. AccountsInv => SecretsFollowAccounts
  <2> SUFFICES ASSUME AccountsInv PROVE Login!AccountsHaveTheirSecrets /\ Login!RemovedLeavesNothing
    BY DEF SecretsFollowAccounts
  <2>1. "removal overlaps" \notin account_mishaps => Keyed(config, keyring)
    BY KeyedFacts DEF AccountsInv
  <2>2. Orderly(account_mishaps) => Own(config, keyring)
    BY OwnFacts DEF AccountsInv
  <2>3. account_mishaps = {} =>
           Fits(config, tokens) /\ (Login!Doing = {} => Held(keyring, tokens, Login!NamesIn(config)))
    BY CleanFacts DEF AccountsInv
  <2>4. Login!AccountsHaveTheirSecrets
    BY <2>1, <2>2, <2>3 DEF Login!AccountsHaveTheirSecrets, Keyed, Orderly, Own, Fits
  <2>5. Login!RemovedLeavesNothing
    BY <2>3 DEF Login!RemovedLeavesNothing, Login!Doing, Held
  <2> QED
    BY <2>4, <2>5
<1> QED
  BY <1>1, <1>2, <1>3, PTL DEF CommandsSpec
-----------------------------------------------------------------------------
(* Contacts *)

IsRow(row) == /\ row \in [name : {row.name}, count : {-1} \cup Nat, key : {row.key}]
              /\ row = Book!NoRow \/ row.count \in Nat

\* A row that has lost nothing row had.
Keeps(row, y) ==
    /\ y # Book!NoRow /\ y.count >= row.count
    /\ row.name # Book!None => y.name # Book!None
    /\ row.key # Book!None => y.key # Book!None

RowsOK == rows = [a \in Addresses |-> rows[a]] /\ \A a \in Addresses : IsRow(rows[a])

\* What the statements on the table make of a row.
LEMMA RowMade ==
    ASSUME NEW name, NEW count \in Nat, NEW key, NEW y, y = [name |-> name, count |-> count, key |-> key]
    PROVE  IsRow(y) /\ y # Book!NoRow
<1>1. y \in [name : {name}, count : {count}, key : {key}]
  OBVIOUS
<1>2. y.name = name /\ y.count = count /\ y.key = key
  BY <1>1
<1> QED
  BY <1>1, <1>2 DEF IsRow, Book!NoRow

LEMMA RowChanged ==
    ASSUME NEW row, IsRow(row), row # Book!NoRow, NEW y, NEW name, NEW count \in Nat, NEW key,
           y \in [name : {name}, count : {count}, key : {key}], count >= row.count,
           name = row.name \/ name # Book!None, key = row.key \/ key # Book!None
    PROVE  IsRow(y) /\ Keeps(row, y)
<1>1. y.name = name /\ y.count = count /\ y.key = key
  OBVIOUS
<1>2. y # Book!NoRow
  BY <1>1 DEF Book!NoRow
<1> QED
  BY <1>1, <1>2 DEF IsRow, Keeps

LEMMA StatementsKeep ==
    ASSUME NEW row, IsRow(row)
    PROVE  /\ \A name : IsRow(Book!Upserted(row, name)) /\ (row # Book!NoRow => Keeps(row, Book!Upserted(row, name)))
           /\ \A name : IsRow(Book!Bumped(row, name)) /\ (row # Book!NoRow => Keeps(row, Book!Bumped(row, name)))
           /\ \A key \in Keys : IsRow(Book!Keyed(row, key)) /\ (row # Book!NoRow => Keeps(row, Book!Keyed(row, key)))
<1>1. CASE row = Book!NoRow
  <2>1. \A name : IsRow(Book!Upserted(row, name))
    BY <1>1, RowMade DEF Book!Upserted
  <2>2. \A name : IsRow(Book!Bumped(row, name))
    BY <1>1, RowMade DEF Book!Bumped
  <2>3. \A key : IsRow(Book!Keyed(row, key))
    BY <1>1, RowMade DEF Book!Keyed
  <2> QED
    BY <1>1, <2>1, <2>2, <2>3
<1>2. CASE row # Book!NoRow
  <2>1. /\ row \in [name : {row.name}, count : {row.count}, key : {row.key}] /\ row.count \in Nat
        /\ row.count + 1 \in Nat /\ row.count >= row.count /\ row.count + 1 >= row.count
    <3>1. row.count \in Nat
      BY <1>2 DEF IsRow
    <3> QED
      BY <3>1 DEF IsRow
  <2>2. ASSUME NEW name
        PROVE  IsRow(Book!Upserted(row, name)) /\ Keeps(row, Book!Upserted(row, name))
    <3> DEFINE given == Book!Coalesce(name, row.name)
               y == Book!Upserted(row, name)
    <3>1. given = row.name \/ given # Book!None
      BY DEF Book!Coalesce
    <3>2. y = [row EXCEPT !.name = given]
      BY <1>2 DEF Book!Upserted
    <3> HIDE DEF given, y
    <3>3. y \in [name : {given}, count : {row.count}, key : {row.key}]
      BY <2>1, <3>2
    <3>4. IsRow(y) /\ Keeps(row, y)
      BY <1>2, <2>1, <3>1, <3>3, RowChanged
    <3> QED
      BY <3>4 DEF y
  <2>3. ASSUME NEW name
        PROVE  IsRow(Book!Bumped(row, name)) /\ Keeps(row, Book!Bumped(row, name))
    <3> DEFINE given == Book!Coalesce(name, row.name)
               y == Book!Bumped(row, name)
               more == row.count + 1
    <3>1. given = row.name \/ given # Book!None
      BY DEF Book!Coalesce
    <3>2. y = [row EXCEPT !.name = given, !.count = more]
      BY <1>2 DEF Book!Bumped
    <3>3. more \in Nat /\ more >= row.count
      BY <2>1
    <3> HIDE DEF given, y, more
    <3>4. y \in [name : {given}, count : {more}, key : {row.key}]
      BY <2>1, <3>2
    <3>5. IsRow(y) /\ Keeps(row, y)
      BY <1>2, <3>1, <3>3, <3>4, RowChanged
    <3> QED
      BY <3>5 DEF y
  <2>4. ASSUME NEW key \in Keys
        PROVE  IsRow(Book!Keyed(row, key)) /\ Keeps(row, Book!Keyed(row, key))
    <3> DEFINE y == Book!Keyed(row, key)
    <3>1. y = [row EXCEPT !.key = key]
      BY <1>2 DEF Book!Keyed
    <3> HIDE DEF y
    <3>2. y \in [name : {row.name}, count : {row.count}, key : {key}]
      BY <2>1, <3>1
    <3>3. key # Book!None
      BY KeysAssumption
    <3>4. IsRow(y) /\ Keeps(row, y)
      BY <1>2, <2>1, <3>2, <3>3, RowChanged
    <3> QED
      BY <3>4 DEF y
  <2> QED
    BY <1>2, <2>2, <2>3, <2>4
<1> QED
  BY <1>1, <1>2

\* No step but `contacts remove` takes anything from a row.
LEMMA RowsStep ==
    ASSUME RowsOK, [Book!Next]_(Book!vars)
    PROVE  /\ RowsOK'
           /\ \A a \in Addresses : Book!Present(a) => Book!Delete(a) \/ Keeps(rows[a], rows'[a])
<1>1. ASSUME NEW b, NEW y, rows' = [rows EXCEPT ![b] = y], b \in Addresses => IsRow(y)
      PROVE  RowsOK' /\ \A a \in Addresses : rows'[a] = IF a = b THEN y ELSE rows[a]
  <2>1. \A a \in Addresses : rows'[a] = IF a = b THEN y ELSE rows[a]
    BY <1>1 DEF RowsOK
  <2>2. rows' = [a \in Addresses |-> rows'[a]]
    BY <1>1, <2>1 DEF RowsOK
  <2> QED
    BY <1>1, <2>1, <2>2 DEF RowsOK
<1>2. \A a \in Addresses : Book!Present(a) => Keeps(rows[a], rows[a])
  <2> SUFFICES ASSUME NEW a \in Addresses, rows[a] # Book!NoRow PROVE Keeps(rows[a], rows[a])
    BY DEF Book!Present
  <2>1. rows[a].count \in Nat
    BY DEF RowsOK, IsRow
  <2> QED
    BY <2>1 DEF Keeps
\* A statement that keeps what it meets.
<1>3. ASSUME NEW b, NEW y, rows' = [rows EXCEPT ![b] = y],
             b \in Addresses => IsRow(y) /\ (rows[b] # Book!NoRow => Keeps(rows[b], y))
      PROVE  RowsOK' /\ \A a \in Addresses : Book!Present(a) => Keeps(rows[a], rows'[a])
  <2>1. RowsOK' /\ \A a \in Addresses : rows'[a] = IF a = b THEN y ELSE rows[a]
    BY <1>1, <1>3
  <2> QED
    BY <1>2, <1>3, <2>1 DEF Book!Present
<1>4. \A b \in Addresses : IsRow(rows[b])
  BY DEF RowsOK
<1>5. ASSUME NEW b, NEW name, Book!Upsert(b, name)
      PROVE  RowsOK' /\ \A a \in Addresses : Book!Present(a) => Keeps(rows[a], rows'[a])
  <2>1. rows' = [rows EXCEPT ![b] = Book!Upserted(rows[b], name)]
    BY <1>5 DEF Book!Upsert
  <2>2. b \in Addresses => /\ IsRow(Book!Upserted(rows[b], name))
                           /\ rows[b] # Book!NoRow => Keeps(rows[b], Book!Upserted(rows[b], name))
    BY <1>4, StatementsKeep
  <2> QED
    BY <1>3, <2>1, <2>2
<1>6. ASSUME Book!Bump
      PROVE  RowsOK' /\ \A a \in Addresses : Book!Present(a) => Keeps(rows[a], rows'[a])
  <2> DEFINE b == Head(harvesting).address
             name == Head(harvesting).name
  <2>1. rows' = [rows EXCEPT ![b] = Book!Bumped(rows[b], name)]
    BY <1>6 DEF Book!Bump
  <2>2. b \in Addresses => /\ IsRow(Book!Bumped(rows[b], name))
                           /\ rows[b] # Book!NoRow => Keeps(rows[b], Book!Bumped(rows[b], name))
    BY <1>4, StatementsKeep
  <2> HIDE DEF b, name
  <2> QED
    BY <1>3, <2>1, <2>2
<1>7. ASSUME NEW b \in Addresses, NEW key \in Keys, Book!Autocrypt(b, key)
      PROVE  RowsOK' /\ \A a \in Addresses : Book!Present(a) => Keeps(rows[a], rows'[a])
  <2>1. rows' = [rows EXCEPT ![b] = Book!Keyed(rows[b], key)]
    BY <1>7 DEF Book!Autocrypt
  <2>2. /\ IsRow(Book!Keyed(rows[b], key))
        /\ rows[b] # Book!NoRow => Keeps(rows[b], Book!Keyed(rows[b], key))
    BY <1>4, StatementsKeep
  <2> QED
    BY <1>3, <2>1, <2>2
<1>8. ASSUME NEW b \in Addresses, Book!Delete(b)
      PROVE  RowsOK' /\ \A a \in Addresses : Book!Present(a) => Book!Delete(a) \/ Keeps(rows[a], rows'[a])
  <2>1. rows' = [rows EXCEPT ![b] = Book!NoRow]
    BY <1>8 DEF Book!Delete
  <2>2. IsRow(Book!NoRow)
    BY DEF IsRow, Book!NoRow
  <2>3. RowsOK' /\ \A a \in Addresses : rows'[a] = IF a = b THEN Book!NoRow ELSE rows[a]
    BY <1>1, <2>1, <2>2
  <2> QED
    BY <1>2, <1>8, <2>3
<1>9. CASE rows' = rows
  BY <1>2, <1>9 DEF RowsOK
<1>10. \A a \in Addresses : /\ \A name : Book!Add(a, name) => Book!Upsert(a, name)
                            /\ Book!CliPush(a) => rows' = rows
  BY DEF Book!Add, Book!CliPush
<1>11. \A push : Book!Push(push) \/ Book!PushFails(push) \/ Book!Exit(push) => rows' = rows
  BY DEF Book!Push, Book!PushFails, Book!Exit
<1>12. /\ Book!Pull => rows' = rows
       /\ Book!PullCard => Book!Upsert(Head(pulling).address, Head(pulling).name)
       /\ Book!vars' = Book!vars => rows' = rows
  BY DEF Book!Pull, Book!PullCard, Book!vars
<1>13. /\ \A m : Book!Harvest(m) => rows' = rows
       /\ \A u, card : Book!RemoteCard(u, card) => rows' = rows
  BY DEF Book!Harvest, Book!RemoteCard
<1> QED
  BY <1>5, <1>6, <1>7, <1>8, <1>9, <1>10, <1>11, <1>12, <1>13 DEF Book!Next

\* Whatever runs beside it -- a pull, a harvest, the keys the sync loop meets --
\* only `contacts remove` makes a contact, its name or its key unknown, or its
\* count smaller.
THEOREM OnlyRemovalForgets == CommandsSpec => OnlyRemoveForgets
<1>1. CommandsInit => RowsOK
  <2> SUFFICES ASSUME CommandsInit PROVE RowsOK
    OBVIOUS
  <2>1. rows = [a \in Addresses |-> Book!NoRow]
    BY DEF CommandsInit, Book!Init
  <2>2. IsRow(Book!NoRow)
    BY DEF IsRow, Book!NoRow
  <2> QED
    BY <2>1, <2>2 DEF RowsOK
<1>2. [CommandsNext]_allVars => [Book!Next]_(Book!vars)
  BY DEF CommandsNext, allVars, bookVars, Book!vars
<1>3. RowsOK /\ [CommandsNext]_allVars => RowsOK'
  BY <1>2, RowsStep
<1>4. RowsOK /\ [CommandsNext]_allVars =>
        [\A a \in Addresses : Book!Present(a) =>
           \/ Book!Delete(a)
           \/ /\ rows'[a] # Book!NoRow
              /\ rows'[a].count >= rows[a].count
              /\ rows[a].name # Book!None => rows'[a].name # Book!None
              /\ rows[a].key # Book!None => rows'[a].key # Book!None]_(Book!vars)
  BY <1>2, RowsStep DEF Keeps
<1> QED
  BY <1>1, <1>3, <1>4, PTL DEF CommandsSpec, OnlyRemoveForgets, Book!OnlyRemoveForgets

-----------------------------------------------------------------------------
(* Calendars: what a step does to the mirror and to one command.  The parts of *)
(* the invariant are stated of any state, to compare a state with the next.    *)

Outdated(e, etag, srv, iss) == etag \in 1 .. iss[e] /\ srv[e] # etag

KnownIn(e, etag, srv, iss, sn) == etag \in {0, Blank} \/ etag \in sn[e] \/ Outdated(e, etag, srv, iss)

Mirror(srv, iss, ind, sn) ==
    /\ srv \in [Resources -> Nat] /\ iss \in [Resources -> Nat]
    /\ \A e \in Resources : srv[e] <= iss[e]
    /\ ind \in [Resources -> Etags]
    /\ DOMAIN sn = Events
    /\ \A e \in Events : KnownIn(e, ind[e], srv, iss, sn)

FitsIn(j, srv, iss, sn) ==
    /\ \A e \in Events : KnownIn(e, j.mine[e], srv, iss, sn)
    /\ j.pc \in {"put", "delete"} /\ j.of \in Events => KnownIn(j.of, j.if_match, srv, iss, sn)
    /\ j.pc \in {"remove", "multiget", "write"} => \A e \in Events : j.etags[e] \in 0 .. iss[e]
    /\ j.pc = "write" => \A e \in j.changed \cap Events :
          j.got[e] # 0 /\ (j.etags[e] \in {0, j.got[e]} \/ Outdated(e, j.etags[e], srv, iss))
    /\ j.pc = "store" => j.got[j.of] # 0 /\ j.etags[j.of] \in {j.got[j.of], Blank}

CalendarOK ==
    /\ Mirror(server, issued, index, seen)
    /\ DOMAIN job = Processes
    /\ \A p \in Processes : JobTypes(job[p]) /\ FitsIn(job[p], server, issued, seen)

LEMMA CalendarOKIsTheInvariant == CalendarOK <=> CalendarTypes /\ EtagsInv
BY DEF CalendarOK, CalendarTypes, EtagsInv, Mirror, FitsIn, KnownIn, Outdated, Known, Superseded

\* The server issues new versions or forgets, and the files see more and more.
Later(srv, iss, sn, srv2, iss2, sn2) ==
    \A e \in Events : /\ srv2[e] \in {0, srv[e]} \/ srv2[e] > iss[e]
                      /\ iss[e] <= iss2[e]
                      /\ sn[e] \subseteq sn2[e]

LEMMA LaterKnown ==
    ASSUME NEW srv \in [Resources -> Nat], NEW iss \in [Resources -> Nat], NEW sn,
           NEW srv2 \in [Resources -> Nat], NEW iss2 \in [Resources -> Nat], NEW sn2,
           Later(srv, iss, sn, srv2, iss2, sn2), NEW e \in Events, NEW etag
    PROVE  /\ Outdated(e, etag, srv, iss) => Outdated(e, etag, srv2, iss2)
           /\ KnownIn(e, etag, srv, iss, sn) => KnownIn(e, etag, srv2, iss2, sn2)
<1>1. e \in Resources /\ srv[e] \in Nat /\ iss[e] \in Nat /\ srv2[e] \in Nat /\ iss2[e] \in Nat
  BY DEF Resources
<1>2. Outdated(e, etag, srv, iss) => Outdated(e, etag, srv2, iss2)
  BY <1>1 DEF Outdated, Later
<1> QED
  BY <1>2 DEF KnownIn, Later

\* What a command holds stays known, whatever the others do.
LEMMA LaterFits ==
    ASSUME NEW srv \in [Resources -> Nat], NEW iss \in [Resources -> Nat], NEW sn,
           NEW srv2 \in [Resources -> Nat], NEW iss2 \in [Resources -> Nat], NEW sn2,
           Later(srv, iss, sn, srv2, iss2, sn2), NEW j, FitsIn(j, srv, iss, sn)
    PROVE  FitsIn(j, srv2, iss2, sn2)
<1>1. \A e \in Events : \A etag :
        /\ Outdated(e, etag, srv, iss) => Outdated(e, etag, srv2, iss2)
        /\ KnownIn(e, etag, srv, iss, sn) => KnownIn(e, etag, srv2, iss2, sn2)
  BY LaterKnown
<1>2. \A e \in Events : j.etags[e] \in 0 .. iss[e] => j.etags[e] \in 0 .. iss2[e]
  <2> SUFFICES ASSUME NEW e \in Events, j.etags[e] \in 0 .. iss[e] PROVE j.etags[e] \in 0 .. iss2[e]
    OBVIOUS
  <2>1. e \in Resources /\ iss[e] \in Nat /\ iss2[e] \in Nat /\ iss[e] <= iss2[e]
    BY DEF Later, Resources
  <2> QED
    BY <2>1
<1> QED
  BY <1>1, <1>2 DEF FitsIn

\* A step of one command, or of nobody's, is looked at for what it does itself.
LEMMA CommandStep ==
    ASSUME CalendarOK, NEW p \in Processes, NEW y, job' = [job EXCEPT ![p] = y],
           Mirror(server', issued', index', seen'),
           Later(server, issued, seen, server', issued', seen'),
           JobTypes(y), FitsIn(y, server', issued', seen')
    PROVE  CalendarOK'
<1>1. DOMAIN job' = Processes /\ \A q \in Processes : job'[q] = IF q = p THEN y ELSE job[q]
  BY DEF CalendarOK
<1>2. \A q \in Processes : FitsIn(job[q], server', issued', seen')
  BY LaterFits DEF CalendarOK, Mirror
<1>3. \A q \in Processes : JobTypes(job'[q]) /\ FitsIn(job'[q], server', issued', seen')
  BY <1>1, <1>2 DEF CalendarOK
<1> QED
  BY <1>1, <1>3 DEF CalendarOK

LEMMA OthersStep ==
    ASSUME CalendarOK, job' = job, Mirror(server', issued', index', seen'),
           Later(server, issued, seen, server', issued', seen')
    PROVE  CalendarOK'
<1>1. \A q \in Processes : FitsIn(job[q], server', issued', seen')
  BY LaterFits DEF CalendarOK, Mirror
<1> QED
  BY <1>1 DEF CalendarOK

\* Steps that leave server, index and files alone.
LEMMA QuietStep ==
    ASSUME CalendarOK, NEW p \in Processes, NEW y, job' = [job EXCEPT ![p] = y],
           server' = server, issued' = issued, index' = index, seen' = seen,
           JobTypes(y), FitsIn(y, server, issued, seen)
    PROVE  CalendarOK'
<1>1. Later(server, issued, seen, server', issued', seen')
  <2>1. \A e \in Events : e \in Resources /\ issued[e] \in Nat
    BY DEF Resources, CalendarOK, Mirror
  <2> QED
    BY <2>1 DEF Later
<1>2. Mirror(server', issued', index', seen')
  BY DEF CalendarOK
<1> QED
  BY <1>1, <1>2, CommandStep

-----------------------------------------------------------------------------
(* Calendars: the record of a command *)

Is(y, pc, of, if_match, etags, changed, got, mine) ==
    y \in [pc : {pc}, of : {of}, if_match : {if_match}, etags : {etags},
           changed : {changed}, got : {got}, mine : {mine}]

TypedParts(if_match, etags, changed, got, mine) ==
    /\ if_match \in Etags /\ etags \in [Resources -> Etags] /\ changed \in SUBSET Resources
    /\ got \in [Resources -> Nat] /\ mine \in [Resources -> Etags]

LEMMA IsFields ==
    ASSUME NEW y, NEW pc, NEW of, NEW if_match, NEW etags, NEW changed, NEW got, NEW mine,
           Is(y, pc, of, if_match, etags, changed, got, mine)
    PROVE  /\ y.pc = pc /\ y.of = of /\ y.if_match = if_match /\ y.etags = etags
           /\ y.changed = changed /\ y.got = got /\ y.mine = mine
BY DEF Is

LEMMA IsTyped ==
    ASSUME NEW y, NEW pc, NEW of, NEW if_match, NEW etags, NEW changed, NEW got, NEW mine,
           Is(y, pc, of, if_match, etags, changed, got, mine),
           TypedParts(if_match, etags, changed, got, mine),
           pc \in {"put", "store"} => of \in Events,
           pc \in {"delete", "delete by force", "forget"} => of \in Resources
    PROVE  JobTypes(y)
<1>1. /\ y.pc = pc /\ y.of = of /\ y.if_match = if_match /\ y.etags = etags
      /\ y.changed = changed /\ y.got = got /\ y.mine = mine
  BY IsFields
<1>2. y \in [pc : {y.pc}, of : {y.of}, if_match : Etags, etags : [Resources -> Etags],
             changed : SUBSET Resources, got : [Resources -> Nat], mine : [Resources -> Etags]]
  BY <1>1 DEF Is, TypedParts
<1> QED
  BY <1>1, <1>2 DEF JobTypes

LEMMA JobIs ==
    ASSUME NEW j, JobTypes(j)
    PROVE  /\ Is(j, j.pc, j.of, j.if_match, j.etags, j.changed, j.got, j.mine)
           /\ TypedParts(j.if_match, j.etags, j.changed, j.got, j.mine)
BY DEF JobTypes, Is, TypedParts

LEMMA NothingTyped == Nothing \in [Resources -> Nat] /\ Nothing \in [Resources -> Etags]
                      /\ \A e \in Resources : Nothing[e] = 0
BY DEF Nothing, Etags

LEMMA IdleIs == Is(Idle, "idle", Stray, 0, Nothing, {}, Nothing, Nothing)
                /\ TypedParts(0, Nothing, {}, Nothing, Nothing)
<1>1. Is(Idle, "idle", Stray, 0, Nothing, {}, Nothing, Nothing)
  BY DEF Idle, Is
<1> QED
  BY <1>1, NothingTyped DEF TypedParts, Etags

LEMMA SavingIs ==
    ASSUME NEW mine PROVE Is(Saving(mine), "save", Stray, 0, Nothing, {}, Nothing, mine)
<1> DEFINE y == Saving(mine)
<1>1. y = [Idle EXCEPT !.pc = "save", !.mine = mine]
  BY DEF Saving
<1> HIDE DEF y
<1>2. Is(y, "save", Stray, 0, Nothing, {}, Nothing, mine)
  BY <1>1, IdleIs DEF Is
<1> QED
  BY <1>2 DEF y

LEMMA IdleOK ==
    ASSUME NEW srv, NEW iss, NEW sn PROVE JobTypes(Idle) /\ FitsIn(Idle, srv, iss, sn)
<1>1. JobTypes(Idle)
  BY IdleIs, IsTyped
<1>2. Idle.pc = "idle" /\ Idle.mine = Nothing
  BY IdleIs, IsFields
<1>3. \A e \in Events : KnownIn(e, Idle.mine[e], srv, iss, sn)
  BY <1>2, NothingTyped DEF KnownIn, Resources
<1> QED
  BY <1>1, <1>2, <1>3 DEF FitsIn

LEMMA SavingOK ==
    ASSUME NEW mine \in [Resources -> Etags], NEW srv, NEW iss, NEW sn,
           \A e \in Events : KnownIn(e, mine[e], srv, iss, sn)
    PROVE  JobTypes(Saving(mine)) /\ FitsIn(Saving(mine), srv, iss, sn)
<1> DEFINE y == Saving(mine)
<1>1. Is(y, "save", Stray, 0, Nothing, {}, Nothing, mine)
  BY SavingIs
<1>2. TypedParts(0, Nothing, {}, Nothing, mine)
  BY IdleIs DEF TypedParts
<1> HIDE DEF y
<1>3. JobTypes(y)
  BY <1>1, <1>2, IsTyped
<1>4. y.pc = "save" /\ y.mine = mine
  BY <1>1, IsFields
<1>5. FitsIn(y, srv, iss, sn)
  BY <1>4 DEF FitsIn
<1> QED
  BY <1>3, <1>5 DEF y

-----------------------------------------------------------------------------
(* Calendars: the steps *)

\* A command that has no event to name.
LEMMA IsPlain ==
    ASSUME NEW y, NEW pc, NEW of, NEW if_match, NEW etags, NEW changed, NEW got, NEW mine,
           Is(y, pc, of, if_match, etags, changed, got, mine),
           TypedParts(if_match, etags, changed, got, mine),
           pc \notin {"put", "store", "delete", "delete by force", "forget"}
    PROVE  JobTypes(y)
BY IsTyped

\* Where the invariant is used: the types of one job, of one resource.
LEMMA CalendarFacts ==
    ASSUME CalendarOK
    PROVE  /\ server \in [Resources -> Nat] /\ issued \in [Resources -> Nat] /\ index \in [Resources -> Etags]
           /\ \A e \in Resources : server[e] <= issued[e]
           /\ \A e \in Events : e \in Resources /\ e # Stray
           /\ \A e \in Events : KnownIn(e, index[e], server, issued, seen)
           /\ DOMAIN seen = Events
BY CalendarAssumption DEF CalendarOK, Mirror, Resources

\* A command that ends, or only has its index left to save.
LEMMA EndStep ==
    ASSUME CalendarOK, NEW p \in Processes, job' = [job EXCEPT ![p] = Idle],
           Mirror(server', issued', index', seen'),
           Later(server, issued, seen, server', issued', seen')
    PROVE  CalendarOK'
BY CommandStep, IdleOK

LEMMA SavingStep ==
    ASSUME CalendarOK, NEW p \in Processes, NEW mine \in [Resources -> Etags],
           job' = [job EXCEPT ![p] = Saving(mine)],
           Mirror(server', issued', index', seen'),
           Later(server, issued, seen, server', issued', seen'),
           \A e \in Events : KnownIn(e, mine[e], server', issued', seen')
    PROVE  CalendarOK'
BY CommandStep, SavingOK

\* Nothing but the file of the events named changes.
LEMMA FilesStep ==
    ASSUME CalendarOK, NEW events, NEW versions, WriteTo(events, versions),
           server' = server, issued' = issued, index' = index
    PROVE  /\ Mirror(server', issued', index', seen')
           /\ Later(server, issued, seen, server', issued', seen')
           /\ \A e \in events \cap Events : versions[e] # 0 => versions[e] \in seen'[e]
           /\ \A e \in Events, etag \in Etags :
                 KnownIn(e, etag, server, issued, seen) => KnownIn(e, etag, server', issued', seen')
<1>1. DOMAIN seen' = Events
  BY DEF WriteTo
<1>2. \A e \in Events : seen'[e] = IF e \in events THEN seen[e] \cup ({versions[e]} \ {0}) ELSE seen[e]
  BY DEF WriteTo
<1>3. \A e \in Events : seen[e] \subseteq seen'[e]
  BY <1>2
<1>4. \A e \in Events : issued[e] \in Nat
  BY CalendarFacts
<1>5. Later(server, issued, seen, server', issued', seen')
  BY <1>3, <1>4 DEF Later
<1>6. \A e \in Events : \A etag :
        KnownIn(e, etag, server, issued, seen) => KnownIn(e, etag, server', issued', seen')
  <2> SUFFICES ASSUME NEW e \in Events, NEW etag
               PROVE  KnownIn(e, etag, server, issued, seen) => KnownIn(e, etag, server', issued', seen')
    OBVIOUS
  <2> QED
    BY <1>5, CalendarFacts, LaterKnown
<1>7. Mirror(server', issued', index', seen')
  BY <1>1, <1>6, CalendarFacts DEF Mirror
<1> QED
  BY <1>2, <1>5, <1>6, <1>7

LEMMA SameServer ==
    ASSUME CalendarOK, server' = server, issued' = issued, seen' = seen,
           index' = index
    PROVE  /\ Mirror(server', issued', index', seen')
           /\ Later(server, issued, seen, server', issued', seen')
<1>1. \A e \in Events : issued[e] \in Nat
  BY CalendarFacts
<1> QED
  BY <1>1 DEF CalendarOK, Later

\* Starting: what the command reads of the index is known.
LEMMA StartStep ==
    ASSUME CalendarOK, NEW p \in Processes, NEW y, Begin(p, y),
           server' = server, issued' = issued, index' = index, seen' = seen,
           NEW pc, NEW of, NEW if_match, NEW mine \in {index, Nothing},
           Is(y, pc, of, if_match, Nothing, {}, Nothing, mine),
           if_match \in Etags,
           pc \in {"put", "store"} => of \in Events,
           pc \in {"delete", "delete by force", "forget"} => of \in Resources,
           pc \notin {"remove", "multiget", "write", "store"},
           pc \in {"put", "delete"} /\ of \in Events => if_match = index[of]
    PROVE  CalendarOK'
<1>1. TypedParts(if_match, Nothing, {}, Nothing, mine)
  BY IdleIs, CalendarFacts DEF TypedParts
<1>2. JobTypes(y)
  BY <1>1, IsTyped
<1>3. y.pc = pc /\ y.of = of /\ y.if_match = if_match /\ y.mine = mine
  BY IsFields
<1>4. \A e \in Events : KnownIn(e, mine[e], server, issued, seen)
  BY NothingTyped, CalendarFacts DEF KnownIn
<1>5. pc \in {"put", "delete"} /\ of \in Events => KnownIn(of, if_match, server, issued, seen)
  BY CalendarFacts
<1>6. FitsIn(y, server, issued, seen)
  BY <1>3, <1>4, <1>5 DEF FitsIn
<1> QED
  BY <1>2, <1>6, QuietStep DEF Begin

LEMMA StartPullStep ==
    ASSUME CalendarOK, NEW p \in Processes, NEW discover, StartPull(p, discover) PROVE CalendarOK'
<1> DEFINE from == Target(discover)
           y == [Idle EXCEPT !.pc = "list", !.of = from, !.mine = index]
<1>1. Begin(p, y) /\ server' = server /\ issued' = issued /\ index' = index /\ seen' = seen
  BY DEF StartPull
<1>2. y = [Idle EXCEPT !.pc = "list", !.of = from, !.mine = index]
  OBVIOUS
<1> HIDE DEF y, from
<1>3. Is(y, "list", from, 0, Nothing, {}, Nothing, index)
  BY <1>2, IdleIs DEF Is
<1> QED
  BY <1>1, <1>3, StartStep DEF Etags

LEMMA StartPutStep ==
    ASSUME CalendarOK, NEW p \in Processes, NEW e \in Resources, StartPut(p, e) PROVE CalendarOK'
<1> DEFINE y == [Idle EXCEPT !.pc = "put", !.of = e, !.if_match = index[e], !.mine = index]
<1>1. Begin(p, y) /\ server' = server /\ issued' = issued /\ index' = index /\ seen' = seen
  BY DEF StartPut
<1>2. y = [Idle EXCEPT !.pc = "put", !.of = e, !.if_match = index[e], !.mine = index]
  OBVIOUS
<1>3. e \in Events
  BY DEF StartPut, Resources
<1>4. index[e] \in Etags
  BY CalendarFacts
<1> HIDE DEF y
<1>5. Is(y, "put", e, index[e], Nothing, {}, Nothing, index)
  BY <1>2, IdleIs DEF Is
<1> QED
  BY <1>1, <1>3, <1>4, <1>5, StartStep

LEMMA StartDeleteStep ==
    ASSUME CalendarOK, NEW p \in Processes, NEW e \in Resources, NEW force, StartDelete(p, e, force)
    PROVE  CalendarOK'
<1> DEFINE pc == IF force THEN "delete by force" ELSE "delete"
           y == [Idle EXCEPT !.pc = pc, !.of = e, !.if_match = index[e], !.mine = index]
<1>1. Begin(p, y) /\ server' = server /\ issued' = issued /\ index' = index /\ seen' = seen
  BY DEF StartDelete
<1>2. y = [Idle EXCEPT !.pc = pc, !.of = e, !.if_match = index[e], !.mine = index]
  OBVIOUS
<1>3. pc \in {"delete", "delete by force"}
  OBVIOUS
<1>4. index[e] \in Etags
  BY CalendarFacts
<1> HIDE DEF y, pc
<1>5. Is(y, pc, e, index[e], Nothing, {}, Nothing, index)
  BY <1>2, IdleIs DEF Is
<1>6. pc \notin {"put", "store", "remove", "multiget", "write"}
  BY <1>3
<1> QED
  BY <1>1, <1>4, <1>5, <1>6, StartStep

LEMMA StartRsvpStep ==
    ASSUME CalendarOK, NEW p \in Processes, NEW e \in Resources, StartRsvp(p, e) PROVE CalendarOK'
<1> DEFINE y == [Idle EXCEPT !.pc = "answer", !.of = e]
<1>1. Begin(p, y) /\ server' = server /\ issued' = issued /\ index' = index /\ seen' = seen
  BY DEF StartRsvp
<1>2. y = [Idle EXCEPT !.pc = "answer", !.of = e]
  OBVIOUS
<1> HIDE DEF y
<1>3. Is(y, "answer", e, 0, Nothing, {}, Nothing, Nothing)
  BY <1>2, IdleIs DEF Is
<1> QED
  BY <1>1, <1>3, StartStep DEF Etags

LEMMA ListStep ==
    ASSUME CalendarOK, NEW p \in Processes, List(p) PROVE CalendarOK'
<1> DEFINE j == job[p]
           etags == Listed(j.of)
           pc == "remove"
           y == [j EXCEPT !.etags = etags, !.pc = pc]
<1>1. /\ job' = [job EXCEPT ![p] = y]
      /\ server' = server /\ issued' = issued /\ index' = index /\ seen' = seen
  BY DEF List, CalendarOK
<1>2. JobTypes(j) /\ FitsIn(j, server, issued, seen)
  BY DEF CalendarOK
<1>3. y = [j EXCEPT !.etags = etags, !.pc = pc]
  OBVIOUS
<1>4. etags \in [Resources -> Etags] /\ \A e \in Events : etags[e] \in 0 .. issued[e]
  <2>1. \A e \in Resources : server[e] \in Nat /\ issued[e] \in Nat /\ server[e] <= issued[e]
    BY CalendarFacts
  <2>2. \A e \in Resources : etags[e] \in Etags /\ etags[e] \in 0 .. issued[e]
    BY <2>1 DEF Listed, Etags
  <2>3. etags = [e \in Resources |-> etags[e]]
    BY DEF Listed
  <2> HIDE DEF etags
  <2> QED
    BY <2>2, <2>3, CalendarFacts
<1>0. pc = "remove" /\ pc \notin {"put", "store", "delete", "delete by force", "forget"}
  OBVIOUS
<1> HIDE DEF y, etags, j, pc
<1>5. Is(y, pc, j.of, j.if_match, etags, j.changed, j.got, j.mine)
  BY <1>2, <1>3, JobIs DEF Is
<1>6. TypedParts(j.if_match, etags, j.changed, j.got, j.mine)
  BY <1>2, <1>4, JobIs DEF TypedParts
<1>7. y.pc = pc /\ y.etags = etags /\ y.mine = j.mine
  BY <1>5, IsFields
<1>8. JobTypes(y)
  BY <1>0, <1>5, <1>6, IsPlain
<1>9. FitsIn(y, server, issued, seen)
  BY <1>0, <1>2, <1>4, <1>7 DEF FitsIn
<1> QED
  BY <1>1, <1>8, <1>9, QuietStep

LEMMA RemoveGoneStep ==
    ASSUME CalendarOK, NEW p \in Processes, RemoveGone(p) PROVE CalendarOK'
<1> DEFINE j == job[p]
           gone == Removed(j.etags, j.mine)
           changed == Changed(j.etags, j.mine)
           left == [e \in Resources |-> IF e \in gone THEN 0 ELSE j.mine[e]]
           pc == "multiget"
           y == [j EXCEPT !.mine = left, !.changed = changed, !.pc = pc]
<1>0. pc = "multiget" /\ pc \notin {"put", "store", "delete", "delete by force", "forget"}
  OBVIOUS
<1>1. /\ job' = [job EXCEPT ![p] = IF changed = {} THEN Saving(left) ELSE y]
      /\ WriteTo(gone, Nothing)
      /\ server' = server /\ issued' = issued /\ index' = index
      /\ j.pc = "remove"
  BY DEF RemoveGone, CalendarOK
<1>2. JobTypes(j) /\ FitsIn(j, server, issued, seen)
  BY DEF CalendarOK
<1>3. TypedParts(j.if_match, j.etags, j.changed, j.got, j.mine)
  BY <1>2, JobIs
<1>4. y = [j EXCEPT !.mine = left, !.changed = changed, !.pc = pc]
  OBVIOUS
<1>5. left \in [Resources -> Etags] /\ \A e \in Events : KnownIn(e, left[e], server, issued, seen)
  <2>1. \A e \in Resources : left[e] = 0 \/ left[e] = j.mine[e]
    OBVIOUS
  <2>2. \A e \in Resources : j.mine[e] \in Etags /\ 0 \in Etags
    BY <1>3 DEF TypedParts, Etags
  <2>3. left = [e \in Resources |-> left[e]]
    OBVIOUS
  <2>4. \A e \in Events : KnownIn(e, j.mine[e], server, issued, seen)
    BY <1>2 DEF FitsIn
  <2> HIDE DEF left
  <2>5. \A e \in Events : KnownIn(e, left[e], server, issued, seen)
    BY <2>1, <2>4, CalendarFacts DEF KnownIn
  <2> QED
    BY <2>1, <2>2, <2>3, <2>5
<1>6. /\ Mirror(server', issued', index', seen')
      /\ Later(server, issued, seen, server', issued', seen')
  BY <1>1, FilesStep
<1>7. \A e \in Events : left[e] \in Etags
  BY <1>5, CalendarFacts
<1>8. changed \in SUBSET Resources
  BY DEF Changed
<1> HIDE DEF left, y, changed, gone, pc
<1>9. \A e \in Events : KnownIn(e, left[e], server', issued', seen')
  BY <1>1, <1>5, <1>7, FilesStep
<1>10. CASE changed = {}
  <2>1. job' = [job EXCEPT ![p] = Saving(left)]
    BY <1>1, <1>10
  <2> QED
    BY <2>1, <1>5, <1>6, <1>9, SavingStep
<1>11. CASE changed # {}
  <2>1. job' = [job EXCEPT ![p] = y]
    BY <1>1, <1>11
  <2> HIDE DEF j
  <2>2. Is(y, pc, j.of, j.if_match, j.etags, changed, j.got, left)
    <3>1. Is(j, j.pc, j.of, j.if_match, j.etags, j.changed, j.got, j.mine)
      BY <1>2, JobIs
    <3> QED
      BY <3>1, <1>4 DEF Is
  <2>3. TypedParts(j.if_match, j.etags, changed, j.got, left)
    BY <1>3, <1>5, <1>8 DEF TypedParts
  <2>4. JobTypes(y)
    BY <1>0, <2>2, <2>3, IsPlain
  <2>5. y.pc = pc /\ y.etags = j.etags /\ y.mine = left
    BY <2>2, IsFields
  <2>6. \A e \in Events : j.etags[e] \in 0 .. issued[e]
    BY <1>1, <1>2 DEF FitsIn
  <2>7. FitsIn(y, server', issued', seen')
    BY <1>0, <1>1, <1>9, <2>5, <2>6 DEF FitsIn
  <2> QED
    BY <1>6, <2>1, <2>4, <2>7, CommandStep
<1> QED
  BY <1>10, <1>11

LEMMA MultigetStep ==
    ASSUME CalendarOK, NEW p \in Processes, Multiget(p) PROVE CalendarOK'
<1> DEFINE j == job[p]
           here == {e \in j.changed : server[e] # 0}
           got == [e \in Resources |-> IF e \in here THEN server[e] ELSE 0]
           pc == "write"
           y == [j EXCEPT !.changed = here, !.pc = pc, !.got = got]
<1>0. pc = "write" /\ pc \notin {"put", "store", "delete", "delete by force", "forget"}
  OBVIOUS
<1>1. /\ \/ job' = [job EXCEPT ![p] = Idle]
         \/ job' = [job EXCEPT ![p] = Saving(j.mine)]
         \/ job' = [job EXCEPT ![p] = y]
      /\ server' = server /\ issued' = issued /\ index' = index /\ seen' = seen
      /\ j.pc = "multiget"
  BY DEF Multiget
<1>2. JobTypes(j) /\ FitsIn(j, server, issued, seen)
  BY DEF CalendarOK
<1>3. TypedParts(j.if_match, j.etags, j.changed, j.got, j.mine)
  BY <1>2, JobIs
<1>4. y = [j EXCEPT !.changed = here, !.pc = pc, !.got = got]
  OBVIOUS
<1>5. /\ Mirror(server', issued', index', seen')
      /\ Later(server, issued, seen, server', issued', seen')
  BY <1>1, SameServer
<1>6. CASE job' = [job EXCEPT ![p] = Idle]
  BY <1>5, <1>6, EndStep
<1>7. CASE job' = [job EXCEPT ![p] = Saving(j.mine)]
  <2>1. j.mine \in [Resources -> Etags] /\ \A e \in Events : KnownIn(e, j.mine[e], server, issued, seen)
    BY <1>2, <1>3 DEF TypedParts, FitsIn
  <2> HIDE DEF j
  <2>2. \A e \in Events : KnownIn(e, j.mine[e], server', issued', seen')
    BY <1>1, <2>1
  <2> QED
    BY <1>5, <1>7, <2>1, <2>2, SavingStep
<1>8. CASE job' = [job EXCEPT ![p] = y]
  <2>1. here \in SUBSET Resources /\ got \in [Resources -> Nat]
    BY <1>3, CalendarFacts DEF TypedParts
  <2>2. \A e \in here : got[e] = server[e] /\ server[e] # 0
    BY <2>1
  <2> HIDE DEF here, got, y, j, pc
  <2>3. Is(y, pc, j.of, j.if_match, j.etags, here, got, j.mine)
    BY <1>2, <1>4, JobIs DEF Is
  <2>4. TypedParts(j.if_match, j.etags, here, got, j.mine)
    BY <1>3, <2>1 DEF TypedParts
  <2>5. JobTypes(y)
    BY <1>0, <2>3, <2>4, IsPlain
  <2>6. y.pc = pc /\ y.etags = j.etags /\ y.mine = j.mine /\ y.changed = here /\ y.got = got
    BY <2>3, IsFields
  <2>7. \A e \in Events : j.etags[e] \in 0 .. issued[e]
    BY <1>1, <1>2 DEF FitsIn
  <2>8. \A e \in here \cap Events :
          got[e] # 0 /\ (j.etags[e] \in {0, got[e]} \/ Outdated(e, j.etags[e], server, issued))
    <3> SUFFICES ASSUME NEW e \in here, e \in Events, j.etags[e] # 0, j.etags[e] # server[e]
                 PROVE  Outdated(e, j.etags[e], server, issued)
      BY <2>2
    <3>1. j.etags[e] \in 0 .. issued[e] /\ issued[e] \in Nat
      BY <2>7, CalendarFacts
    <3>2. j.etags[e] \in 1 .. issued[e]
      BY <3>1
    <3> QED
      BY <3>2 DEF Outdated
  <2>9. FitsIn(y, server, issued, seen)
    BY <1>0, <1>2, <2>6, <2>7, <2>8 DEF FitsIn
  <2> QED
    BY <1>1, <1>8, <2>5, <2>9, QuietStep
<1> QED
  BY <1>1, <1>6, <1>7, <1>8

LEMMA WriteFileStep ==
    ASSUME CalendarOK, NEW p \in Processes, WriteFile(p) PROVE CalendarOK'
<1> DEFINE j == job[p]
<1>1. PICK e \in j.changed :
        /\ WriteTo({e}, j.got)
        /\ job' = [job EXCEPT ![p] =
             IF j.changed = {e} THEN Saving([j.mine EXCEPT ![e] = j.etags[e]])
             ELSE [j EXCEPT !.mine = [j.mine EXCEPT ![e] = j.etags[e]], !.changed = j.changed \ {e}]]
  BY DEF WriteFile
<1> DEFINE mine == [j.mine EXCEPT ![e] = j.etags[e]]
           changed == j.changed \ {e}
           y == [j EXCEPT !.mine = mine, !.changed = changed]
<1>2. /\ job' = [job EXCEPT ![p] = Saving(mine)] \/ job' = [job EXCEPT ![p] = y]
      /\ server' = server /\ issued' = issued /\ index' = index
      /\ j.pc = "write"
  <2>1. server' = server /\ issued' = issued /\ index' = index /\ j.pc = "write"
    BY DEF WriteFile
  <2>2. job' = [job EXCEPT ![p] = IF j.changed = {e} THEN Saving(mine) ELSE y]
    BY <1>1
  <2> HIDE DEF y
  <2> QED
    BY <2>1, <2>2
<1>3. JobTypes(j) /\ FitsIn(j, server, issued, seen)
  BY DEF CalendarOK
<1>4. TypedParts(j.if_match, j.etags, j.changed, j.got, j.mine)
  BY <1>3, JobIs
<1>5. y = [j EXCEPT !.mine = mine, !.changed = changed]
  OBVIOUS
<1>6. /\ Mirror(server', issued', index', seen')
      /\ Later(server, issued, seen, server', issued', seen')
  BY <1>1, <1>2, FilesStep
<1>7. /\ mine \in [Resources -> Etags]
      /\ \A f \in Resources : mine[f] = IF f = e THEN j.etags[e] ELSE j.mine[f]
  BY <1>4 DEF TypedParts
<1>8. changed \in SUBSET Resources /\ changed \subseteq j.changed
  BY <1>4 DEF TypedParts
<1>9. FitsIn(j, server', issued', seen')
  BY <1>3, <1>6, CalendarFacts, LaterFits DEF Mirror
<1> HIDE DEF mine, changed, y, j
\* The file now holds what the entry names, or something newer.
<1>10. e \in Events => KnownIn(e, j.etags[e], server', issued', seen')
  <2> SUFFICES ASSUME e \in Events PROVE KnownIn(e, j.etags[e], server', issued', seen')
    OBVIOUS
  <2>1. /\ j.got[e] # 0
        /\ j.etags[e] \in {0, j.got[e]} \/ Outdated(e, j.etags[e], server', issued')
    BY <1>1, <1>2, <1>9 DEF FitsIn
  <2>2. j.got[e] \in seen'[e]
    BY <1>1, <1>2, <2>1, FilesStep
  <2> QED
    BY <2>1, <2>2 DEF KnownIn
<1>11. \A f \in Events : KnownIn(f, mine[f], server', issued', seen')
  <2>1. \A f \in Events : KnownIn(f, j.mine[f], server', issued', seen')
    BY <1>9 DEF FitsIn
  <2> QED
    BY <1>7, <1>10, <2>1, CalendarFacts
<1>12. CASE job' = [job EXCEPT ![p] = Saving(mine)]
  BY <1>6, <1>7, <1>11, <1>12, SavingStep
<1>13. CASE job' = [job EXCEPT ![p] = y]
  <2>1. Is(j, j.pc, j.of, j.if_match, j.etags, j.changed, j.got, j.mine)
    BY <1>3, JobIs
  <2>2. Is(y, j.pc, j.of, j.if_match, j.etags, changed, j.got, mine)
    BY <1>5, <2>1 DEF Is
  <2>3. TypedParts(j.if_match, j.etags, changed, j.got, mine)
    BY <1>4, <1>7, <1>8 DEF TypedParts
  <2>4. y.pc = j.pc /\ y.etags = j.etags /\ y.mine = mine /\ y.changed = changed /\ y.got = j.got
    BY <2>2, IsFields
  <2>5. j.pc \notin {"put", "store", "delete", "delete by force", "forget"}
    BY <1>2
  <2>6. JobTypes(y)
    BY <2>2, <2>3, <2>5, IsPlain
  <2>7. FitsIn(y, server', issued', seen')
    BY <1>2, <1>8, <1>9, <1>11, <2>4 DEF FitsIn
  <2> QED
    BY <1>6, <1>13, <2>6, <2>7, CommandStep
<1> QED
  BY <1>2, <1>12, <1>13

\* The index on disk is empty, or what some command holds.
LEMMA IndexStep ==
    ASSUME CalendarOK, NEW ind \in [Resources -> Etags], index' = ind,
           \A e \in Events : KnownIn(e, ind[e], server, issued, seen),
           server' = server, issued' = issued, seen' = seen
    PROVE  /\ Mirror(server', issued', index', seen')
           /\ Later(server, issued, seen, server', issued', seen')
<1>1. \A e \in Events : issued[e] \in Nat
  BY CalendarFacts
<1> QED
  BY <1>1 DEF CalendarOK, Later, Mirror

LEMMA TruncateStep ==
    ASSUME CalendarOK, NEW p \in Processes, Truncate(p) PROVE CalendarOK'
<1> DEFINE j == job[p]
           pc == "saving"
           y == [j EXCEPT !.pc = pc]
<1>0. pc = "saving" /\ pc \notin {"put", "store", "delete", "delete by force", "forget"}
  OBVIOUS
<1>1. /\ job' = [job EXCEPT ![p] = y]
      /\ server' = server /\ issued' = issued /\ index' = Nothing /\ seen' = seen
  BY DEF Truncate, CalendarOK
<1>2. JobTypes(j) /\ FitsIn(j, server, issued, seen)
  BY DEF CalendarOK
<1>3. y = [j EXCEPT !.pc = pc]
  OBVIOUS
<1>4. \A e \in Events : KnownIn(e, Nothing[e], server, issued, seen)
  BY NothingTyped, CalendarFacts DEF KnownIn
<1>5. /\ Mirror(server', issued', index', seen')
      /\ Later(server, issued, seen, server', issued', seen')
  BY <1>1, <1>4, NothingTyped, IndexStep
<1> HIDE DEF y, j, pc
<1>6. Is(j, j.pc, j.of, j.if_match, j.etags, j.changed, j.got, j.mine)
  BY <1>2, JobIs
<1>7. Is(y, pc, j.of, j.if_match, j.etags, j.changed, j.got, j.mine)
  BY <1>3, <1>6 DEF Is
<1>8. JobTypes(y)
  BY <1>0, <1>2, <1>7, JobIs, IsPlain
<1>9. y.pc = pc /\ y.mine = j.mine
  BY <1>7, IsFields
<1>10. FitsIn(y, server', issued', seen')
  BY <1>0, <1>1, <1>2, <1>9 DEF FitsIn
<1> QED
  BY <1>1, <1>5, <1>8, <1>10, CommandStep

LEMMA SaveStep ==
    ASSUME CalendarOK, NEW p \in Processes, Save(p) PROVE CalendarOK'
<1> DEFINE mine == job[p].mine
<1>1. /\ job' = [job EXCEPT ![p] = Idle]
      /\ server' = server /\ issued' = issued /\ index' = mine /\ seen' = seen
  BY DEF Save
<1>2. JobTypes(job[p]) /\ FitsIn(job[p], server, issued, seen)
  BY DEF CalendarOK
<1>3. mine \in [Resources -> Etags] /\ \A e \in Events : KnownIn(e, mine[e], server, issued, seen)
  BY <1>2, JobIs DEF TypedParts, FitsIn
<1> HIDE DEF mine
<1>4. /\ Mirror(server', issued', index', seen')
      /\ Later(server, issued, seen, server', issued', seen')
  BY <1>1, <1>3, IndexStep
<1> QED
  BY <1>1, <1>4, EndStep

\* A resource gets a version never issued before, or goes.
LEMMA ServerStep ==
    ASSUME CalendarOK, NEW e \in Resources, NEW v \in Nat, NEW top \in Nat,
           server' = [server EXCEPT ![e] = v], issued' = [issued EXCEPT ![e] = top],
           issued[e] <= top, v = 0 \/ (v = top /\ v > issued[e]),
           index' = index, seen' = seen
    PROVE  /\ Mirror(server', issued', index', seen')
           /\ Later(server, issued, seen, server', issued', seen')
<1>1. /\ server' \in [Resources -> Nat] /\ issued' \in [Resources -> Nat]
      /\ \A f \in Resources : server'[f] = IF f = e THEN v ELSE server[f]
      /\ \A f \in Resources : issued'[f] = IF f = e THEN top ELSE issued[f]
  BY CalendarFacts
<1>2. \A f \in Resources : server[f] \in Nat /\ issued[f] \in Nat /\ server[f] <= issued[f]
  BY CalendarFacts
<1>3. \A f \in Resources : server'[f] <= issued'[f]
  <2> SUFFICES ASSUME NEW f \in Resources PROVE server'[f] <= issued'[f]
    OBVIOUS
  <2>1. CASE f = e
    BY <1>1, <2>1
  <2>2. CASE f # e
    BY <1>1, <1>2, <2>2
  <2> QED
    BY <2>1, <2>2
<1>4. Later(server, issued, seen, server', issued', seen')
  <2> SUFFICES ASSUME NEW f \in Events
               PROVE  /\ server'[f] \in {0, server[f]} \/ server'[f] > issued[f]
                      /\ issued[f] <= issued'[f]
    BY DEF Later
  <2>1. f \in Resources
    BY DEF Resources
  <2>2. CASE f = e
    BY <1>1, <2>1, <2>2
  <2>3. CASE f # e
    BY <1>1, <1>2, <2>1, <2>3
  <2> QED
    BY <2>2, <2>3
<1>5. \A f \in Events : KnownIn(f, index[f], server', issued', seen')
  BY <1>1, <1>4, CalendarFacts, LaterKnown
<1> QED
  BY <1>1, <1>3, <1>4, <1>5, CalendarFacts DEF Mirror

LEMMA PutStep ==
    ASSUME CalendarOK, NEW p \in Processes, Put(p) PROVE CalendarOK'
<1> DEFINE j == job[p]
           new == issued[j.of] + 1
           pc == "store"
<1>1. index' = index /\ seen' = seen /\ j.pc = "put"
  BY DEF Put
<1>2. JobTypes(j) /\ FitsIn(j, server, issued, seen)
  BY DEF CalendarOK
<1>3. TypedParts(j.if_match, j.etags, j.changed, j.got, j.mine)
      /\ Is(j, j.pc, j.of, j.if_match, j.etags, j.changed, j.got, j.mine)
  BY <1>2, JobIs
<1>4. j.of \in Events /\ j.of \in Resources
  BY <1>1, <1>2, CalendarFacts DEF JobTypes
<1>5. CASE job' = [job EXCEPT ![p] = Idle] /\ server' = server /\ issued' = issued
  BY <1>1, <1>5, SameServer, EndStep
<1>6. ASSUME server' = [server EXCEPT ![j.of] = new], issued' = [issued EXCEPT ![j.of] = new],
             NEW etag \in {new, Blank},
             job' = [job EXCEPT ![p].pc = "store", ![p].got[j.of] = new, ![p].etags[j.of] = etag]
      PROVE  CalendarOK'
  <2> DEFINE got == [j.got EXCEPT ![j.of] = new]
             etags == [j.etags EXCEPT ![j.of] = etag]
             y == [j EXCEPT !.pc = pc, !.got = got, !.etags = etags]
  <2>0. pc = "store"
    OBVIOUS
  <2>1. new \in Nat /\ new # 0 /\ new > issued[j.of] /\ issued[j.of] <= new
    <3>1. issued[j.of] \in Nat
      BY <1>4, CalendarFacts
    <3> QED
      BY <3>1
  <2>2. job' = [job EXCEPT ![p] = y]
    BY <1>6 DEF CalendarOK
  <2>3. y = [j EXCEPT !.pc = pc, !.got = got, !.etags = etags]
    OBVIOUS
  <2> HIDE DEF new
  <2>4. etag \in Etags
    BY <2>1 DEF Etags
  <2>5. /\ got \in [Resources -> Nat] /\ got[j.of] = new
        /\ etags \in [Resources -> Etags] /\ etags[j.of] = etag
    BY <1>3, <1>4, <2>1, <2>4 DEF TypedParts
  <2> HIDE DEF y, got, etags, pc
  <2>6. /\ Mirror(server', issued', index', seen')
        /\ Later(server, issued, seen, server', issued', seen')
    BY <1>1, <1>4, <1>6, <2>1, ServerStep
  <2>7. FitsIn(j, server', issued', seen')
    BY <1>2, <2>6, CalendarFacts, LaterFits DEF Mirror
  <2> HIDE DEF j
  <2>8. Is(y, pc, j.of, j.if_match, etags, j.changed, got, j.mine)
    BY <1>3, <2>3 DEF Is
  <2>9. TypedParts(j.if_match, etags, j.changed, got, j.mine)
    BY <1>3, <2>5 DEF TypedParts
  <2>10. JobTypes(y)
    <3>1. pc \notin {"delete", "delete by force", "forget"}
      BY <2>0
    <3> QED
      BY <1>4, <2>8, <2>9, <3>1, IsTyped
  <2>11. y.pc = pc /\ y.of = j.of /\ y.etags = etags /\ y.got = got /\ y.mine = j.mine
    BY <2>8, IsFields
  <2>12. FitsIn(y, server', issued', seen')
    BY <2>0, <2>1, <2>5, <2>7, <2>11 DEF FitsIn
  <2> QED
    BY <2>2, <2>6, <2>10, <2>12, CommandStep
<1>7. \/ job' = [job EXCEPT ![p] = Idle] /\ server' = server /\ issued' = issued
      \/ /\ server' = [server EXCEPT ![j.of] = new] /\ issued' = [issued EXCEPT ![j.of] = new]
         /\ \E etag \in {new, Blank} :
               job' = [job EXCEPT ![p].pc = "store", ![p].got[j.of] = new, ![p].etags[j.of] = etag]
  BY DEF Put
<1> QED
  BY <1>5, <1>6, <1>7

LEMMA StorePutStep ==
    ASSUME CalendarOK, NEW p \in Processes, StorePut(p) PROVE CalendarOK'
<1> DEFINE j == job[p]
           mine == [j.mine EXCEPT ![j.of] = j.etags[j.of]]
<1>1. /\ WriteTo({j.of}, j.got)
      /\ job' = [job EXCEPT ![p] = Saving(mine)]
      /\ server' = server /\ issued' = issued /\ index' = index
      /\ j.pc = "store"
  BY DEF StorePut
<1>2. JobTypes(j) /\ FitsIn(j, server, issued, seen)
  BY DEF CalendarOK
<1>3. TypedParts(j.if_match, j.etags, j.changed, j.got, j.mine)
  BY <1>2, JobIs
<1>4. j.of \in Events /\ j.of \in Resources
  BY <1>1, <1>2, CalendarFacts DEF JobTypes
<1>5. /\ mine \in [Resources -> Etags]
      /\ \A e \in Resources : mine[e] = IF e = j.of THEN j.etags[e] ELSE j.mine[e]
  BY <1>3, <1>4 DEF TypedParts
<1>6. /\ Mirror(server', issued', index', seen')
      /\ Later(server, issued, seen, server', issued', seen')
  BY <1>1, FilesStep
<1>7. FitsIn(j, server', issued', seen')
  BY <1>2, <1>6, CalendarFacts, LaterFits DEF Mirror
<1> HIDE DEF mine, j
<1>8. j.got[j.of] # 0 /\ j.etags[j.of] \in {j.got[j.of], Blank}
  BY <1>1, <1>2 DEF FitsIn
<1>9. j.got[j.of] \in seen'[j.of]
  BY <1>1, <1>4, <1>8, FilesStep
<1>10. KnownIn(j.of, j.etags[j.of], server', issued', seen')
  BY <1>8, <1>9 DEF KnownIn
<1>11. \A e \in Events : KnownIn(e, mine[e], server', issued', seen')
  <2>1. \A e \in Events : KnownIn(e, j.mine[e], server', issued', seen')
    BY <1>7 DEF FitsIn
  <2> QED
    BY <1>5, <1>10, <2>1, CalendarFacts
<1> QED
  BY <1>1, <1>5, <1>6, <1>11, SavingStep

LEMMA DeleteStep ==
    ASSUME CalendarOK, NEW p \in Processes, Delete(p) PROVE CalendarOK'
<1> DEFINE j == job[p]
           pc == "forget"
           y == [j EXCEPT !.pc = pc]
<1>0. pc = "forget" /\ pc \notin {"put", "store"}
  OBVIOUS
<1>1. /\ \/ server' = [server EXCEPT ![j.of] = 0] /\ job' = [job EXCEPT ![p] = y]
         \/ server' = server /\ job' = [job EXCEPT ![p] = Idle]
      /\ issued' = issued /\ index' = index /\ seen' = seen
      /\ j.pc \in {"delete", "delete by force"}
  BY DEF Delete, CalendarOK
<1>2. JobTypes(j) /\ FitsIn(j, server, issued, seen)
  BY DEF CalendarOK
<1>3. TypedParts(j.if_match, j.etags, j.changed, j.got, j.mine)
      /\ Is(j, j.pc, j.of, j.if_match, j.etags, j.changed, j.got, j.mine)
  BY <1>2, JobIs
<1>4. j.of \in Resources
  BY <1>1, <1>2 DEF JobTypes
<1>5. y = [j EXCEPT !.pc = pc]
  OBVIOUS
<1>6. CASE server' = server /\ job' = [job EXCEPT ![p] = Idle]
  BY <1>1, <1>6, SameServer, EndStep
<1>7. CASE server' = [server EXCEPT ![j.of] = 0] /\ job' = [job EXCEPT ![p] = y]
  <2>1. issued' = [issued EXCEPT ![j.of] = issued[j.of]] /\ issued[j.of] \in Nat
    BY <1>1, <1>4, CalendarFacts
  <2>2. issued[j.of] <= issued[j.of] /\ 0 \in Nat
    BY <2>1
  <2>3. /\ Mirror(server', issued', index', seen')
        /\ Later(server, issued, seen, server', issued', seen')
    BY <1>1, <1>4, <1>7, <2>1, <2>2, ServerStep
  <2>4. FitsIn(j, server', issued', seen')
    BY <1>2, <2>3, CalendarFacts, LaterFits DEF Mirror
  <2> HIDE DEF y, j, pc
  <2>5. Is(y, pc, j.of, j.if_match, j.etags, j.changed, j.got, j.mine)
    BY <1>3, <1>5 DEF Is
  <2>6. JobTypes(y)
    BY <1>0, <1>3, <1>4, <2>5, IsTyped
  <2>7. y.pc = pc /\ y.mine = j.mine
    BY <2>5, IsFields
  <2>8. FitsIn(y, server', issued', seen')
    BY <1>0, <2>4, <2>7 DEF FitsIn
  <2> QED
    BY <1>7, <2>3, <2>6, <2>8, CommandStep
<1> QED
  BY <1>1, <1>6, <1>7

LEMMA ForgetStep ==
    ASSUME CalendarOK, NEW p \in Processes, Forget(p) PROVE CalendarOK'
<1> DEFINE j == job[p]
           mine == [j.mine EXCEPT ![j.of] = 0]
<1>1. /\ WriteTo({j.of}, Nothing)
      /\ job' = [job EXCEPT ![p] = Saving(mine)]
      /\ server' = server /\ issued' = issued /\ index' = index
      /\ j.pc = "forget"
  BY DEF Forget, CalendarOK
<1>2. JobTypes(j) /\ FitsIn(j, server, issued, seen)
  BY DEF CalendarOK
<1>3. j.mine \in [Resources -> Etags]
  BY <1>2, JobIs DEF TypedParts
<1>4. 0 \in Etags
  BY DEF Etags
<1>5. /\ mine \in [Resources -> Etags]
      /\ \A e \in Resources : mine[e] = 0 \/ mine[e] = j.mine[e]
  BY <1>3, <1>4
<1>6. /\ Mirror(server', issued', index', seen')
      /\ Later(server, issued, seen, server', issued', seen')
  BY <1>1, FilesStep
<1>7. FitsIn(j, server', issued', seen')
  BY <1>2, <1>6, CalendarFacts, LaterFits DEF Mirror
<1> HIDE DEF mine, j
<1>8. \A e \in Events : KnownIn(e, mine[e], server', issued', seen')
  <2>1. \A e \in Events : KnownIn(e, j.mine[e], server', issued', seen')
    BY <1>7 DEF FitsIn
  <2> QED
    BY <1>5, <2>1, CalendarFacts DEF KnownIn
<1> QED
  BY <1>1, <1>5, <1>6, <1>8, SavingStep

LEMMA RemoteStep ==
    ASSUME CalendarOK, NEW e \in Resources, RemoteEdit(e) \/ RemoteDelete(e) PROVE CalendarOK'
<1>1. job' = job /\ index' = index /\ seen' = seen
  BY DEF RemoteEdit, RemoteDelete
<1>2. issued[e] \in Nat
  BY CalendarFacts
<1>3. CASE RemoteEdit(e)
  <2> DEFINE v == issued[e] + 1
  <2>1. v \in Nat /\ v > issued[e] /\ issued[e] <= v
    BY <1>2
  <2>2. server' = [server EXCEPT ![e] = v] /\ issued' = [issued EXCEPT ![e] = v]
    BY <1>3 DEF RemoteEdit
  <2> HIDE DEF v
  <2> QED
    BY <1>1, <2>1, <2>2, ServerStep, OthersStep
<1>4. CASE RemoteDelete(e)
  <2>1. server' = [server EXCEPT ![e] = 0] /\ issued' = [issued EXCEPT ![e] = issued[e]]
    BY <1>4, CalendarFacts DEF RemoteDelete
  <2>2. issued[e] <= issued[e] /\ 0 \in Nat
    BY <1>2
  <2> QED
    BY <1>1, <1>2, <2>1, <2>2, ServerStep, OthersStep
<1> QED
  BY <1>3, <1>4

LEMMA StopStep ==
    ASSUME CalendarOK, NEW p \in Processes, Answer(p) \/ Fail(p) \/ Crash(p) PROVE CalendarOK'
<1>1. /\ job' = [job EXCEPT ![p] = Idle]
      /\ server' = server /\ issued' = issued /\ index' = index /\ seen' = seen
  BY DEF Answer, Fail, Crash
<1> QED
  BY <1>1, SameServer, EndStep

\* The invariant holds initially and is kept by every step.
LEMMA CalendarInit == CommandsInit => CalendarOK
<1> SUFFICES ASSUME CommandsInit PROVE CalendarOK
  OBVIOUS
<1>1. /\ server = [e \in Resources |-> 1] /\ issued = server /\ index = Nothing
      /\ job = [p \in Processes |-> Idle] /\ seen = [e \in Events |-> {}]
  BY DEF CommandsInit, Init
<1>2. \A e \in Events : KnownIn(e, index[e], server, issued, seen)
  BY <1>1, NothingTyped DEF KnownIn, Resources
<1>3. Mirror(server, issued, index, seen)
  BY <1>1, <1>2, NothingTyped DEF Mirror
<1>4. JobTypes(Idle) /\ FitsIn(Idle, server, issued, seen)
  BY IdleOK
<1> QED
  BY <1>1, <1>3, <1>4 DEF CalendarOK

LEMMA CalendarStep == CalendarOK /\ [Next]_vars => CalendarOK'
<1> SUFFICES ASSUME CalendarOK, [Next]_vars PROVE CalendarOK'
  OBVIOUS
<1>1. CASE UNCHANGED vars
  BY <1>1 DEF vars, CalendarOK
<1>2. ASSUME NEW p \in Processes, Work(p) PROVE CalendarOK'
  BY <1>2, ListStep, RemoveGoneStep, MultigetStep, WriteFileStep, PutStep, StorePutStep,
     DeleteStep, ForgetStep, StopStep, TruncateStep, SaveStep DEF Work
<1>3. ASSUME NEW p \in Processes,
             Fail(p) \/ Crash(p) \/ (\E discover \in BOOLEAN : StartPull(p, discover))
      PROVE  CalendarOK'
  BY <1>3, StopStep, StartPullStep
<1>4. ASSUME NEW p \in Processes, NEW e \in Resources,
             StartPut(p, e) \/ StartRsvp(p, e) \/ (\E force \in BOOLEAN : StartDelete(p, e, force))
      PROVE  CalendarOK'
  BY <1>4, StartPutStep, StartRsvpStep, StartDeleteStep
<1> QED
  BY <1>1, <1>2, <1>3, <1>4, RemoteStep DEF Next

-----------------------------------------------------------------------------
(* Calendars: what a command takes off the server *)

\* An etag that the server accepts is of a version the file has held: it names
\* a version, and the server has it still.
LEMMA AcceptedIsSeen ==
    ASSUME CalendarOK, NEW p \in Processes, job[p].pc \in {"put", "delete"}, job[p].of \in Events,
           server[job[p].of] # 0, Accepts(job[p].of, job[p].if_match)
    PROVE  server[job[p].of] \in seen[job[p].of]
<1> DEFINE e == job[p].of
<1>1. server[e] \in Nat /\ e \in Resources
  BY CalendarFacts
<1>2. KnownIn(e, server[e], server, issued, seen)
  BY DEF CalendarOK, FitsIn, Accepts
<1>3. server[e] \notin {0, Blank}
  BY <1>1 DEF Blank
<1> QED
  BY <1>2, <1>3 DEF KnownIn, Outdated

LEMMA OnlyAcceptedGoOn ==
    ASSUME CalendarOK, [Next]_vars, NEW p \in Processes,
           job[p].pc \in {"put", "delete"}, job'[p].pc \in {"store", "forget"}, server[job[p].of] # 0
    PROVE  Accepts(job[p].of, job[p].if_match)
<1>0. DOMAIN job = Processes /\ Idle.pc = "idle"
  BY IdleIs, IsFields DEF CalendarOK
\* A step of another command, or of none, leaves this one where it is.
<1>1. job'[p] # job[p]
  OBVIOUS
<1>2. ASSUME NEW q \in Processes, q # p PROVE ~Work(q)
  <2> SUFFICES ASSUME Work(q) PROVE FALSE
    OBVIOUS
  <2>1. CASE List(q) \/ RemoveGone(q) \/ Multiget(q)
    BY <1>0, <1>1, <1>2, <2>1 DEF List, RemoveGone, Multiget
  <2>2. CASE WriteFile(q)
    BY <1>0, <1>1, <1>2, <2>2 DEF WriteFile
  <2>3. CASE Put(q) \/ StorePut(q)
    BY <1>0, <1>1, <1>2, <2>3 DEF Put, StorePut
  <2>4. CASE Delete(q) \/ Forget(q) \/ Answer(q)
    BY <1>0, <1>1, <1>2, <2>4 DEF Delete, Forget, Answer
  <2>5. CASE Truncate(q) \/ Save(q)
    BY <1>0, <1>1, <1>2, <2>5 DEF Truncate, Save
  <2> QED
    BY <2>1, <2>2, <2>3, <2>4, <2>5 DEF Work
\* Of its own steps only the request itself leads there.
<1>3. CASE Work(p)
  <2>1. Put(p) \/ Delete(p)
    BY <1>3 DEF Work, List, RemoveGone, Multiget, WriteFile, StorePut, Forget, Answer, Truncate, Save
  <2>2. CASE Put(p)
    BY <1>0, <2>2 DEF Put
  <2>3. CASE Delete(p)
    BY <1>0, <2>3 DEF Delete
  <2> QED
    BY <2>1, <2>2, <2>3
<1>4. ASSUME NEW q \in Processes PROVE ~Fail(q) /\ ~Crash(q)
  BY <1>0, <1>1 DEF Fail, Crash
<1>5. ASSUME NEW q \in Processes, NEW y PROVE ~Begin(q, y)
  BY <1>0, <1>1 DEF Begin
<1>6. ~UNCHANGED vars /\ \A e \in Resources : ~RemoteEdit(e) /\ ~RemoteDelete(e)
  BY <1>1 DEF vars, RemoteEdit, RemoteDelete
<1>7. \A q \in Processes, e \in Resources :
        ~StartPut(q, e) /\ ~StartRsvp(q, e) /\ \A force \in BOOLEAN : ~StartDelete(q, e, force)
  BY <1>5 DEF StartPut, StartRsvp, StartDelete
<1>8. \A q \in Processes, discover \in BOOLEAN : ~StartPull(q, discover)
  BY <1>5 DEF StartPull
<1> QED
  BY <1>2, <1>3, <1>4, <1>6, <1>7, <1>8 DEF Next

\* What an update or a plain `cal delete` takes off the server is a version
\* this machine has had in the event's file, for any number of commands and
\* events, whatever overlaps, fails or dies: If-Match is worth something
\* because the listing is asked for before the bodies and the index is written
\* after the files (put_event, delete_event and the loop of `cal caldav pull`).
THEOREM UpdatesReplaceWhatWasSeen == CommandsSpec => ReplacesOnlyWhatWasSeen
<1>1. [CommandsNext]_allVars => [Next]_vars
  BY DEF CommandsNext, allVars, vars
<1>2. CalendarOK /\ [CommandsNext]_allVars => CalendarOK'
  BY <1>1, CalendarStep
<1>3. CalendarOK /\ [Next]_vars =>
        \A p \in Processes : LET e == job[p].of IN
          job[p].pc \in {"put", "delete"} /\ job'[p].pc \in {"store", "forget"} /\ e \in Events /\ server[e] # 0
          => server[e] \in seen[e]
  BY OnlyAcceptedGoOn, AcceptedIsSeen
<1>4. CalendarOK /\ [CommandsNext]_allVars =>
        [\A p \in Processes : LET e == job[p].of IN
          job[p].pc \in {"put", "delete"} /\ job'[p].pc \in {"store", "forget"} /\ e \in Events /\ server[e] # 0
          => server[e] \in seen[e]]_vars
  BY <1>1, <1>3
<1> QED
  BY <1>2, <1>4, CalendarInit, PTL DEF CommandsSpec, ReplacesOnlyWhatWasSeen

-----------------------------------------------------------------------------
(* Folder management: a command touches the mailbox that its path names *)

FoldersOK == Folders!FolderTypes /\ Folders!AimInv /\ Folders!GraphInv

LEMMA FoldersCardinality == \A S : Folders!Cardinality(S) = Cardinality(S)
BY DEF Folders!Cardinality, Cardinality

LEMMA ListingAims ==
  ASSUME last_id \in Nat, DOMAIN boxes \subseteq 1 .. last_id, NEW path,
         NEW target, target = IF kind = "jmap" THEN Folders!ResolveMailbox(boxes, path)
                              ELSE Folders!ResolveFolderId(boxes, path),
         target # Folders!None
  PROVE  target \in Folders!NamedBy(boxes, path)
<1>1. ASSUME NEW set, Folders!Only(set) # Folders!None PROVE Folders!Only(set) \in set
  <2>1. Cardinality(set) = 1
    BY <1>1, FoldersCardinality DEF Folders!Only
  <2>2. set # {}
    BY <2>1, FS_EmptySet
  <2>3. QED
    BY <2>1, <2>2, FoldersCardinality DEF Folders!Only
<1>2. CASE kind = "jmap"
  BY <1>1, <1>2 DEF Folders!ResolveMailbox, Folders!NamedBy
<1>3. CASE kind # "jmap"
  <2>1. Folders!Called(boxes, path) # {}
    BY <1>3 DEF Folders!ResolveFolderId
  <2>2. Folders!Called(boxes, path) \subseteq Nat
    BY DEF Folders!Called
  <2>3. \E m \in Folders!Called(boxes, path) : \A n \in Folders!Called(boxes, path) : m <= n
    BY <2>1, <2>2, LeastExists
  <2>4. QED
    BY <1>3, <2>1, <2>3 DEF Folders!ResolveFolderId, Folders!NamedBy
<1>4. QED
  BY <1>2, <1>3

\* A request changes no mailbox but the one it is about.
LEMMA ServedTouches ==
  ASSUME Folders!FolderTypes, NEW c
  PROVE  /\ DOMAIN Folders!Served(c) \subseteq DOMAIN boxes \cup {last_id + 1}
         /\ \A m \in DOMAIN boxes :
               (c.op = "create" \/ m # c.target) =>
                  m \in DOMAIN Folders!Served(c) /\ Folders!Served(c)[m] = boxes[m]
<1>1. CASE c.op = "create"
  <2>1. Folders!Served(c) = Folders!Created(c)
    BY <1>1 DEF Folders!Served
  <2>2. QED
    BY <1>1, <2>1 DEF Folders!Created
<1>2. CASE c.op # "create" /\ c.target \notin DOMAIN boxes
  <2>1. Folders!Served(c) = boxes
    BY <1>2 DEF Folders!Served
  <2>2. QED
    BY <2>1
<1>3. CASE c.op = "delete" /\ c.target \in DOMAIN boxes
  <2>1. Folders!Served(c) = Folders!Destroyed(c)
    BY <1>3 DEF Folders!Served
  <2>2. QED
    BY <1>3, <2>1 DEF Folders!Destroyed
<1>4. CASE c.op = "rename" /\ c.target \in DOMAIN boxes
  <2>1. Folders!Served(c) = Folders!Renamed(c)
    BY <1>4 DEF Folders!Served
  <2>2. QED
    BY <1>4, <2>1 DEF Folders!Renamed
<1>5. CASE c.op \notin {"create", "delete", "rename"} /\ c.target \in DOMAIN boxes
  <2>1. Folders!Served(c) = Folders!Subscribed(c)
    BY <1>5 DEF Folders!Served
  <2>2. QED
    BY <1>5, <2>1 DEF Folders!Subscribed
<1>6. QED
  BY <1>1, <1>2, <1>3, <1>4, <1>5

LEMMA IdleFields ==
  /\ DOMAIN Folders!Idle = Folders!CommandFields
  /\ Folders!Idle.step = "idle" /\ Folders!Idle.op = "none"
BY DEF Folders!Idle, Folders!CommandFields

\* What a creation starts with.
LEMMA CreationFields ==
  ASSUME NEW path
  PROVE  LET c == Folders!Creation(path)
         IN  /\ DOMAIN c = Folders!CommandFields /\ c.op = "create" /\ c.path = path
             /\ kind = "graph" => c.step = "set" /\ c.parent = Folders!None /\ c.rest = <<path>>
BY DEF Folders!Creation, Folders!Idle, Folders!CommandFields

\* The three facts about a command c, when the server's mailboxes are bx.
SoundIn(bx, c) ==
    /\ DOMAIN c = Folders!CommandFields
    /\ Folders!Aims(c) /\ c.meanwhile = {} => c.target \in Folders!NamedBy(bx, c.path)
    /\ kind = "graph" /\ c.op = "create" =>
          c.step \in {"set", "failed"} /\ c.parent = Folders!None /\ c.rest = <<c.path>>

LEMMA FreshAreSound ==
  ASSUME NEW bx
  PROVE  /\ SoundIn(bx, Folders!Idle)
         /\ \A path : SoundIn(bx, Folders!Creation(path))
<1>1. SoundIn(bx, Folders!Idle)
  BY IdleFields DEF SoundIn, Folders!Aims
<1>2. ASSUME NEW path PROVE SoundIn(bx, Folders!Creation(path))
  BY CreationFields DEF SoundIn, Folders!Aims
<1>3. QED
  BY <1>1, <1>2

LEMMA FailedIsSound ==
  ASSUME NEW bx, NEW c, SoundIn(bx, c)
  PROVE  /\ SoundIn(bx, Folders!Failed(c)) /\ ~Folders!Aims(Folders!Failed(c))
         /\ c.op = "create" => Folders!Failed(c).op = "create"
<1>1. CASE c.op = "create"
  <2>1. Folders!Failed(c) = [c EXCEPT !.step = "failed", !.meanwhile = {}]
    BY <1>1 DEF Folders!Failed
  <2>2. DOMAIN c = Folders!CommandFields
    BY DEF SoundIn
  <2>3. QED
    BY <1>1, <2>1, <2>2 DEF SoundIn, Folders!Aims, Folders!CommandFields
<1>2. CASE c.op # "create"
  <2>1. Folders!Failed(c) = Folders!Idle
    BY <1>2 DEF Folders!Failed
  <2>2. QED
    BY <1>2, <2>1, FreshAreSound, IdleFields DEF Folders!Aims
<1>3. QED
  BY <1>1, <1>2

\* What an answer leaves of a command is about no mailbox; a creation ends without an error
\* only if the server did it.
LEMMA AnsweredIsSound ==
  ASSUME NEW bx, NEW c, SoundIn(bx, c), NEW ok \in BOOLEAN
  PROVE  /\ SoundIn(bx, Folders!Answered(c, ok)) /\ ~Folders!Aims(Folders!Answered(c, ok))
         /\ ~ok /\ c.op = "create" => Folders!Answered(c, ok).op = "create"
<1>1. CASE ~ok
  <2>1. Folders!Answered(c, ok) = Folders!Failed(c)
    BY <1>1 DEF Folders!Answered
  <2>2. QED
    BY <1>1, <2>1, FailedIsSound
<1>2. CASE ok /\ c.op = "create" /\ Len(c.rest) > 1
  <2>1. Folders!Answered(c, ok) = [c EXCEPT !.parent = last_id + 1, !.rest = Tail(@)]
    BY <1>2 DEF Folders!Answered
  <2>2. kind # "graph"
    <3>1. SUFFICES ASSUME kind = "graph" PROVE FALSE
      OBVIOUS
    <3>2. c.rest = <<c.path>>
      BY <1>2, <3>1 DEF SoundIn
    <3>3. Len(c.rest) = 1
      BY <3>2
    <3>4. QED
      BY <1>2, <3>3
  <2>3. DOMAIN c = Folders!CommandFields
    BY DEF SoundIn
  <2>4. QED
    BY <1>2, <2>1, <2>2, <2>3 DEF SoundIn, Folders!Aims, Folders!CommandFields
<1>3. CASE ok /\ ~(c.op = "create" /\ Len(c.rest) > 1)
  <2>1. Folders!Answered(c, ok) = Folders!Idle
    BY <1>3 DEF Folders!Answered
  <2>2. QED
    BY <1>3, <2>1, FreshAreSound, IdleFields DEF Folders!Aims
<1>4. QED
  BY <1>1, <1>2, <1>3

LEMMA FoldersStart ==
  ASSUME Folders!Init
  PROVE  FoldersOK
<1>1. last_id \in Nat /\ DOMAIN boxes \subseteq 1 .. last_id
  BY DEF Folders!Init
<1>2. \A p \in Processes : cmd[p] = Folders!Idle
  BY DEF Folders!Init
<1>3. DOMAIN cmd = Processes
  BY DEF Folders!Init
<1>4. QED
  BY <1>1, <1>2, <1>3, IdleFields
  DEF FoldersOK, Folders!FolderTypes, Folders!AimInv, Folders!GraphInv, Folders!Aims, Folders!Making

\* FoldersOK says that every command is sound.
LEMMA AllSound ==
  /\ FoldersOK <=> /\ last_id \in Nat /\ DOMAIN boxes \subseteq 1 .. last_id /\ DOMAIN cmd = Processes
                   /\ \A p \in Processes : SoundIn(boxes, cmd[p])
  /\ kind' = kind =>
       (FoldersOK' <=> /\ last_id' \in Nat /\ DOMAIN boxes' \subseteq 1 .. last_id' /\ DOMAIN cmd' = Processes
                       /\ \A p \in Processes : SoundIn(boxes', cmd'[p]))
<1>1. FoldersOK <=> /\ last_id \in Nat /\ DOMAIN boxes \subseteq 1 .. last_id /\ DOMAIN cmd = Processes
                    /\ \A p \in Processes : SoundIn(boxes, cmd[p])
  BY DEF FoldersOK, Folders!FolderTypes, Folders!AimInv, Folders!GraphInv, Folders!Making, SoundIn
<1>2. ASSUME kind' = kind
      PROVE  FoldersOK' <=> /\ last_id' \in Nat /\ DOMAIN boxes' \subseteq 1 .. last_id' /\ DOMAIN cmd' = Processes
                            /\ \A p \in Processes : SoundIn(boxes', cmd'[p])
  <2>1. \A p \in Processes :
           Folders!NamedBy(boxes, cmd[p].path)' = Folders!NamedBy(boxes', cmd'[p].path)
    BY <1>2 DEF Folders!NamedBy, Folders!Called, Folders!Listed
  <2>2. QED
    BY <1>2, <2>1
    DEF FoldersOK, Folders!FolderTypes, Folders!AimInv, Folders!GraphInv, Folders!Making, SoundIn, Folders!Aims
<1>3. QED
  BY <1>1, <1>2

\* One command goes on, the mailboxes stay as they are.
LEMMA OneGoesOn ==
  ASSUME FoldersOK, NEW p \in Processes, NEW c, SoundIn(boxes, c), cmd' = [cmd EXCEPT ![p] = c],
         UNCHANGED <<kind, boxes, last_id>>
  PROVE  FoldersOK'
<1>1. /\ last_id \in Nat /\ DOMAIN boxes \subseteq 1 .. last_id /\ DOMAIN cmd = Processes
      /\ \A q \in Processes : SoundIn(boxes, cmd[q])
  BY AllSound
<1>2. \A q \in Processes : SoundIn(boxes', cmd'[q])
  BY <1>1
<1>3. QED
  BY <1>1, <1>2, AllSound

\* What the folder commands do, action by action: one command goes on, or a request is served.
LEMMA FoldersStep ==
  ASSUME FoldersOK, Folders!Next
  PROVE  \E p \in Processes :
           \/ /\ \E c : SoundIn(boxes, c) /\ cmd' = [cmd EXCEPT ![p] = c]
                        /\ (Folders!Made(p) => kind # "graph")
              /\ UNCHANGED <<kind, boxes, last_id>>
           \/ \E lost \in BOOLEAN : Folders!Set(p, lost)
<1>1. /\ last_id \in Nat /\ DOMAIN boxes \subseteq 1 .. last_id /\ DOMAIN cmd = Processes
      /\ \A q \in Processes : SoundIn(boxes, cmd[q])
  BY AllSound
<1>2. PICK p \in Processes :
         \/ \E path \in FolderPaths :
               \/ Folders!CreateFolder(p, path) \/ Folders!DeleteFolder(p, path)
               \/ Folders!SubscribeFolder(p, path)
               \/ \E to \in FolderPaths : Folders!RenameFolder(p, path, to)
         \/ Folders!Retry(p) \/ Folders!List(p) \/ Folders!RequestLost(p)
         \/ \E lost \in BOOLEAN : Folders!Set(p, lost)
  BY DEF Folders!Next
<1> DEFINE Goes(c) == SoundIn(boxes, c) /\ cmd' = [cmd EXCEPT ![p] = c] /\ (Folders!Made(p) => kind # "graph")
           Stays == UNCHANGED <<kind, boxes, last_id>>
<1>3. ASSUME kind = "graph", Folders!Made(p) PROVE cmd[p].step = "set" /\ cmd'[p] = Folders!Idle /\ Folders!Making(p)
  BY <1>1, <1>3 DEF SoundIn, Folders!Made, Folders!Making
<1>4. ASSUME NEW doing, Folders!Begin(p, doing), SoundIn(boxes, doing)
      PROVE  Goes(doing) /\ Stays
  BY <1>3, <1>4 DEF Folders!Begin
<1>5. CASE \E path \in FolderPaths : Folders!CreateFolder(p, path)
  BY <1>4, <1>5, FreshAreSound DEF Folders!CreateFolder
<1>6. ASSUME NEW doing, doing.step = "list", doing.op # "create", DOMAIN doing = Folders!CommandFields
      PROVE  SoundIn(boxes, doing)
  BY <1>6 DEF SoundIn, Folders!Aims
<1>7. CASE \E path \in FolderPaths : Folders!DeleteFolder(p, path)
  <2>1. PICK path \in FolderPaths : Folders!DeleteFolder(p, path)
    BY <1>7
  <2> DEFINE doing == [Folders!Idle EXCEPT !.step = "list", !.op = "delete", !.path = path]
  <2>2. doing.step = "list" /\ doing.op # "create" /\ DOMAIN doing = Folders!CommandFields
    BY DEF Folders!Idle, Folders!CommandFields
  <2>3. Folders!Begin(p, doing)
    BY <2>1 DEF Folders!DeleteFolder
  <2>4. QED
    BY <1>4, <1>6, <2>2, <2>3
<1>8. CASE \E path \in FolderPaths : Folders!SubscribeFolder(p, path)
  <2>1. PICK path \in FolderPaths : Folders!SubscribeFolder(p, path)
    BY <1>8
  <2> DEFINE doing == [Folders!Idle EXCEPT !.step = "list", !.op = "subscribe", !.path = path]
  <2>2. doing.step = "list" /\ doing.op # "create" /\ DOMAIN doing = Folders!CommandFields
    BY DEF Folders!Idle, Folders!CommandFields
  <2>3. Folders!Begin(p, doing)
    BY <2>1 DEF Folders!SubscribeFolder
  <2>4. QED
    BY <1>4, <1>6, <2>2, <2>3
<1>9. CASE \E path \in FolderPaths, to \in FolderPaths : Folders!RenameFolder(p, path, to)
  <2>1. PICK path \in FolderPaths, to \in FolderPaths : Folders!RenameFolder(p, path, to)
    BY <1>9
  <2> DEFINE doing == [Folders!Idle EXCEPT !.step = "list", !.op = "rename", !.path = path, !.to = to]
  <2>2. doing.step = "list" /\ doing.op # "create" /\ DOMAIN doing = Folders!CommandFields
    BY DEF Folders!Idle, Folders!CommandFields
  <2>3. Folders!Begin(p, doing)
    BY <2>1 DEF Folders!RenameFolder
  <2>4. QED
    BY <1>4, <1>6, <2>2, <2>3
<1>10. CASE Folders!Retry(p)
  <2> DEFINE path == cmd[p].path
             next == IF Folders!Called(boxes, path) # {} THEN Folders!Idle ELSE Folders!Creation(path)
  <2>1. cmd' = [cmd EXCEPT ![p] = next] /\ cmd[p].step = "failed" /\ Stays
    BY <1>1, <1>10 DEF Folders!Retry
  <2>2. SoundIn(boxes, next)
    BY FreshAreSound
  <2>3. QED
    BY <1>3, <2>1, <2>2
<1>11. CASE Folders!List(p)
  <2> DEFINE c == cmd[p]
             found == Folders!Descend(boxes, c.rest)
             target == IF kind = "jmap" THEN Folders!ResolveMailbox(boxes, c.path)
                       ELSE Folders!ResolveFolderId(boxes, c.path)
             next == IF c.op = "create"
                     THEN IF found.rest = <<>> THEN Folders!Idle
                          ELSE [c EXCEPT !.step = "set", !.parent = found.parent, !.rest = found.rest]
                     ELSE IF target = Folders!None THEN Folders!Idle
                          ELSE [c EXCEPT !.step = "set", !.target = target]
  <2>1. c.step = "list" /\ cmd' = [cmd EXCEPT ![p] = next] /\ Stays
    BY <1>1, <1>11 DEF Folders!List
  <2>2. SoundIn(boxes, c)
    BY <1>1
  <2> HIDE DEF c, found, target
  <2>3. SoundIn(boxes, next)
    <3>1. CASE next = Folders!Idle
      BY <3>1, FreshAreSound
    <3>2. CASE c.op = "create" /\ found.rest # <<>>
      <4>1. kind # "graph"
        BY <2>1, <2>2, <3>2 DEF SoundIn
      <4>2. next = [c EXCEPT !.step = "set", !.parent = found.parent, !.rest = found.rest]
        BY <3>2
      <4>3. DOMAIN next = DOMAIN c /\ next.op = c.op
        BY <2>2, <4>2 DEF SoundIn, Folders!CommandFields
      <4>4. QED
        BY <2>2, <3>2, <4>1, <4>3 DEF SoundIn, Folders!Aims
    <3>3. CASE c.op # "create" /\ target # Folders!None
      <4>1. next = [c EXCEPT !.step = "set", !.target = target]
        BY <3>3
      <4>2. DOMAIN next = DOMAIN c /\ next.op = c.op /\ next.path = c.path /\ next.target = target
        BY <2>2, <4>1 DEF SoundIn, Folders!CommandFields
      <4>3. target \in Folders!NamedBy(boxes, c.path)
        BY <1>1, <3>3, ListingAims DEF target
      <4>4. QED
        BY <2>2, <3>3, <4>2, <4>3 DEF SoundIn, Folders!Aims
    <3>4. QED
      BY <3>1, <3>2, <3>3
  <2>4. QED
    BY <1>3, <2>1, <2>3 DEF c
<1>12. CASE Folders!RequestLost(p)
  <2>1. cmd' = [cmd EXCEPT ![p] = Folders!Failed(cmd[p])] /\ Stays
    BY <1>1, <1>12 DEF Folders!RequestLost
  <2>2. SoundIn(boxes, Folders!Failed(cmd[p])) /\ (Folders!Making(p) => Folders!Failed(cmd[p]).op = "create")
    BY <1>1, FailedIsSound DEF Folders!Making
  <2>3. Folders!Made(p) => kind # "graph"
    BY <1>1, <1>3, <2>1, <2>2, IdleFields
  <2>4. QED
    BY <2>1, <2>2, <2>3
<1>13. QED
  BY <1>2, <1>5, <1>7, <1>8, <1>9, <1>10, <1>11, <1>12

LEMMA SetSettled ==
  ASSUME FoldersOK, NEW p \in Processes, NEW lost \in BOOLEAN, Folders!Set(p, lost)
  PROVE  /\ FoldersOK'
         /\ Folders!TouchesOnlyTheNamed
         /\ kind = "graph" => Folders!CreationsStand
<1> DEFINE c == cmd[p]
           after == Folders!Served(c)
           changed == after # boxes
           ends == Folders!Answered(c, changed /\ ~lost)
           news == IF DOMAIN boxes \subseteq DOMAIN after /\ c.op # "rename" THEN "made" ELSE "moved"
<1>1. /\ last_id \in Nat /\ DOMAIN boxes \subseteq 1 .. last_id /\ DOMAIN cmd = Processes
      /\ \A q \in Processes : SoundIn(boxes, cmd[q])
  BY AllSound
<1>2. /\ c.step = "set" /\ boxes' = after /\ kind' = kind
      /\ last_id' = IF DOMAIN after \ DOMAIN boxes # {} THEN last_id + 1 ELSE last_id
  BY DEF Folders!Set
<1>3. cmd' = [q \in Processes |->
                IF q = p THEN ends
                ELSE IF changed /\ cmd[q].step \in {"list", "set"}
                     THEN [cmd[q] EXCEPT !.meanwhile = @ \cup {news}]
                     ELSE cmd[q]]
  BY DEF Folders!Set
<1>4. /\ DOMAIN after \subseteq DOMAIN boxes \cup {last_id + 1}
      /\ \A m \in DOMAIN boxes :
            (c.op = "create" \/ m # c.target) => m \in DOMAIN after /\ after[m] = boxes[m]
  BY ServedTouches DEF FoldersOK
<1>5. /\ \A bx : SoundIn(bx, c) => SoundIn(bx, ends)
      /\ ~Folders!Aims(ends)
      /\ ~(changed /\ ~lost) /\ c.op = "create" => ends.op = "create"
  <2>1. (changed /\ ~lost) \in BOOLEAN
    OBVIOUS
  <2>2. SoundIn(boxes, c)
    BY <1>1
  <2> HIDE DEF c, changed
  <2>3. QED
    BY <2>1, <2>2, AnsweredIsSound
<1> HIDE DEF c, after, changed, ends, news
<1>6. ASSUME NEW q \in Processes
      PROVE  SoundIn(boxes', cmd'[q])
  <2>1. CASE ~changed
    <3>1. boxes' = boxes
      BY <1>2, <2>1 DEF changed
    <3>2. cmd'[q] = IF q = p THEN ends ELSE cmd[q]
      BY <1>3, <2>1
    <3>3. SoundIn(boxes, ends)
      BY <1>1, <1>5 DEF c
    <3>4. QED
      BY <1>1, <3>1, <3>2, <3>3
  <2>2. CASE q = p
    <3>1. SoundIn(boxes, ends)
      BY <1>1, <1>5 DEF c
    <3>2. SoundIn(boxes', ends)
      BY <1>5, <3>1 DEF SoundIn
    <3>3. QED
      BY <1>3, <2>2, <3>2
  <2>3. CASE changed /\ q # p /\ cmd[q].step \in {"list", "set"}
    <3>1. cmd'[q] = [cmd[q] EXCEPT !.meanwhile = @ \cup {news}]
      BY <1>3, <2>3
    <3>2. SoundIn(boxes, cmd[q])
      BY <1>1
    <3>3. cmd'[q].meanwhile # {}
      BY <3>1, <3>2 DEF SoundIn, Folders!CommandFields
    <3>4. /\ DOMAIN cmd'[q] = DOMAIN cmd[q] /\ cmd'[q].step = cmd[q].step /\ cmd'[q].op = cmd[q].op
          /\ cmd'[q].path = cmd[q].path /\ cmd'[q].parent = cmd[q].parent /\ cmd'[q].rest = cmd[q].rest
      BY <3>1, <3>2 DEF SoundIn, Folders!CommandFields
    <3>5. QED
      BY <3>2, <3>3, <3>4 DEF SoundIn
  <2>4. CASE changed /\ q # p /\ cmd[q].step \notin {"list", "set"}
    <3>1. cmd'[q] = cmd[q]
      BY <1>3, <2>4
    <3>2. SoundIn(boxes, cmd[q]) /\ ~Folders!Aims(cmd[q])
      BY <1>1, <2>4 DEF Folders!Aims
    <3>3. QED
      BY <3>1, <3>2 DEF SoundIn
  <2>5. QED
    BY <2>1, <2>2, <2>3, <2>4
<1>7. FoldersOK'
  <2>1. last_id' \in Nat /\ DOMAIN boxes' \subseteq 1 .. last_id'
    BY <1>1, <1>2, <1>4
  <2>2. DOMAIN cmd' = Processes
    BY <1>3
  <2>3. QED
    BY <1>2, <1>6, <2>1, <2>2, AllSound
<1>8. Folders!TouchesOnlyTheNamed
  <2>1. SUFFICES ASSUME NEW m \in Folders!Touched PROVE Folders!TouchesTheNamed(p, m)
    BY DEF Folders!TouchesOnlyTheNamed
  <2>2. m \in DOMAIN boxes /\ (m \notin DOMAIN after \/ after[m] # boxes[m])
    BY <1>2 DEF Folders!Touched
  <2>3. c.op # "create" /\ m = c.target
    BY <1>4, <2>2
  <2>4. cmd'[p] # c
    BY <1>2, <1>3, <1>5, <2>3 DEF Folders!Aims
  <2>5. m \in Folders!NamedBy(boxes, c.path) \/ c.meanwhile # {}
    BY <1>1, <1>2, <2>3 DEF c, SoundIn, Folders!Aims
  <2>6. QED
    BY <1>2, <2>3, <2>4, <2>5 DEF c, Folders!TouchesTheNamed
<1>9. ASSUME kind = "graph", NEW q \in Processes, Folders!Made(q)
      PROVE  Folders!Called(boxes', cmd[q].path) # {}
  <2>1. Folders!Making(q) /\ cmd'[q] = Folders!Idle
    BY <1>9 DEF Folders!Made
  <2>2. q = p
    <3>1. SUFFICES ASSUME q # p PROVE FALSE
      OBVIOUS
    <3>2. DOMAIN cmd[q] = Folders!CommandFields
      BY <1>1 DEF SoundIn
    <3>3. cmd'[q].op = cmd[q].op
      BY <1>3, <3>1, <3>2 DEF Folders!CommandFields
    <3>4. QED
      BY <2>1, <3>3, IdleFields DEF Folders!Making
  <2>3. c.op = "create" /\ changed
    BY <1>3, <1>5, <2>1, <2>2, IdleFields DEF c, Folders!Making
  <2>4. c.parent = Folders!None /\ c.rest = <<c.path>>
    BY <1>1, <1>9, <2>3 DEF c, SoundIn
  <2>5. after = Folders!Created(c)
    BY <2>3 DEF after, Folders!Served
  <2> DEFINE new == last_id + 1
             box == Folders!Box(Head(c.rest), c.parent, Folders!NoPath)
  <2>6. /\ DOMAIN after = DOMAIN boxes \cup {new}
        /\ \A m \in DOMAIN after : after[m] = IF m \in DOMAIN boxes THEN boxes[m] ELSE box
    BY <2>3, <2>5 DEF changed, Folders!Created
  <2>7. new \notin DOMAIN boxes
    BY <1>1
  <2>8. boxes'[new].name = c.path /\ new \in DOMAIN boxes'
    BY <1>2, <2>4, <2>6, <2>7 DEF Folders!Box
  <2>9. Folders!Listed(boxes') = [m \in DOMAIN boxes' |-> boxes'[m].name]
    BY <1>9 DEF Folders!Listed
  <2>10. Folders!Same(Folders!Listed(boxes')[new], c.path)
    BY <2>8, <2>9 DEF Folders!Same
  <2>11. new \in Folders!Called(boxes', c.path)
    BY <2>8, <2>10 DEF Folders!Called
  <2>12. QED
    BY <2>2, <2>11 DEF c
<1>10. QED
  BY <1>7, <1>8, <1>9 DEF Folders!CreationsStand

LEMMA FoldersKept ==
  ASSUME FoldersOK, Folders!Next
  PROVE  /\ FoldersOK'
         /\ Folders!TouchesOnlyTheNamed
         /\ kind = "graph" => Folders!CreationsStand
<1>1. PICK p \in Processes :
           \/ /\ \E c : SoundIn(boxes, c) /\ cmd' = [cmd EXCEPT ![p] = c]
                        /\ (Folders!Made(p) => kind # "graph")
              /\ UNCHANGED <<kind, boxes, last_id>>
           \/ \E lost \in BOOLEAN : Folders!Set(p, lost)
  BY FoldersStep
<1>2. ASSUME NEW c, SoundIn(boxes, c), cmd' = [cmd EXCEPT ![p] = c],
             Folders!Made(p) => kind # "graph", UNCHANGED <<kind, boxes, last_id>>
      PROVE  /\ FoldersOK'
             /\ Folders!TouchesOnlyTheNamed
             /\ kind = "graph" => Folders!CreationsStand
  <2>1. FoldersOK'
    BY <1>2, OneGoesOn
  <2>2. Folders!TouchesOnlyTheNamed
    BY <1>2 DEF Folders!TouchesOnlyTheNamed, Folders!Touched
  <2>3. ASSUME kind = "graph", NEW q \in Processes, Folders!Made(q), q # p PROVE FALSE
    <3>1. cmd'[q] = cmd[q]
      BY <1>2, <2>3, AllSound
    <3>2. QED
      BY <2>3, <3>1, IdleFields DEF Folders!Made, Folders!Making
  <2>4. kind = "graph" => Folders!CreationsStand
    BY <1>2, <2>3 DEF Folders!CreationsStand
  <2>5. QED
    BY <2>1, <2>2, <2>4
<1>3. QED
  BY <1>1, <1>2, SetSettled

LEMMA FoldersAtRest ==
  ASSUME FoldersOK, UNCHANGED folderVars
  PROVE  FoldersOK' /\ Folders!TouchesOnlyTheNamed /\ (kind = "graph" => Folders!CreationsStand)
<1>1. FoldersOK'
  BY DEF folderVars, FoldersOK, Folders!FolderTypes, Folders!AimInv, Folders!GraphInv, Folders!Making,
         Folders!Aims, Folders!NamedBy, Folders!Called, Folders!Listed
<1>2. Folders!TouchesOnlyTheNamed
  BY DEF folderVars, Folders!TouchesOnlyTheNamed, Folders!Touched
<1>3. Folders!CreationsStand
  BY IdleFields DEF folderVars, Folders!CreationsStand, Folders!Made, Folders!Making
<1>4. QED
  BY <1>1, <1>2, <1>3

\* Whatever the other processes and the server do, a command that removes, renames or
\* subscribes folders touches one that the user's path names when the request is served, or
\* the folders changed between the listing and the request.
THEOREM OnlyTheNamedAreTouched == CommandsSpec => [][Folders!TouchesOnlyTheNamed]_allVars
<1>1. CommandsInit => FoldersOK
  BY FoldersStart DEF CommandsInit
<1>2. FoldersOK /\ [CommandsNext]_allVars => FoldersOK' /\ [Folders!TouchesOnlyTheNamed]_allVars
  <2>1. SUFFICES ASSUME FoldersOK, CommandsNext \/ UNCHANGED allVars
                 PROVE  FoldersOK' /\ (Folders!TouchesOnlyTheNamed \/ UNCHANGED allVars)
    OBVIOUS
  <2>2. CASE Folders!Next
    BY <2>1, <2>2, FoldersKept
  <2>3. CASE UNCHANGED folderVars
    BY <2>1, <2>3, FoldersAtRest
  <2>4. QED
    BY <2>1, <2>2, <2>3 DEF CommandsNext, allVars
<1>3. QED
  BY <1>1, <1>2, PTL DEF CommandsSpec

\* On Graph, where the name that is sent is the path, a creation that ends without an error
\* leaves the folder there.
THEOREM GraphCreationsStand == CommandsSpec => [][kind = "graph" => Folders!CreationsStand]_allVars
<1>1. CommandsInit => FoldersOK
  BY FoldersStart DEF CommandsInit
<1>2. FoldersOK /\ [CommandsNext]_allVars => FoldersOK' /\ [kind = "graph" => Folders!CreationsStand]_allVars
  <2>1. SUFFICES ASSUME FoldersOK, CommandsNext \/ UNCHANGED allVars
                 PROVE  FoldersOK' /\ ((kind = "graph" => Folders!CreationsStand) \/ UNCHANGED allVars)
    OBVIOUS
  <2>2. CASE Folders!Next
    BY <2>1, <2>2, FoldersKept
  <2>3. CASE UNCHANGED folderVars
    BY <2>1, <2>3, FoldersAtRest
  <2>4. QED
    BY <2>1, <2>2, <2>3 DEF CommandsNext, allVars
<1>3. QED
  BY <1>1, <1>2, PTL DEF CommandsSpec

-----------------------------------------------------------------------------
(* Import: a lone import adds to the folder *)

ImportOK == Copy!ImportTypes /\ Copy!AloneInv /\ Copy!ImportsAddInOrder

\* What the three say of the job j of process p, when the folder has the rows r.
JobOK(p, j, r) ==
    /\ j.n < j.uid /\ j.uid - 1 \in DOMAIN r \cup {0}
    /\ \A u \in DOMAIN j.before : u < j.uid - j.n /\ u \in DOMAIN r /\ r[u] = j.before[u]
    /\ \A n \in 1..j.n : /\ j.uid - j.n + n - 1 \in DOMAIN r
                         /\ r[j.uid - j.n + n - 1] = Copy!Row(j.messages[n], Copy!FlagsOf(j.messages[n]))

Counts(jobs) ==
    /\ DOMAIN jobs = Processes
    /\ \A p \in Processes : /\ DOMAIN jobs[p] = Copy!JobFields /\ jobs[p].at \in {"none", "running", "done"}
                           /\ jobs[p].n \in Nat /\ jobs[p].uid \in Nat

Apart(jobs) ==
    \A p \in Processes : jobs[p].at # "none" /\ jobs[p].alone =>
        \A q \in Processes : jobs[q].at = "running" /\ q # p =>
            jobs[p].at = "done" /\ jobs[p].uid <= jobs[q].uid

Adding(jobs, r) == \A p \in Processes : jobs[p].at # "none" /\ jobs[p].alone => JobOK(p, jobs[p], r)

Folder(all) ==
    /\ DOMAIN all = {"inbox", "copy"} /\ DOMAIN all["copy"] \subseteq Nat
    /\ Copy!IsFiniteSet(DOMAIN all["copy"])

LEMMA ImportParts ==
  ImportOK <=> Folder(stored) /\ Counts(import_job) /\ Apart(import_job) /\ Adding(import_job, stored["copy"])
<1>1. ImportOK => Folder(stored) /\ Counts(import_job)
  BY DEF ImportOK, Copy!ImportTypes, Copy!Uids, Folder, Counts
<1>2. Folder(stored) /\ Counts(import_job) => Copy!ImportTypes
  BY DEF Copy!ImportTypes, Copy!Uids, Folder, Counts
<1>3. Copy!AloneInv => Apart(import_job)
  BY DEF Copy!AloneInv, Apart, Copy!Running
<1>4. Copy!AloneInv /\ Copy!ImportsAddInOrder => Adding(import_job, stored["copy"])
  BY DEF Copy!AloneInv, Copy!ImportsAddInOrder, Copy!Uids, Adding, JobOK
<1>5. Apart(import_job) /\ Adding(import_job, stored["copy"]) => Copy!AloneInv
  BY DEF Copy!AloneInv, Copy!Uids, Copy!Running, Apart, Adding, JobOK
<1>6. Adding(import_job, stored["copy"]) => Copy!ImportsAddInOrder
  BY DEF Copy!ImportsAddInOrder, Copy!Uids, Adding, JobOK
<1>7. QED
  BY <1>1, <1>2, <1>3, <1>4, <1>5, <1>6 DEF ImportOK

LEMMA ImportPartsNext ==
  ImportOK' <=> Folder(stored') /\ Counts(import_job') /\ Apart(import_job') /\ Adding(import_job', stored'["copy"])
<1>1. ImportOK' => Folder(stored') /\ Counts(import_job')
  BY DEF ImportOK, Copy!ImportTypes, Copy!Uids, Folder, Counts
<1>2. Folder(stored') /\ Counts(import_job') => Copy!ImportTypes'
  BY DEF Copy!ImportTypes, Copy!Uids, Folder, Counts
<1>3. Copy!AloneInv' => Apart(import_job')
  BY DEF Copy!AloneInv, Apart, Copy!Running
<1>4. Copy!AloneInv' /\ Copy!ImportsAddInOrder' => Adding(import_job', stored'["copy"])
  BY DEF Copy!AloneInv, Copy!ImportsAddInOrder, Copy!Uids, Adding, JobOK
<1>5. Apart(import_job') /\ Adding(import_job', stored'["copy"]) => Copy!AloneInv'
  BY DEF Copy!AloneInv, Copy!Uids, Copy!Running, Apart, Adding, JobOK
<1>6. Adding(import_job', stored'["copy"]) => Copy!ImportsAddInOrder'
  BY DEF Copy!ImportsAddInOrder, Copy!Uids, Adding, JobOK
<1>7. QED
  BY <1>1, <1>2, <1>3, <1>4, <1>5, <1>6 DEF ImportOK

LEMMA CopyFinite == \A S : Copy!IsFiniteSet(S) <=> IsFiniteSet(S)
BY DEF Copy!IsFiniteSet, IsFiniteSet

\* The largest uid of a folder, or 0.
LEMMA LargestUid ==
  ASSUME NEW S, S \subseteq Nat, Copy!IsFiniteSet(S)
  PROVE  LET top == Copy!Max(S \cup {0})
         IN  top \in S \cup {0} /\ top \in Nat /\ \A u \in S : u <= top
<1> DEFINE T == S \cup {0}
<1>1. IsFiniteSet(T) /\ T \subseteq Nat /\ T # {}
  BY CopyFinite, FS_AddElement
<1> HIDE DEF T
<1>2. \E m \in T : \A n \in T : n <= m
  BY <1>1, MaxExists
<1>3. \E m \in T : \A n \in T : m >= n
  BY <1>1, <1>2
<1>4. Copy!Max(T) \in T /\ \A n \in T : Copy!Max(T) >= n
  BY <1>3 DEF Copy!Max
<1>5. QED
  BY <1>1, <1>4 DEF T

LEMMA ImportStarts ==
  ASSUME Copy!Init
  PROVE  ImportOK
<1>1. \A p \in Processes : import_job[p] = Copy!NoJob
  BY DEF Copy!Init
<1>2. DOMAIN import_job = Processes
  BY DEF Copy!Init
<1>3. Counts(import_job) /\ Apart(import_job) /\ Adding(import_job, stored["copy"])
  BY <1>1, <1>2 DEF Counts, Apart, Adding, Copy!NoJob, Copy!JobFields
<1>4. DOMAIN stored = {"inbox", "copy"} /\ stored["copy"] = <<>>
  BY DEF Copy!Init
<1>5. DOMAIN stored["copy"] = {}
  BY <1>4
<1>6. Folder(stored)
  BY <1>4, <1>5, CopyFinite, FS_EmptySet DEF Folder
<1>7. QED
  BY <1>3, <1>6, ImportParts

\* An import begins above all rows, and takes from the others that they are alone.
LEMMA StartImportKeeps ==
  ASSUME ImportOK, NEW p \in Processes, Copy!StartImport(p)
  PROVE  ImportOK'
<1> DEFINE r == stored["copy"]
           top == Copy!Max(DOMAIN r \cup {0})
           none == Copy!Running = {}
           new == [at |-> "running", messages |-> Copy!Split(mbox), n |-> 0, alone |-> none,
                   uid |-> top + 1, before |-> r, copied |-> copied]
           jobs == import_job'
<1>1. /\ Folder(stored) /\ Counts(import_job) /\ Apart(import_job) /\ Adding(import_job, r)
      /\ stored' = stored
  BY ImportParts DEF Copy!StartImport
<1>2. jobs = [q \in Processes |->
                IF q = p THEN new
                ELSE IF q \in Copy!Running THEN [import_job[q] EXCEPT !.alone = FALSE] ELSE import_job[q]]
  BY DEF Copy!StartImport, Copy!Uids
<1>3. top \in DOMAIN r \cup {0} /\ top \in Nat /\ \A u \in DOMAIN r : u <= top
  BY <1>1, LargestUid DEF Folder
<1> HIDE DEF top, none, jobs
<1>4. /\ jobs[p] = new
      /\ \A q \in Processes \ {p} :
            \/ jobs[q] = import_job[q] /\ import_job[q].at # "running"
            \/ /\ DOMAIN jobs[q] = Copy!JobFields /\ jobs[q].n = import_job[q].n
               /\ jobs[q].uid = import_job[q].uid /\ jobs[q].at = "running" /\ jobs[q].alone = FALSE
               /\ import_job[q].at = "running"
  <2>1. jobs[p] = new
    BY <1>2
  <2>2. ASSUME NEW q \in Processes \ {p}, q \notin Copy!Running
        PROVE  jobs[q] = import_job[q] /\ import_job[q].at # "running"
    BY <1>2, <2>2 DEF Copy!Running
  <2>3. ASSUME NEW q \in Processes \ {p}, q \in Copy!Running
        PROVE  /\ DOMAIN jobs[q] = Copy!JobFields /\ jobs[q].n = import_job[q].n
               /\ jobs[q].uid = import_job[q].uid /\ jobs[q].at = "running" /\ jobs[q].alone = FALSE
               /\ import_job[q].at = "running"
    <3>1. jobs[q] = [import_job[q] EXCEPT !.alone = FALSE]
      BY <1>2, <2>3
    <3>2. DOMAIN import_job[q] = Copy!JobFields /\ import_job[q].at = "running"
      BY <1>1, <2>3 DEF Counts, Copy!Running
    <3>3. QED
      BY <3>1, <3>2 DEF Copy!JobFields
  <2>4. QED
    BY <2>1, <2>2, <2>3
<1>5. Counts(jobs)
  <2>1. DOMAIN jobs = Processes
    BY <1>2
  <2>2. DOMAIN new = Copy!JobFields /\ new.at = "running" /\ new.n \in Nat /\ new.uid \in Nat
    BY <1>3 DEF Copy!JobFields
  <2> HIDE DEF new
  <2>3. QED
    BY <1>1, <1>4, <2>1, <2>2 DEF Counts
<1>6. /\ new.at = "running" /\ new.n = 0 /\ new.uid = top + 1 /\ new.before = r
      /\ new.alone = none
  OBVIOUS
<1> HIDE DEF new
<1>7. Adding(jobs, r)
  <2>1. JobOK(p, new, r)
    BY <1>1, <1>3, <1>6 DEF JobOK, Folder
  <2>2. ASSUME NEW q \in Processes \ {p}, jobs[q].at # "none", jobs[q].alone PROVE JobOK(q, jobs[q], r)
    BY <1>1, <1>4, <2>2 DEF Adding
  <2>3. QED
    BY <1>4, <2>1, <2>2 DEF Adding
<1>8. Apart(jobs)
  <2>1. SUFFICES ASSUME NEW a \in Processes, jobs[a].at # "none", jobs[a].alone,
                        NEW q \in Processes, jobs[q].at = "running", q # a
                 PROVE  jobs[a].at = "done" /\ jobs[a].uid <= jobs[q].uid
    BY DEF Apart
  <2>2. CASE a = p
    <3>1. none
      BY <1>4, <1>6, <2>1, <2>2
    <3>2. import_job[q].at = "running"
      BY <1>4, <2>1, <2>2
    <3>3. QED
      BY <3>1, <3>2 DEF none, Copy!Running
  <2>3. CASE a # p
    <3>1. jobs[a] = import_job[a] /\ import_job[a].at # "running"
      BY <1>4, <2>1, <2>3
    <3>2. CASE q = p
      <4>1. import_job[a].uid \in Nat /\ import_job[a].uid - 1 \in DOMAIN r \cup {0}
        BY <1>1, <2>1, <3>1 DEF Counts, Adding, JobOK
      <4>2. import_job[a].uid - 1 <= top
        BY <1>3, <4>1
      <4>3. jobs[q].uid = top + 1
        BY <1>4, <1>6, <3>2
      <4>4. jobs[a].uid <= jobs[q].uid
        BY <1>3, <3>1, <4>1, <4>2, <4>3
      <4>5. import_job[a].at = "done"
        BY <1>1, <2>1, <3>1 DEF Counts
      <4>6. QED
        BY <3>1, <4>4, <4>5
    <3>3. CASE q # p
      BY <1>1, <1>4, <2>1, <3>1, <3>3 DEF Apart
    <3>4. QED
      BY <3>2, <3>3
  <2>4. QED
    BY <2>2, <2>3
<1>9. QED
  BY <1>1, <1>5, <1>7, <1>8, ImportPartsNext DEF jobs

LEMMA ImportOneKeeps ==
  ASSUME ImportOK, NEW p \in Processes, Copy!ImportOne(p)
  PROVE  ImportOK'
<1> DEFINE r == stored["copy"]
           j == import_job[p]
           raw == j.messages[j.n + 1]
           row == Copy!Row(raw, Copy!FlagsOf(raw))
           next == [j EXCEPT !.n = j.n + 1, !.uid = j.uid + 1]
           jobs == import_job'
           after == stored'["copy"]
<1>1. /\ Folder(stored) /\ Counts(import_job) /\ Apart(import_job) /\ Adding(import_job, r)
      /\ j.at = "running" /\ j.n \in Nat /\ j.uid \in Nat /\ DOMAIN j = Copy!JobFields
  BY ImportParts DEF Copy!ImportOne, Copy!Running, Counts
<1>2. /\ after = [u \in DOMAIN r \cup {j.uid} |-> IF u = j.uid THEN row ELSE r[u]]
      /\ DOMAIN stored' = {"inbox", "copy"}
  <2>1. stored' = [stored EXCEPT !["copy"] =
                     [u \in DOMAIN r \cup {j.uid} |-> IF u = j.uid THEN row ELSE r[u]]]
    BY DEF Copy!ImportOne, Copy!Uids
  <2> HIDE DEF r, j, row
  <2>2. DOMAIN stored = {"inbox", "copy"}
    BY <1>1 DEF Folder
  <2>3. QED
    BY <2>1, <2>2
<1>3. jobs = [import_job EXCEPT ![p] = next]
  BY DEF Copy!ImportOne
<1>4. /\ next.at = "running" /\ next.n = j.n + 1 /\ next.uid = j.uid + 1 /\ DOMAIN next = Copy!JobFields
      /\ next.alone = j.alone /\ next.before = j.before /\ next.messages = j.messages
  <2> HIDE DEF j
  <2>1. QED
    BY <1>1 DEF Copy!JobFields
<1> HIDE DEF next
<1>5. jobs[p] = next /\ DOMAIN jobs = Processes /\ \A q \in Processes \ {p} : jobs[q] = import_job[q]
  BY <1>1, <1>3 DEF Counts
<1> HIDE DEF jobs, after, r, j, row
<1>6. Counts(jobs)
  BY <1>1, <1>4, <1>5 DEF Counts
<1>7. Apart(jobs)
  <2>1. SUFFICES ASSUME NEW a \in Processes, jobs[a].at # "none", jobs[a].alone,
                        NEW q \in Processes, jobs[q].at = "running", q # a
                 PROVE  jobs[a].at = "done" /\ jobs[a].uid <= jobs[q].uid
    BY DEF Apart
  <2>2. import_job[a].at = "done" /\ import_job[a].uid <= import_job[q].uid
    BY <1>1, <1>4, <1>5, <2>1 DEF Apart, j
  <2>3. a # p
    BY <1>1, <2>2 DEF j
  <2>4. import_job[a].uid \in Nat /\ import_job[q].uid \in Nat
    BY <1>1 DEF Counts
  <2>5. jobs[q].uid \in {import_job[q].uid, import_job[q].uid + 1}
    BY <1>4, <1>5 DEF j
  <2>6. QED
    BY <1>5, <2>2, <2>3, <2>4, <2>5
<1>8. Adding(jobs, after)
  <2>1. ASSUME next.alone PROVE JobOK(p, next, after)
    <3>1. JobOK(p, j, r)
      BY <1>1, <1>4, <2>1 DEF Adding, j
    <3>2. next.n < next.uid /\ next.uid - 1 \in DOMAIN after /\ next.uid - next.n = j.uid - j.n
      BY <1>1, <1>2, <1>4, <3>1 DEF JobOK
    <3>3. \A u \in DOMAIN r : u # j.uid => u \in DOMAIN after /\ after[u] = r[u]
      BY <1>2
    <3>4. DOMAIN r \subseteq Nat
      BY <1>1 DEF Folder, r
    <3>5. \A u \in DOMAIN next.before : u < next.uid - next.n /\ u \in DOMAIN after /\ after[u] = next.before[u]
      <4>1. SUFFICES ASSUME NEW u \in DOMAIN j.before
                     PROVE  u < j.uid - j.n /\ u \in DOMAIN after /\ after[u] = j.before[u]
        BY <1>4, <3>2
      <4>2. u < j.uid - j.n /\ u \in DOMAIN r /\ r[u] = j.before[u]
        BY <3>1 DEF JobOK
      <4>3. u # j.uid
        BY <1>1, <3>4, <4>2
      <4>4. QED
        BY <3>3, <4>2, <4>3
    <3>6. ASSUME NEW n \in 1..next.n
          PROVE  /\ next.uid - next.n + n - 1 \in DOMAIN after
                 /\ after[next.uid - next.n + n - 1] = Copy!Row(next.messages[n], Copy!FlagsOf(next.messages[n]))
      <4> DEFINE at == j.uid - j.n + n - 1
      <4>1. next.uid - next.n + n - 1 = at /\ n \in Nat
        BY <1>1, <1>4, <3>2
      <4>2. CASE n = j.n + 1
        <5>1. at = j.uid
          BY <1>1, <4>2
        <5>2. at \in DOMAIN after /\ after[at] = row
          BY <1>2, <5>1
        <5>3. QED
          BY <1>4, <4>1, <4>2, <5>2 DEF row
      <4>3. CASE n # j.n + 1
        <5>1. n \in 1..j.n
          BY <1>1, <1>4, <4>3
        <5>2. at \in DOMAIN r /\ r[at] = Copy!Row(j.messages[n], Copy!FlagsOf(j.messages[n]))
          BY <3>1, <5>1 DEF JobOK
        <5>3. at # j.uid
          BY <1>1, <5>1
        <5> HIDE DEF at
        <5>4. QED
          BY <1>4, <3>3, <4>1, <5>2, <5>3
      <4>4. QED
        BY <4>2, <4>3
    <3>7. QED
      BY <3>2, <3>5, <3>6 DEF JobOK
  <2>2. ASSUME NEW q \in Processes \ {p}, import_job[q].at # "none", import_job[q].alone
        PROVE  JobOK(q, import_job[q], after)
    <3> DEFINE k == import_job[q]
    <3>1. JobOK(q, k, r)
      BY <1>1, <2>2 DEF Adding
    <3>2. k.uid <= j.uid /\ k.uid \in Nat /\ k.n \in Nat
      BY <1>1, <2>2 DEF Apart, Counts, j
    <3> HIDE DEF k
    <3>3. \A u \in DOMAIN r : u # j.uid => u \in DOMAIN after /\ after[u] = r[u]
      BY <1>2
    <3>4. DOMAIN r \subseteq Nat
      BY <1>1 DEF Folder, r
    <3>5. k.n < k.uid /\ k.uid - 1 \in DOMAIN after \cup {0}
      BY <1>2, <3>1 DEF JobOK
    <3>6. \A u \in DOMAIN k.before : u < k.uid - k.n /\ u \in DOMAIN after /\ after[u] = k.before[u]
      <4>1. TAKE u \in DOMAIN k.before
      <4>2. u < k.uid - k.n /\ u \in DOMAIN r /\ r[u] = k.before[u]
        BY <3>1 DEF JobOK
      <4>3. u # j.uid
        BY <1>1, <3>2, <3>4, <4>2
      <4>4. QED
        BY <3>3, <4>2, <4>3
    <3>7. ASSUME NEW n \in 1..k.n
          PROVE  /\ k.uid - k.n + n - 1 \in DOMAIN after
                 /\ after[k.uid - k.n + n - 1] = Copy!Row(k.messages[n], Copy!FlagsOf(k.messages[n]))
      <4> DEFINE at == k.uid - k.n + n - 1
      <4>1. at \in DOMAIN r /\ r[at] = Copy!Row(k.messages[n], Copy!FlagsOf(k.messages[n]))
        BY <3>1 DEF JobOK
      <4>2. at # j.uid
        BY <1>1, <3>2
      <4> HIDE DEF at
      <4>3. at \in DOMAIN after /\ after[at] = r[at]
        BY <3>3, <4>1, <4>2
      <4>4. QED
        BY <4>1, <4>3 DEF at
    <3>8. QED
      BY <3>5, <3>6, <3>7 DEF JobOK, k
  <2>3. QED
    BY <1>1, <1>4, <1>5, <2>1, <2>2 DEF Adding
<1>9. Folder(stored')
  <2>1. DOMAIN r \subseteq Nat /\ IsFiniteSet(DOMAIN r)
    BY <1>1, CopyFinite DEF Folder, r
  <2>2. DOMAIN after = DOMAIN r \cup {j.uid}
    BY <1>2
  <2>3. DOMAIN after \subseteq Nat /\ IsFiniteSet(DOMAIN after)
    BY <1>1, <2>1, <2>2, FS_AddElement
  <2>4. QED
    BY <1>2, <2>3, CopyFinite DEF Folder, after
<1>10. QED
  BY <1>6, <1>7, <1>8, <1>9, ImportPartsNext DEF jobs, after

\* An import that comes to its end or is killed, and an export, change no row.
LEMMA OthersKeep ==
  ASSUME ImportOK, stored' = stored,
         \/ import_job' = import_job
         \/ \E p \in Processes : Copy!EndImport(p) \/ Copy!Kill(p)
  PROVE  ImportOK'
<1> DEFINE jobs == import_job'
           r == stored["copy"]
<1>1. Folder(stored) /\ Counts(import_job) /\ Apart(import_job) /\ Adding(import_job, r)
  BY ImportParts
<1>2. CASE import_job' = import_job
  BY <1>1, <1>2, ImportPartsNext
<1>3. ASSUME NEW p \in Processes, NEW end, import_job[p].at = "running", jobs = [import_job EXCEPT ![p] = end],
             DOMAIN end = Copy!JobFields, end.n \in Nat, end.uid \in Nat,
             \/ end.at = "none"
             \/ /\ end.at = "done" /\ end.alone = import_job[p].alone /\ end.n = import_job[p].n
                /\ end.uid = import_job[p].uid /\ end.before = import_job[p].before
                /\ end.messages = import_job[p].messages
      PROVE  Counts(jobs) /\ Apart(jobs) /\ Adding(jobs, r)
  <2>1. jobs[p] = end /\ DOMAIN jobs = Processes /\ \A q \in Processes \ {p} : jobs[q] = import_job[q]
    BY <1>1, <1>3 DEF Counts
  <2> HIDE DEF jobs, r
  <2>2. Counts(jobs)
    BY <1>1, <1>3, <2>1 DEF Counts
  <2>3. Apart(jobs)
    BY <1>1, <1>3, <2>1 DEF Apart
  <2>4. Adding(jobs, r)
    BY <1>1, <1>3, <2>1 DEF Adding, JobOK
  <2>5. QED
    BY <2>2, <2>3, <2>4
<1>4. ASSUME NEW p \in Processes, Copy!EndImport(p)
      PROVE  Counts(jobs) /\ Apart(jobs) /\ Adding(jobs, r)
  <2> DEFINE j == import_job[p]
             end == [j EXCEPT !.at = "done"]
  <2>1. j.at = "running" /\ jobs = [import_job EXCEPT ![p] = end]
    BY <1>4 DEF Copy!EndImport, Copy!Running
  <2>2. DOMAIN j = Copy!JobFields /\ j.n \in Nat /\ j.uid \in Nat
    BY <1>1 DEF Counts
  <2>3. /\ DOMAIN end = Copy!JobFields /\ end.at = "done" /\ end.alone = j.alone /\ end.n = j.n
        /\ end.uid = j.uid /\ end.before = j.before /\ end.messages = j.messages
    <3> HIDE DEF j
    <3>1. QED
      BY <2>2 DEF Copy!JobFields
  <2> HIDE DEF end, jobs
  <2>4. QED
    BY <1>3, <2>1, <2>2, <2>3
<1>5. ASSUME NEW p \in Processes, Copy!Kill(p)
      PROVE  Counts(jobs) /\ Apart(jobs) /\ Adding(jobs, r)
  <2>1. import_job[p].at = "running" /\ jobs = [import_job EXCEPT ![p] = Copy!NoJob]
    BY <1>5 DEF Copy!Kill, Copy!Running
  <2>2. /\ DOMAIN Copy!NoJob = Copy!JobFields /\ Copy!NoJob.at = "none"
        /\ Copy!NoJob.n \in Nat /\ Copy!NoJob.uid \in Nat
    BY DEF Copy!NoJob, Copy!JobFields
  <2> HIDE DEF jobs
  <2>3. QED
    BY <1>3, <2>1, <2>2
<1>6. QED
  BY <1>1, <1>2, <1>4, <1>5, ImportPartsNext

LEMMA ImportKept ==
  ASSUME ImportOK, [CommandsNext]_allVars
  PROVE  ImportOK'
<1>1. CASE Copy!Next
  <2>1. CASE \E f \in {"inbox", "copy"} : Copy!Export(f)
    BY <2>1, OthersKeep DEF Copy!Export
  <2>2. ASSUME NEW p \in Processes,
               Copy!StartImport(p) \/ Copy!ImportOne(p) \/ Copy!EndImport(p) \/ Copy!Kill(p)
        PROVE  ImportOK'
    <3>1. CASE Copy!StartImport(p)
      BY <3>1, StartImportKeeps
    <3>2. CASE Copy!ImportOne(p)
      BY <3>2, ImportOneKeeps
    <3>3. CASE Copy!EndImport(p) \/ Copy!Kill(p)
      BY <3>3, OthersKeep DEF Copy!EndImport, Copy!Kill
    <3>4. QED
      BY <2>2, <3>1, <3>2, <3>3
  <2>3. QED
    BY <1>1, <2>1, <2>2 DEF Copy!Next
<1>2. CASE UNCHANGED copyVars
  BY <1>2, OthersKeep DEF copyVars
<1>3. QED
  BY <1>1, <1>2 DEF CommandsNext, allVars

\* Whatever was killed before and whatever runs later, an import that has the folder to
\* itself keeps the rows that were there and adds the messages it takes, in their order.
THEOREM LoneImportsAdd == CommandsSpec => []Copy!ImportsAddInOrder
<1>1. CommandsInit => ImportOK
  BY ImportStarts DEF CommandsInit
<1>2. ImportOK /\ [CommandsNext]_allVars => ImportOK'
  BY ImportKept
<1>3. QED
  BY <1>1, <1>2, PTL DEF CommandsSpec, ImportOK

-----------------------------------------------------------------------------
(* Export and import: what is in the file comes back from it *)

Pieces == Copy!Pieces
Texts == Seq(Pieces)
Kept == {"seen", "flagged"}

LEMMA PieceFacts ==
  /\ Copy!Empty \in Pieces /\ Copy!Empty.kind = "empty"
  /\ \A flags \in SUBSET Kept : /\ Copy!Status(flags) \in Pieces /\ Copy!Status(flags).kind = "status"
                                /\ Copy!Status(flags).flags = flags
  /\ \A gt \in Nat : /\ Copy!From(gt) \in Pieces /\ Copy!From(gt).kind = "from"
                     /\ Copy!From(gt).gt = gt
  /\ \A piece \in Pieces : piece.kind = "from" => piece.gt \in Nat /\ piece = Copy!From(piece.gt)
BY DEF Pieces, Kept, Copy!Pieces, Copy!Empty, Copy!Status, Copy!From, Copy!Piece

\* The first n of a sequence, and one more.
LEMMA Prefixes ==
  ASSUME NEW S, NEW s \in Seq(S), NEW n \in 0..Len(s)
  PROVE  /\ SubSeq(s, 1, n) \in Seq(S) /\ Len(SubSeq(s, 1, n)) = n
         /\ \A i \in 1..n : SubSeq(s, 1, n)[i] = s[i]
         /\ n > 0 => SubSeq(s, 1, n) = Append(SubSeq(s, 1, n - 1), s[n])
<1>1. n \in Nat /\ Len(s) \in Nat /\ n <= Len(s)
  OBVIOUS
<1>2. /\ SubSeq(s, 1, n) \in Seq(S) /\ Len(SubSeq(s, 1, n)) = n
      /\ \A i \in 1..n : SubSeq(s, 1, n)[i] = s[i]
  BY <1>1
<1>3. ASSUME n > 0 PROVE SubSeq(s, 1, n) = Append(SubSeq(s, 1, n - 1), s[n])
  <2> DEFINE a == SubSeq(s, 1, n)
             b == SubSeq(s, 1, n - 1)
  <2>1. b \in Seq(S) /\ Len(b) = n - 1 /\ \A i \in 1..(n - 1) : b[i] = s[i]
    BY <1>1, <1>3
  <2>2. s[n] \in S
    BY <1>1, <1>3
  <2> HIDE DEF b
  <2>3. /\ Append(b, s[n]) \in Seq(S) /\ Len(Append(b, s[n])) = n
        /\ \A i \in 1..n : Append(b, s[n])[i] = s[i]
    BY <1>1, <1>3, <2>1, <2>2
  <2> HIDE DEF a
  <2>4. a = Append(b, s[n])
    BY <1>2, <2>3, SeqEqual DEF a
  <2>5. QED
    BY <2>4 DEF a, b
<1>4. QED
  BY <1>2, <1>3

\* What NoStatus keeps, piece by piece.
LEMMA KeptSteps ==
  ASSUME NEW s \in Texts
  PROVE  \E h \in [0..Len(s) -> Texts] :
            /\ h[0] = <<>> /\ Copy!NoStatus(s) = h[Len(s)]
            /\ \A i \in 1..Len(s) : h[i] = IF s[i].kind = "status" THEN h[i - 1] ELSE Append(h[i - 1], s[i])
<1> DEFINE n == Len(s)
           More(i, t) == IF s[i].kind = "status" THEN t ELSE Append(t, s[i])
           step == [i \in 1..n |-> [t \in Texts |-> More(i, t)]]
<1>1. n \in Nat /\ \A i \in 1..n : s[i] \in Pieces
  BY DEF Texts
<1>2. \A i \in 1..n, t \in Texts : More(i, t) \in Texts
  BY <1>1 DEF Texts
<1>3. \A i \in 1..n, t \in Texts : step[i][t] = More(i, t) /\ step[i][t] \in Texts
  BY <1>2
<1> HIDE DEF step, n
<1>4. PICK h \in [0..n -> Texts] : h[0] = <<>> /\ \A i \in 1..n : h[i] = step[i][h[i - 1]]
  <2>1. Solvable(n, Texts, <<>>, step)
    BY <1>1, Recursion
  <2>2. <<>> \in Texts
    BY DEF Texts
  <2>3. QED
    BY <1>3, <2>1, <2>2 DEF Solvable
<1>5. \A i \in 1..n : h[i] = More(i, h[i - 1])
  <2>1. \A i \in 1..n : i - 1 \in 0..n
    BY <1>1
  <2>2. QED
    BY <1>3, <1>4, <2>1
<1> DEFINE rec(g) == [i \in 0..n |-> IF i = 0 THEN <<>>
                                     ELSE IF s[i].kind = "status" THEN g[i - 1] ELSE Append(g[i - 1], s[i])]
           kept == CHOOSE g : g = rec(g)
<1>6. h = rec(h)
  <2>1. \A i \in 0..n : h[i] = IF i = 0 THEN <<>>
                               ELSE IF s[i].kind = "status" THEN h[i - 1] ELSE Append(h[i - 1], s[i])
    <3>1. \A i \in 0..n : i = 0 \/ i \in 1..n
      BY <1>1
    <3>2. QED
      BY <1>4, <1>5, <3>1
  <2>2. QED
    BY <2>1
<1>7. kept = rec(kept)
  BY <1>6
<1>8. Copy!NoStatus(s) = kept[n]
  BY DEF Copy!NoStatus, n
<1> HIDE DEF kept
<1>9. DOMAIN kept = 0..n /\ \A i \in 0..n : kept[i] = IF i = 0 THEN <<>> ELSE More(i, kept[i - 1])
  BY <1>7
<1>10. \A i \in 0..n : kept[i] \in Texts
  <2> DEFINE good == {i \in 0..n : kept[i] \in Texts}
  <2>1. 0 \in good
    <3>1. 0 \in 0..n
      BY <1>1
    <3>2. kept[0] = <<>>
      BY <1>9, <3>1
    <3>3. <<>> \in Texts
      BY DEF Texts
    <3>4. QED
      BY <3>1, <3>2, <3>3
  <2>2. ASSUME NEW i \in 1..n, i - 1 \in good PROVE i \in good
    <3>1. i \in 0..n /\ i # 0
      BY <1>1
    <3>2. kept[i] = More(i, kept[i - 1])
      BY <1>9, <3>1
    <3> HIDE DEF More
    <3>3. QED
      BY <1>2, <2>2, <3>1, <3>2
  <2> HIDE DEF good
  <2>3. \A i \in 0..n : i \in good
    BY <1>1, <2>1, <2>2, UpTo
  <2>4. QED
    BY <2>3 DEF good
<1>11. kept = [i \in 0..n |-> kept[i]]
  BY <1>7, <1>9
<1>12. kept \in [0..n -> Texts]
  BY <1>10, <1>11
<1>13. kept[0] = <<>> /\ \A i \in 1..n : kept[i] = More(i, kept[i - 1])
  <2>1. 0 \in 0..n /\ \A i \in 1..n : i \in 0..n /\ i # 0
    BY <1>1
  <2>2. QED
    BY <1>9, <2>1
<1>14. QED
  BY <1>8, <1>12, <1>13 DEF n

\* No piece is a status, and all are of the text.
LEMMA NoStatusFacts ==
  ASSUME NEW s \in Texts
  PROVE  /\ Copy!NoStatus(s) \in Texts
         /\ \A k \in 1..Len(Copy!NoStatus(s)) :
               \E l \in 1..Len(s) : Copy!NoStatus(s)[k] = s[l] /\ s[l].kind # "status"
<1> DEFINE n == Len(s)
<1>1. n \in Nat /\ \A i \in 1..n : s[i] \in Pieces
  BY DEF Texts
<1>2. PICK h \in [0..n -> Texts] :
         /\ h[0] = <<>> /\ Copy!NoStatus(s) = h[n]
         /\ \A i \in 1..n : h[i] = IF s[i].kind = "status" THEN h[i - 1] ELSE Append(h[i - 1], s[i])
  BY KeptSteps
<1> DEFINE good == {i \in 0..n : \A k \in 1..Len(h[i]) : \E l \in 1..n : h[i][k] = s[l] /\ s[l].kind # "status"}
<1> HIDE DEF n
<1>3. 0 \in good
  <2>1. 0 \in 0..n /\ h[0] = <<>> /\ 1..Len(<<>>) = {}
    BY <1>1, <1>2
  <2>2. QED
    BY <2>1
<1>4. ASSUME NEW i \in 1..n, i - 1 \in good PROVE i \in good
  <2> DEFINE t == h[i - 1]
  <2>1. i \in 0..n /\ i - 1 \in 0..n
    BY <1>1
  <2>2. t \in Texts /\ \A k \in 1..Len(t) : \E l \in 1..n : t[k] = s[l] /\ s[l].kind # "status"
    BY <1>2, <1>4, <2>1
  <2>3. h[i] = IF s[i].kind = "status" THEN t ELSE Append(t, s[i])
    BY <1>2
  <2> HIDE DEF t
  <2>4. CASE s[i].kind = "status"
    BY <2>1, <2>2, <2>3, <2>4
  <2>5. CASE s[i].kind # "status"
    <3>1. /\ Len(h[i]) = Len(t) + 1 /\ h[i][Len(t) + 1] = s[i] /\ Len(t) \in Nat
          /\ \A k \in 1..Len(t) : h[i][k] = t[k]
      BY <1>1, <2>2, <2>3, <2>5 DEF Texts
    <3>2. \A k \in 1..Len(h[i]) : k = Len(t) + 1 \/ k \in 1..Len(t)
      BY <3>1
    <3>3. QED
      BY <2>1, <2>2, <2>5, <3>1, <3>2
  <2>6. QED
    BY <2>4, <2>5
<1> HIDE DEF good
<1>5. \A i \in 0..n : i \in good
  BY <1>1, <1>3, <1>4, UpTo
<1>6. n \in 0..n
  BY <1>1
<1>7. QED
  BY <1>2, <1>5, <1>6 DEF good, n

\* A status behind a text that has none is dropped.
LEMMA StatusDropped ==
  ASSUME NEW t \in Texts, NEW status \in Pieces, status.kind = "status",
         \A i \in 1..Len(t) : t[i].kind # "status"
  PROVE  Copy!NoStatus(Append(t, status)) = t
<1> DEFINE s == Append(t, status)
           m == Len(t)
<1>1. /\ m \in Nat /\ s \in Texts /\ Len(s) = m + 1 /\ s[m + 1] = status
      /\ \A i \in 1..m : s[i] = t[i] /\ t[i] \in Pieces
  BY DEF Texts
<1> HIDE DEF s
<1>2. PICK h \in [0..Len(s) -> Texts] :
         /\ h[0] = <<>> /\ Copy!NoStatus(s) = h[Len(s)]
         /\ \A i \in 1..Len(s) : h[i] = IF s[i].kind = "status" THEN h[i - 1] ELSE Append(h[i - 1], s[i])
  BY <1>1, KeptSteps
<1> DEFINE good == {i \in 0..m : h[i] = SubSeq(t, 1, i)}
<1>3. 0 \in good
  <2>1. SubSeq(t, 1, 0) = <<>>
    BY DEF Texts
  <2>2. 0 \in 0..m
    BY <1>1
  <2>3. h[0] = SubSeq(t, 1, 0)
    BY <1>2, <2>1
  <2> HIDE DEF m
  <2>4. QED
    BY <2>2, <2>3
<1>4. ASSUME NEW i \in 1..m, i - 1 \in good PROVE i \in good
  <2>1. i \in 0..m /\ i \in 1..Len(s) /\ i > 0
    BY <1>1
  <2>2. h[i] = Append(h[i - 1], t[i])
    BY <1>1, <1>2, <2>1
  <2>3. SubSeq(t, 1, i) = Append(SubSeq(t, 1, i - 1), t[i])
    BY <2>1, Prefixes DEF Texts
  <2>4. QED
    BY <1>4, <2>1, <2>2, <2>3
<1> HIDE DEF good
<1>5. \A i \in 0..m : i \in good
  BY <1>1, <1>3, <1>4, UpTo
<1>6. h[m] = SubSeq(t, 1, m)
  BY <1>1, <1>5 DEF good
<1>7. SubSeq(t, 1, m) = t
  BY DEF Texts
<1>8. h[m + 1] = h[m]
  <2>1. m + 1 \in 1..Len(s) /\ (m + 1) - 1 = m
    BY <1>1
  <2>2. QED
    <3>1. h[m + 1] = IF s[m + 1].kind = "status" THEN h[m] ELSE Append(h[m], s[m + 1])
      BY <1>2, <2>1
    <3>2. QED
      BY <1>1, <3>1
<1>9. QED
  BY <1>1, <1>2, <1>6, <1>7, <1>8 DEF s

LEMMA OneMore ==
  ASSUME NEW S, NEW s \in Seq(S), NEW e \in S
  PROVE  /\ Append(s, e) \in Seq(S) /\ Len(Append(s, e)) = Len(s) + 1 /\ Append(s, e)[Len(s) + 1] = e
         /\ Len(s) \in Nat /\ \A i \in 1..Len(s) : Append(s, e)[i] = s[i]
OBVIOUS

LEMMA Joint ==
  ASSUME NEW S, NEW s \in Seq(S), NEW t \in Seq(S)
  PROVE  /\ s \o t \in Seq(S) /\ Len(s \o t) = Len(s) + Len(t) /\ Len(s) \in Nat /\ Len(t) \in Nat
         /\ \A i \in 1..Len(s) : (s \o t)[i] = s[i]
         /\ \A i \in 1..Len(t) : (s \o t)[Len(s) + i] = t[i]
OBVIOUS

\* Where the first empty piece is.
LEMMA HeaderEnds ==
  ASSUME NEW s \in Texts
  PROVE  LET end == Copy!HeaderEnd(s)
         IN  \/ end = 0 /\ \A i \in 1..Len(s) : s[i] # Copy!Empty
             \/ end \in 1..Len(s) /\ s[end] = Copy!Empty /\ \A i \in 1..(end - 1) : s[i] # Copy!Empty
<1> DEFINE I == {i \in 1..Len(s) : s[i] = Copy!Empty}
<1>1. Copy!HeaderEnd(s) = IF I # {} THEN Copy!Min(I) ELSE 0
  BY DEF Copy!HeaderEnd, Copy!SelectInSeq
<1>2. I \subseteq 1..Len(s) /\ I \subseteq Nat /\ Len(s) \in Nat
  BY DEF Texts
<1> HIDE DEF I
<1>3. ASSUME I # {} PROVE Copy!Min(I) \in I /\ \A i \in I : Copy!Min(I) <= i
  <2>1. \E m \in I : \A i \in I : m <= i
    BY <1>2, <1>3, LeastExists
  <2>2. QED
    BY <2>1 DEF Copy!Min
<1>4. CASE I = {}
  BY <1>1, <1>4 DEF I
<1>5. CASE I # {}
  <2> DEFINE end == Copy!Min(I)
  <2>1. end \in I /\ end \in 1..Len(s) /\ \A i \in I : end <= i
    BY <1>2, <1>3, <1>5
  <2> HIDE DEF end
  <2>2. \A i \in 1..(end - 1) : i \in 1..Len(s) /\ ~(end <= i)
    BY <1>2, <2>1
  <2>3. s[end] = Copy!Empty /\ \A i \in 1..(end - 1) : s[i] # Copy!Empty
    BY <2>1, <2>2 DEF I
  <2>4. QED
    BY <1>1, <1>5, <2>1, <2>3 DEF end
<1>6. QED
  BY <1>4, <1>5

\* The parts of a text: its headers are neither empty nor a status, and its body, if it
\* has one, begins with an empty piece.
LEMMA PartsFacts ==
  ASSUME NEW s \in Texts
  PROVE  /\ Copy!Headers(s) \in Texts
         /\ \A k \in 1..Len(Copy!Headers(s)) :
               Copy!Headers(s)[k] # Copy!Empty /\ Copy!Headers(s)[k].kind # "status"
         /\ Copy!Body(s) \in Texts
         /\ Copy!Body(s) # <<>> => Copy!Body(s)[1] = Copy!Empty
<1> DEFINE end == Copy!HeaderEnd(s)
           n == IF end = 0 THEN Len(s) ELSE end - 1
           t == SubSeq(s, 1, n)
<1>1. Len(s) \in Nat /\ n \in 0..Len(s) /\ \A i \in 1..n : s[i] # Copy!Empty
  <2>1. Len(s) \in Nat
    BY DEF Texts
  <2>2. \/ end = 0 /\ \A i \in 1..Len(s) : s[i] # Copy!Empty
        \/ end \in 1..Len(s) /\ \A i \in 1..(end - 1) : s[i] # Copy!Empty
    BY HeaderEnds
  <2> HIDE DEF end
  <2>3. QED
    BY <2>1, <2>2
<1>2. Copy!Headers(s) = Copy!NoStatus(t)
  BY DEF Copy!Headers
<1> HIDE DEF n
<1>3. t \in Texts /\ Len(t) = n /\ \A i \in 1..n : t[i] = s[i]
  BY <1>1, Prefixes DEF Texts
<1> HIDE DEF t
<1>4. /\ Copy!NoStatus(t) \in Texts
      /\ \A k \in 1..Len(Copy!NoStatus(t)) :
            \E l \in 1..n : Copy!NoStatus(t)[k] = t[l] /\ t[l].kind # "status"
  BY <1>3, NoStatusFacts
<1>5. Copy!Body(s) \in Texts /\ (Copy!Body(s) # <<>> => Copy!Body(s)[1] = Copy!Empty)
  <2>1. CASE end = 0
    BY <2>1 DEF Copy!Body, Texts
  <2>2. CASE end # 0
    <3>1. end \in 1..Len(s) /\ s[end] = Copy!Empty
      BY <2>2, HeaderEnds
    <3>2. Copy!Body(s) = SubSeq(s, end, Len(s))
      BY <2>2 DEF Copy!Body
    <3> HIDE DEF end
    <3>3. SubSeq(s, end, Len(s)) \in Texts /\ SubSeq(s, end, Len(s))[1] = s[end]
      BY <1>1, <3>1 DEF Texts
    <3>4. QED
      BY <3>1, <3>2, <3>3
  <2>3. QED
    BY <2>1, <2>2
<1>6. QED
  BY <1>1, <1>2, <1>3, <1>4, <1>5

\* What comes back of a row: its text with the status of its flags, and two newlines.
Back(row) == Append(Append(Copy!InjectStatus(row.raw, row.flags), Copy!Empty), Copy!Empty)

\* Where the parts of a text with a status are, when two empty pieces follow.
LEMMA InjectedFacts ==
  ASSUME NEW H \in Texts, NEW B \in Texts, NEW status \in Pieces, status.kind = "status",
         \A k \in 1..Len(H) : H[k] # Copy!Empty /\ H[k].kind # "status",
         B # <<>> => B[1] = Copy!Empty
  PROVE  LET X == Append(Append(H \o <<status>> \o B, Copy!Empty), Copy!Empty)
         IN  /\ X \in Texts
             /\ Copy!Headers(X) = H
             /\ Copy!Body(X) = Append(Append(B, Copy!Empty), Copy!Empty)
             /\ Copy!FlagsOf(X) = status.flags
<1> DEFINE E == Copy!Empty
           X == Append(Append(H \o <<status>> \o B, E), E)
           h == Len(H)
           b == Len(B)
<1>1. h \in Nat /\ b \in Nat /\ E \in Pieces /\ E.kind = "empty"
  BY PieceFacts DEF Texts
<1>2. status # E
  BY <1>1
<1>3. /\ X \in Texts /\ Len(X) = h + b + 3
      /\ \A k \in 1..h : X[k] = H[k]
      /\ X[h + 1] = status
      /\ \A k \in 1..b : X[h + 1 + k] = B[k]
      /\ X[h + b + 2] = E /\ X[h + b + 3] = E
  <2> DEFINE S == H \o <<status>>
             T == S \o B
             U == Append(T, E)
  <2>1. /\ S \in Texts /\ Len(S) = h + 1 /\ S[h + 1] = status /\ \A k \in 1..h : S[k] = H[k]
    BY <1>1 DEF Texts
  <2> HIDE DEF S
  <2>2. /\ T \in Texts /\ Len(T) = h + 1 + b /\ \A k \in 1..(h + 1) : T[k] = S[k]
        /\ \A k \in 1..b : T[h + 1 + k] = B[k]
    <3>1. /\ S \o B \in Seq(Pieces) /\ Len(S \o B) = Len(S) + Len(B)
          /\ \A k \in 1..Len(S) : (S \o B)[k] = S[k]
          /\ \A k \in 1..Len(B) : (S \o B)[Len(S) + k] = B[k]
      <4>1. S \in Seq(Pieces) /\ B \in Seq(Pieces)
        BY <2>1 DEF Texts
      <4>2. QED
        BY <4>1, Joint
    <3>2. QED
      BY <2>1, <3>1 DEF Texts
  <2> HIDE DEF T, E
  <2>3. /\ U \in Texts /\ Len(U) = h + b + 2 /\ \A k \in 1..(h + 1 + b) : U[k] = T[k]
        /\ U[h + b + 2] = E
    <3>1. /\ Append(T, E) \in Seq(Pieces) /\ Len(Append(T, E)) = Len(T) + 1
          /\ Append(T, E)[Len(T) + 1] = E /\ \A k \in 1..Len(T) : Append(T, E)[k] = T[k]
      <4>1. T \in Seq(Pieces) /\ E \in Pieces
        BY <1>1, <2>2 DEF Texts
      <4>2. QED
        BY <4>1, OneMore
    <3>2. Len(T) + 1 = h + b + 2
      BY <1>1, <2>2
    <3>3. QED
      BY <2>2, <3>1, <3>2 DEF Texts
  <2> HIDE DEF U
  <2>4. /\ Append(U, E) \in Texts /\ Len(Append(U, E)) = h + b + 3
        /\ \A k \in 1..(h + b + 2) : Append(U, E)[k] = U[k]
        /\ Append(U, E)[h + b + 3] = E
    BY <1>1, <2>3 DEF Texts
  <2>5. X = Append(U, E)
    BY DEF U, T, S
  <2> HIDE DEF X, h, b
  <2>6. \A k \in 1..(h + 1 + b) : X[k] = T[k]
    BY <1>1, <2>3, <2>4, <2>5
  <2>7. \A k \in 1..h : X[k] = H[k]
    BY <1>1, <2>1, <2>2, <2>6
  <2>8. X[h + 1] = status
    <3>1. h + 1 \in 1..(h + 1 + b) /\ h + 1 \in 1..(h + 1)
      BY <1>1
    <3>2. QED
      BY <2>1, <2>2, <2>6, <3>1
  <2>9. \A k \in 1..b : X[h + 1 + k] = B[k]
    <3>1. \A k \in 1..b : h + 1 + k \in 1..(h + 1 + b)
      BY <1>1
    <3>2. QED
      BY <2>2, <2>6, <3>1
  <2>10. X[h + b + 2] = E /\ X[h + b + 3] = E
    <3>1. h + b + 2 \in 1..(h + b + 2)
      BY <1>1
    <3>2. QED
      BY <2>3, <2>4, <2>5, <3>1
  <2>11. QED
    BY <2>4, <2>5, <2>7, <2>8, <2>9, <2>10
<1> HIDE DEF X, h, b
<1> DEFINE end == h + 2
<1>4. X[end] = E /\ end \in 1..Len(X) /\ end # 0
  <2>1. CASE b = 0
    BY <1>1, <1>3, <2>1
  <2>2. CASE b # 0
    <3>1. 1 \in 1..b /\ h + 1 + 1 = end
      BY <1>1, <2>2
    <3>2. X[end] = B[1] /\ B # <<>>
      BY <1>3, <2>2, <3>1 DEF b
    <3>3. end \in 1..Len(X) /\ end # 0
      BY <1>1, <1>3
    <3>4. QED
      BY <3>2, <3>3
  <2>3. QED
    BY <2>1, <2>2
<1>5. \A k \in 1..(end - 1) : X[k] # E
  <2>1. \A k \in 1..(end - 1) : k \in 1..h \/ k = h + 1
    BY <1>1
  <2>2. \A k \in 1..h : H[k] # E
    BY DEF h
  <2> HIDE DEF E
  <2>3. QED
    BY <1>2, <1>3, <2>1, <2>2
<1>6. Copy!HeaderEnd(X) = end
  <2> DEFINE e == Copy!HeaderEnd(X)
  <2>1. \/ e = 0 /\ \A i \in 1..Len(X) : X[i] # E
        \/ e \in 1..Len(X) /\ X[e] = E /\ \A i \in 1..(e - 1) : X[i] # E
    BY <1>3, HeaderEnds
  <2> HIDE DEF e, E
  <2>2. e \in 1..Len(X) /\ X[e] = E /\ \A i \in 1..(e - 1) : X[i] # E
    BY <1>4, <2>1
  <2>3. e \notin 1..(end - 1) /\ end \notin 1..(e - 1)
    BY <1>4, <1>5, <2>2
  <2>4. e \in Nat /\ end \in Nat /\ e > 0 /\ end > 0 /\ Len(X) \in Nat
    BY <1>1, <1>3, <2>2
  <2> HIDE DEF end
  <2>5. e = end
    BY <2>3, <2>4
  <2>6. QED
    BY <2>5 DEF e
<1>7. SubSeq(X, 1, end - 1) = Append(H, status)
  <2> DEFINE P == SubSeq(X, 1, end - 1)
             Q == Append(H, status)
  <2>1. end - 1 \in 0..Len(X) /\ end - 1 = h + 1
    BY <1>1, <1>3
  <2>2. P \in Texts /\ Len(P) = h + 1 /\ \A i \in 1..(h + 1) : P[i] = X[i]
    BY <1>3, <2>1, Prefixes DEF Texts
  <2>3. Q \in Texts /\ Len(Q) = h + 1 /\ Q[h + 1] = status /\ \A i \in 1..h : Q[i] = H[i]
    BY <1>1 DEF Texts, h
  <2> HIDE DEF P, Q
  <2>4. \A i \in 1..(h + 1) : P[i] = Q[i]
    <3>1. \A i \in 1..(h + 1) : i \in 1..h \/ i = h + 1
      BY <1>1
    <3>2. QED
      BY <1>3, <2>2, <2>3, <3>1
  <2>5. P = Q
    BY <2>2, <2>3, <2>4, SeqEqual DEF Texts
  <2>6. QED
    BY <2>5 DEF P, Q
<1>8. Copy!Headers(X) = H
  <2>1. Copy!Headers(X) = Copy!NoStatus(SubSeq(X, 1, end - 1))
    BY <1>4, <1>6 DEF Copy!Headers
  <2>2. Copy!NoStatus(Append(H, status)) = H
    BY StatusDropped
  <2>3. QED
    BY <1>7, <2>1, <2>2
<1>9. Copy!Body(X) = Append(Append(B, E), E)
  <2> DEFINE P == SubSeq(X, end, Len(X))
             Q == Append(Append(B, E), E)
  <2>1. Copy!Body(X) = P
    BY <1>4, <1>6 DEF Copy!Body
  <2>2. P \in Texts /\ Len(P) = b + 2 /\ \A i \in 1..(b + 2) : P[i] = X[h + 1 + i]
    <3>1. end + (b + 2) - 1 = Len(X) /\ end \in 1..Len(X) /\ X \in Seq(Pieces)
      BY <1>1, <1>3 DEF Texts
    <3>2. \A i \in 1..(b + 2) : end + i - 1 = h + 1 + i
      BY <1>1
    <3>3. /\ SubSeq(X, end, Len(X)) \in Seq(Pieces) /\ Len(SubSeq(X, end, Len(X))) = Len(X) - end + 1
          /\ \A i \in 1..(Len(X) - end + 1) : SubSeq(X, end, Len(X))[i] = X[end + i - 1]
      BY <3>1
    <3>4. Len(X) - end + 1 = b + 2
      BY <1>1, <1>3
    <3>5. QED
      BY <3>2, <3>3, <3>4 DEF Texts
  <2>3. /\ Q \in Texts /\ Len(Q) = b + 2 /\ \A i \in 1..b : Q[i] = B[i]
        /\ Q[b + 1] = E /\ Q[b + 2] = E
    <3> DEFINE U == Append(B, E)
    <3> HIDE DEF E
    <3>1. U \in Texts /\ Len(U) = b + 1 /\ U[b + 1] = E /\ \A i \in 1..b : U[i] = B[i]
      BY <1>1 DEF Texts, b
    <3> HIDE DEF U
    <3>2. /\ Append(U, E) \in Texts /\ Len(Append(U, E)) = b + 2 /\ Append(U, E)[b + 2] = E
          /\ \A i \in 1..(b + 1) : Append(U, E)[i] = U[i]
      BY <1>1, <3>1 DEF Texts
    <3>3. b + 1 \in 1..(b + 1) /\ \A i \in 1..b : i \in 1..(b + 1)
      BY <1>1
    <3>4. QED
      BY <3>1, <3>2, <3>3 DEF U
  <2> HIDE DEF P, Q, E
  <2>4. \A i \in 1..(b + 2) : P[i] = Q[i]
    <3>1. \A i \in 1..(b + 2) : i \in 1..b \/ i = b + 1 \/ i = b + 2
      BY <1>1
    <3>2. h + 1 + (b + 1) = h + b + 2 /\ h + 1 + (b + 2) = h + b + 3 /\ b + 1 \in 1..(b + 2) /\ b + 2 \in 1..(b + 2)
      BY <1>1
    <3>3. P[b + 1] = E /\ P[b + 2] = E
      BY <1>3, <2>2, <3>2
    <3>4. QED
      BY <1>3, <2>2, <2>3, <3>1, <3>3
  <2>5. P = Q
    BY <2>2, <2>3, <2>4, SeqEqual DEF Texts
  <2>6. QED
    BY <2>1, <2>5 DEF Q
<1>10. Copy!FlagsOf(X) = status.flags
  <2> DEFINE I == {i \in 1..Len(X) : X[i].kind = "status"}
             at == Copy!SelectInSeq(X, LAMBDA piece : piece.kind = "status")
  <2>1. at = IF I # {} THEN Copy!Min(I) ELSE 0
    BY DEF Copy!SelectInSeq
  <2>2. h + 1 \in I
    BY <1>1, <1>3
  <2>3. \A i \in I : h + 1 <= i
    <3>1. \A i \in 1..h : X[i].kind # "status"
      BY <1>3 DEF h
    <3>2. \A i \in 1..Len(X) : i \in 1..h \/ h + 1 <= i
      BY <1>1, <1>3
    <3>3. QED
      BY <3>1, <3>2
  <2>4. I \subseteq Nat
    BY <1>1, <1>3
  <2> HIDE DEF I
  <2>5. \A m \in I : (\A i \in I : m <= i) => m = h + 1
    BY <1>1, <2>2, <2>3, <2>4
  <2>6. Copy!Min(I) = h + 1
    BY <2>2, <2>3, <2>5 DEF Copy!Min
  <2>7. at = h + 1
    BY <2>1, <2>2, <2>6
  <2>8. Copy!FlagsOf(X) = IF at = 0 \/ (Copy!HeaderEnd(X) # 0 /\ Copy!HeaderEnd(X) < at) THEN {} ELSE X[at].flags
    BY DEF Copy!FlagsOf
  <2> HIDE DEF at
  <2>9. at # 0 /\ ~(Copy!HeaderEnd(X) < at)
    BY <1>1, <1>6, <2>7
  <2>10. QED
    BY <1>3, <2>7, <2>8, <2>9
<1>11. QED
  BY <1>3, <1>8, <1>9, <1>10 DEF X

\* A text that comes back is the one that was written, but for empty lines at the end.
LEMMA BackFacts ==
  ASSUME NEW row, row.raw \in Texts
  PROVE  /\ Copy!InjectStatus(row.raw, row.flags) \in Texts /\ Back(row) \in Texts
         /\ Copy!Bare(Back(row)) = Copy!Bare(row.raw)
         /\ Copy!FlagsOf(Back(row)) = row.flags \cap Kept
<1> DEFINE H == Copy!Headers(row.raw)
           B == Copy!Body(row.raw)
           status == Copy!Status(row.flags \cap Kept)
           X == Back(row)
           E == Copy!Empty
           own == H \o B
           owns == H \o Append(Append(B, E), E)
<1>1. /\ H \in Texts /\ B \in Texts /\ status \in Pieces /\ status.kind = "status"
      /\ \A k \in 1..Len(H) : H[k] # E /\ H[k].kind # "status"
      /\ B # <<>> => B[1] = E
      /\ status.flags = row.flags \cap Kept /\ E \in Pieces
  BY PartsFacts, PieceFacts
<1>2. Copy!InjectStatus(row.raw, row.flags) = H \o <<status>> \o B
  BY DEF Copy!InjectStatus, Kept
<1>3. X = Append(Append(H \o <<status>> \o B, E), E)
  BY <1>2 DEF Back
<1> HIDE DEF H, B, status, X
<1>4. X \in Texts /\ Copy!Headers(X) = H /\ Copy!Body(X) = Append(Append(B, E), E) /\ Copy!FlagsOf(X) = status.flags
  BY <1>1, <1>3, InjectedFacts
<1>5. H \o <<status>> \o B \in Texts
  BY <1>1 DEF Texts
<1> DEFINE S == {i \in DOMAIN own : own[i] # E}
           T == {i \in DOMAIN owns : owns[i] # E}
           m == Copy!Max(S \cup {0})
<1>6. /\ Copy!Bare(X) = SubSeq(owns, 1, Copy!Max(T \cup {0}))
      /\ Copy!Bare(row.raw) = SubSeq(own, 1, m)
  BY <1>4 DEF Copy!Bare, H, B
<1> HIDE DEF E
<1> DEFINE U == Append(B, E)
           V == Append(U, E)
           h == Len(H)
           b == Len(B)
<1>7. /\ h \in Nat /\ b \in Nat
      /\ own \in Texts /\ Len(own) = h + b /\ DOMAIN own = 1..(h + b)
      /\ \A i \in 1..h : own[i] = H[i]
      /\ \A i \in 1..b : own[h + i] = B[i]
  <2>1. H \in Seq(Pieces) /\ B \in Seq(Pieces)
    BY <1>1 DEF Texts
  <2>2. /\ own \in Seq(Pieces) /\ Len(own) = h + b /\ h \in Nat /\ b \in Nat
        /\ \A i \in 1..h : own[i] = H[i]
        /\ \A i \in 1..b : own[h + i] = B[i]
    BY <2>1, Joint
  <2> HIDE DEF own
  <2>3. DOMAIN own = 1..Len(own)
    BY <2>2
  <2>4. QED
    BY <2>2, <2>3 DEF Texts
<1>8. U \in Seq(Pieces) /\ Len(U) = b + 1 /\ U[b + 1] = E /\ \A i \in 1..b : U[i] = B[i]
  <2>1. B \in Seq(Pieces) /\ E \in Pieces
    BY <1>1 DEF Texts, E
  <2>2. QED
    BY <2>1, OneMore
<1>9. V \in Seq(Pieces) /\ Len(V) = b + 2 /\ V[b + 2] = E /\ \A i \in 1..(b + 1) : V[i] = U[i]
  <2>1. E \in Pieces
    BY <1>1 DEF E
  <2> HIDE DEF U
  <2>2. /\ V \in Seq(Pieces) /\ Len(V) = Len(U) + 1 /\ V[Len(U) + 1] = E
        /\ \A i \in 1..Len(U) : V[i] = U[i]
    BY <1>8, <2>1, OneMore
  <2>3. Len(U) + 1 = b + 2 /\ Len(U) = b + 1
    BY <1>7, <1>8
  <2> HIDE DEF V
  <2>4. QED
    BY <2>2, <2>3
<1> HIDE DEF U, V
<1>10. /\ owns \in Texts /\ Len(owns) = h + b + 2 /\ DOMAIN owns = 1..(h + b + 2)
       /\ \A i \in 1..h : owns[i] = H[i]
       /\ \A i \in 1..(b + 2) : owns[h + i] = V[i]
  <2>1. H \in Seq(Pieces)
    BY <1>1 DEF Texts
  <2>2. owns = H \o V
    BY DEF U, V
  <2>3. /\ H \o V \in Seq(Pieces) /\ Len(H \o V) = h + Len(V)
        /\ \A i \in 1..h : (H \o V)[i] = H[i]
        /\ \A i \in 1..Len(V) : (H \o V)[h + i] = V[i]
    <3>1. V \in Seq(Pieces)
      BY <1>9
    <3>2. QED
      BY <2>1, <3>1, Joint
  <2> HIDE DEF owns
  <2>4. DOMAIN owns = 1..Len(owns)
    BY <2>2, <2>3
  <2>5. h + Len(V) = h + b + 2
    BY <1>7, <1>9
  <2>6. QED
    BY <1>9, <2>2, <2>3, <2>4, <2>5 DEF Texts
<1> HIDE DEF own, owns
<1>11. \A i \in 1..(h + b) : owns[i] = own[i]
  <2>1. SUFFICES ASSUME NEW i \in 1..(h + b) PROVE owns[i] = own[i]
    OBVIOUS
  <2>2. CASE i \in 1..h
    BY <1>7, <1>10, <2>2
  <2>3. CASE i \notin 1..h
    <3> DEFINE k == i - h
    <3>1. k \in 1..b /\ k \in 1..(b + 2) /\ k \in 1..(b + 1) /\ i = h + k
      BY <1>7, <2>3
    <3> HIDE DEF k
    <3>2. owns[h + k] = V[k] /\ V[k] = U[k] /\ U[k] = B[k] /\ own[h + k] = B[k]
      BY <1>7, <1>8, <1>9, <1>10, <3>1
    <3>3. QED
      BY <3>1, <3>2
  <2>4. QED
    BY <2>2, <2>3
<1>12. \A i \in 1..(h + b + 2) : i \in 1..(h + b) \/ owns[i] = E
  <2>1. \A i \in 1..(h + b + 2) : i \in 1..(h + b) \/ i = h + (b + 1) \/ i = h + (b + 2)
    BY <1>7
  <2>2. b + 1 \in 1..(b + 2) /\ b + 2 \in 1..(b + 2) /\ b + 1 \in 1..(b + 1)
    BY <1>7
  <2>3. owns[h + (b + 1)] = E /\ owns[h + (b + 2)] = E
    BY <1>8, <1>9, <1>10, <2>2
  <2>4. QED
    BY <2>1, <2>3
<1>13. S = T
  <2>1. \A i \in 1..(h + b) : i \in 1..(h + b + 2)
    BY <1>7
  <2>2. QED
    BY <1>7, <1>10, <1>11, <1>12, <2>1
<1>14. m \in 0..(h + b)
  <2> DEFINE M == S \cup {0}
  <2>1. M \subseteq 0..(h + b) /\ M # {} /\ M \subseteq Nat
    BY <1>7
  <2>2. IsFiniteSet(0..(h + b))
    BY <1>7, FS_Interval
  <2> HIDE DEF M
  <2>3. IsFiniteSet(M)
    BY <2>1, <2>2, FS_Subset
  <2>4. \E k \in M : \A i \in M : i <= k
    BY <2>1, <2>3, MaxExists
  <2>5. \E k \in M : \A i \in M : k >= i
    BY <2>1, <2>4
  <2>6. Copy!Max(M) \in M
    BY <2>5 DEF Copy!Max
  <2>7. QED
    BY <2>1, <2>6 DEF M
<1> HIDE DEF S, T
<1>15. SubSeq(owns, 1, m) = SubSeq(own, 1, m)
  <2> HIDE DEF m, h, b
  <2>1. m \in 0..Len(own) /\ m \in 0..Len(owns) /\ \A i \in 1..m : i \in 1..(h + b)
    BY <1>7, <1>10, <1>14
  <2> DEFINE P == SubSeq(owns, 1, m)
             Q == SubSeq(own, 1, m)
  <2>2. P \in Seq(Pieces) /\ Len(P) = m /\ \A i \in 1..m : P[i] = owns[i]
    BY <1>10, <2>1, Prefixes DEF Texts
  <2>3. Q \in Seq(Pieces) /\ Len(Q) = m /\ \A i \in 1..m : Q[i] = own[i]
    BY <1>7, <2>1, Prefixes DEF Texts
  <2> HIDE DEF P, Q
  <2>4. \A i \in 1..Len(P) : P[i] = Q[i]
    BY <1>11, <2>1, <2>2, <2>3
  <2>5. P = Q
    BY <2>2, <2>3, <2>4, SeqEqual
  <2>6. QED
    BY <2>5 DEF P, Q
<1>16. Copy!Bare(X) = Copy!Bare(row.raw)
  BY <1>6, <1>13, <1>15
<1>17. QED
  BY <1>1, <1>2, <1>4, <1>5, <1>16 DEF X

\* Quoting is undone, and nothing that is quoted begins a message.
LEMMA QuoteFacts ==
  ASSUME NEW s \in Texts
  PROVE  /\ Copy!Quote(s) \in Texts /\ Len(Copy!Quote(s)) = Len(s)
         /\ Copy!Unquote(s) \in Texts /\ Len(Copy!Unquote(s)) = Len(s)
         /\ \A i \in 1..Len(s) :
               LET quoted == Copy!Quote(s)[i] IN
               /\ quoted # Copy!From(0)
               /\ s[i] = IF quoted.kind = "from" /\ quoted.gt > 0 THEN Copy!From(quoted.gt - 1) ELSE quoted
<1> DEFINE Quoted(piece) == IF piece.kind = "from" THEN Copy!From(piece.gt + 1) ELSE piece
           Bare(piece) == IF piece.kind = "from" /\ piece.gt > 0 THEN Copy!From(piece.gt - 1) ELSE piece
<1>1. DOMAIN s = 1..Len(s) /\ Len(s) \in Nat /\ \A i \in 1..Len(s) : s[i] \in Pieces
  BY DEF Texts
<1>2. \A piece \in Pieces : Quoted(piece) \in Pieces /\ Quoted(piece) # Copy!From(0) /\ Bare(Quoted(piece)) = piece
  <2>1. SUFFICES ASSUME NEW piece \in Pieces
                 PROVE  /\ Quoted(piece) \in Pieces /\ Quoted(piece) # Copy!From(0)
                        /\ Bare(Quoted(piece)) = piece
    OBVIOUS
  <2>2. CASE piece.kind = "from"
    <3>1. piece.gt \in Nat /\ piece = Copy!From(piece.gt)
      BY <2>2, PieceFacts
    <3>2. piece.gt + 1 \in Nat /\ piece.gt + 1 # 0 /\ piece.gt + 1 > 0 /\ (piece.gt + 1) - 1 = piece.gt
      BY <3>1
    <3>3. /\ Copy!From(piece.gt + 1) \in Pieces /\ Copy!From(piece.gt + 1).kind = "from"
          /\ Copy!From(piece.gt + 1).gt = piece.gt + 1 /\ Copy!From(0).gt = 0
      BY <3>2, PieceFacts
    <3>4. QED
      BY <2>2, <3>1, <3>2, <3>3
  <2>3. CASE piece.kind # "from"
    <3>1. Copy!From(0).kind = "from"
      BY PieceFacts
    <3>2. QED
      BY <2>3, <3>1
  <2>4. QED
    BY <2>2, <2>3
<1>3. \A piece \in Pieces : Bare(piece) \in Pieces
  <2>1. ASSUME NEW piece \in Pieces, piece.kind = "from", piece.gt > 0
        PROVE  Copy!From(piece.gt - 1) \in Pieces
    <3>1. piece.gt \in Nat
      BY <2>1, PieceFacts
    <3>2. piece.gt - 1 \in Nat
      BY <2>1, <3>1
    <3>3. QED
      BY <3>2, PieceFacts
  <2>2. QED
    BY <2>1
<1>4. Copy!Quote(s) = [i \in 1..Len(s) |-> Quoted(s[i])]
  BY <1>1 DEF Copy!Quote
<1>5. Copy!Unquote(s) = [i \in 1..Len(s) |-> Bare(s[i])]
  BY <1>1 DEF Copy!Unquote
<1>6. \A i \in 1..Len(s) : Copy!Quote(s)[i] = Quoted(s[i])
  BY <1>4
<1>7. Copy!Quote(s) \in Texts /\ Len(Copy!Quote(s)) = Len(s)
  <2> HIDE DEF Quoted
  <2>1. \A i \in 1..Len(s) : Quoted(s[i]) \in Pieces
    BY <1>1, <1>2
  <2>2. QED
    BY <1>1, <1>4, <2>1 DEF Texts
<1>8. Copy!Unquote(s) \in Texts /\ Len(Copy!Unquote(s)) = Len(s)
  <2> HIDE DEF Bare
  <2>1. \A i \in 1..Len(s) : Bare(s[i]) \in Pieces
    BY <1>1, <1>3
  <2>2. QED
    BY <1>1, <1>5, <2>1 DEF Texts
<1>9. ASSUME NEW i \in 1..Len(s)
      PROVE  Copy!Quote(s)[i] # Copy!From(0) /\ s[i] = Bare(Copy!Quote(s)[i])
  <2> HIDE DEF Quoted, Bare
  <2>1. QED
    BY <1>1, <1>2, <1>6
<1>10. QED
  BY <1>7, <1>8, <1>9

ReadStates == [messages : Seq(Texts), lines : Texts]
NothingRead == [messages |-> <<>>, lines |-> <<>>]

\* What one line does to what was read.
ReadLine(read, line) ==
    IF line = Copy!From(0) THEN [messages |-> Copy!Ended(read), lines |-> <<>>]
    ELSE [messages |-> read.messages, lines |-> Append(read.lines, line)]

LEMMA EndedType ==
  ASSUME NEW read \in ReadStates
  PROVE  Copy!Ended(read) \in Seq(Texts)
<1>1. read.messages \in Seq(Texts) /\ read.lines \in Texts
  BY DEF ReadStates
<1>2. Copy!Unquote(read.lines) \in Texts
  BY <1>1, QuoteFacts
<1>3. Append(Copy!Unquote(read.lines), Copy!Empty) \in Texts
  BY <1>2, PieceFacts, OneMore DEF Texts
<1> HIDE DEF Texts
<1>4. QED
  BY <1>1, <1>3 DEF Copy!Ended

LEMMA ReadLineType ==
  ASSUME NEW read \in ReadStates, NEW line \in Pieces
  PROVE  ReadLine(read, line) \in ReadStates
<1>1. read.messages \in Seq(Texts) /\ read.lines \in Texts
  BY DEF ReadStates
<1>2. Copy!Ended(read) \in Seq(Texts)
  BY EndedType
<1>3. Append(read.lines, line) \in Texts /\ <<>> \in Texts
  BY <1>1, OneMore DEF Texts
<1> HIDE DEF Texts
<1>4. QED
  BY <1>1, <1>2, <1>3 DEF ReadStates, ReadLine

\* What was read, line by line.
LEMMA ReadingSteps ==
  ASSUME NEW s \in Texts
  PROVE  \E h \in [0..Len(s) -> ReadStates] :
            /\ h[0] = NothingRead /\ Copy!Reading(s) = h[Len(s)]
            /\ \A i \in 1..Len(s) : h[i] = ReadLine(h[i - 1], s[i])
<1> DEFINE n == Len(s)
           step == [i \in 1..n |-> [t \in ReadStates |-> ReadLine(t, s[i])]]
<1>1. n \in Nat /\ \A i \in 1..n : s[i] \in Pieces
  BY DEF Texts
<1>2. \A i \in 1..n, t \in ReadStates : step[i][t] = ReadLine(t, s[i]) /\ step[i][t] \in ReadStates
  BY <1>1, ReadLineType
<1>3. NothingRead \in ReadStates
  BY DEF NothingRead, ReadStates, Texts
<1> HIDE DEF step, n
<1>4. PICK h \in [0..n -> ReadStates] : h[0] = NothingRead /\ \A i \in 1..n : h[i] = step[i][h[i - 1]]
  <2>1. Solvable(n, ReadStates, NothingRead, step)
    BY <1>1, Recursion
  <2>2. QED
    BY <1>2, <1>3, <2>1 DEF Solvable
<1>5. \A i \in 1..n : h[i] = ReadLine(h[i - 1], s[i])
  <2>1. \A i \in 1..n : i - 1 \in 0..n
    BY <1>1
  <2>2. QED
    BY <1>2, <1>4, <2>1
<1> DEFINE rec(g) == [i \in 0..n |-> IF i = 0 THEN NothingRead ELSE ReadLine(g[i - 1], s[i])]
           read == CHOOSE g : g = rec(g)
<1>6. h = rec(h)
  <2>1. \A i \in 0..n : h[i] = IF i = 0 THEN NothingRead ELSE ReadLine(h[i - 1], s[i])
    <3>1. \A i \in 0..n : i = 0 \/ i \in 1..n
      BY <1>1
    <3>2. QED
      BY <1>4, <1>5, <3>1
  <2>2. QED
    BY <2>1
<1>7. read = rec(read)
  BY <1>6
<1>8. Copy!Reading(s) = read[n]
  BY DEF Copy!Reading, n, ReadLine, NothingRead
<1> HIDE DEF read
<1>9. DOMAIN read = 0..n /\ \A i \in 0..n : read[i] = IF i = 0 THEN NothingRead ELSE ReadLine(read[i - 1], s[i])
  BY <1>7
<1>10. \A i \in 0..n : read[i] \in ReadStates
  <2> DEFINE good == {i \in 0..n : read[i] \in ReadStates}
  <2>1. 0 \in good
    <3>1. 0 \in 0..n
      BY <1>1
    <3>2. read[0] = NothingRead
      BY <1>9, <3>1
    <3>3. QED
      BY <1>3, <3>1, <3>2
  <2>2. ASSUME NEW i \in 1..n, i - 1 \in good PROVE i \in good
    <3>1. i \in 0..n /\ i # 0
      BY <1>1
    <3>2. read[i] = ReadLine(read[i - 1], s[i])
      BY <1>9, <3>1
    <3>3. QED
      BY <1>1, <2>2, <3>1, <3>2, ReadLineType
  <2> HIDE DEF good
  <2>3. \A i \in 0..n : i \in good
    BY <1>1, <2>1, <2>2, UpTo
  <2>4. QED
    BY <2>3 DEF good
<1>11. read = [i \in 0..n |-> read[i]]
  BY <1>7, <1>9
<1>12. read \in [0..n -> ReadStates]
  BY <1>10, <1>11
<1>13. read[0] = NothingRead /\ \A i \in 1..n : read[i] = ReadLine(read[i - 1], s[i])
  <2>1. 0 \in 0..n /\ \A i \in 1..n : i \in 0..n /\ i # 0
    BY <1>1
  <2>2. QED
    BY <1>9, <2>1
<1>14. QED
  BY <1>8, <1>12, <1>13 DEF n

LEMMA ReadingType ==
  ASSUME NEW s \in Texts
  PROVE  Copy!Reading(s) \in ReadStates /\ Copy!Split(s) \in Seq(Texts)
<1>1. Len(s) \in 0..Len(s)
  BY DEF Texts
<1>2. Copy!Reading(s) \in ReadStates
  BY <1>1, ReadingSteps
<1>3. QED
  BY <1>2, EndedType DEF Copy!Split

LEMMA NothingToRead == <<>> \in Texts /\ Copy!Reading(<<>>) = NothingRead /\ Copy!Split(<<>>) = <<>>
<1>1. <<>> \in Texts /\ Len(<<>>) = 0
  BY DEF Texts
<1>2. Copy!Reading(<<>>) = NothingRead
  BY <1>1, ReadingSteps
<1>3. QED
  BY <1>1, <1>2 DEF Copy!Split, Copy!Ended, NothingRead

\* One line more is read after the others.
LEMMA ReadingGoesOn ==
  ASSUME NEW t \in Texts, NEW line \in Pieces
  PROVE  Copy!Reading(Append(t, line)) = ReadLine(Copy!Reading(t), line)
<1> DEFINE s == Append(t, line)
           m == Len(t)
<1>1. /\ m \in Nat /\ s \in Texts /\ Len(s) = m + 1 /\ s[m + 1] = line
      /\ \A i \in 1..m : s[i] = t[i]
  BY OneMore DEF Texts
<1> HIDE DEF s
<1>2. PICK h \in [0..m -> ReadStates] :
         /\ h[0] = NothingRead /\ Copy!Reading(t) = h[m]
         /\ \A i \in 1..m : h[i] = ReadLine(h[i - 1], t[i])
  BY ReadingSteps
<1>3. PICK k \in [0..Len(s) -> ReadStates] :
         /\ k[0] = NothingRead /\ Copy!Reading(s) = k[Len(s)]
         /\ \A i \in 1..Len(s) : k[i] = ReadLine(k[i - 1], s[i])
  BY <1>1, ReadingSteps
<1> DEFINE good == {i \in 0..m : h[i] = k[i]}
<1> HIDE DEF m
<1>4. 0 \in good
  BY <1>1, <1>2, <1>3
<1>5. ASSUME NEW i \in 1..m, i - 1 \in good PROVE i \in good
  <2>1. i \in 0..m /\ i \in 1..Len(s)
    BY <1>1
  <2>2. h[i] = ReadLine(h[i - 1], t[i]) /\ k[i] = ReadLine(k[i - 1], t[i])
    BY <1>1, <1>2, <1>3, <2>1
  <2>3. QED
    BY <1>5, <2>1, <2>2
<1> HIDE DEF good
<1>6. \A i \in 0..m : i \in good
  BY <1>1, <1>4, <1>5, UpTo
<1>7. k[m] = h[m]
  BY <1>1, <1>6 DEF good
<1>8. k[m + 1] = ReadLine(k[m], line)
  <2>1. m + 1 \in 1..Len(s) /\ (m + 1) - 1 = m
    BY <1>1
  <2>2. k[m + 1] = ReadLine(k[(m + 1) - 1], s[m + 1])
    BY <1>3, <2>1
  <2>3. QED
    BY <1>1, <2>1, <2>2
<1>9. QED
  BY <1>1, <1>2, <1>3, <1>7, <1>8 DEF s

\* The first j lines of a text W whose first line, and no other, begins a message: they
\* end what was read, and the rest of them is the message.
LEMMA MessageRead ==
  ASSUME NEW s \in Texts, NEW W \in Texts, Len(W) > 0, W[1] = Copy!From(0),
         \A i \in 2..Len(W) : W[i] # Copy!From(0), NEW j \in 1..Len(W)
  PROVE  LET lines == [i \in 1..(j - 1) |-> W[i + 1]] IN
         /\ s \o SubSeq(W, 1, j) \in Texts
         /\ lines \in Texts /\ Len(lines) = j - 1
         /\ Copy!Reading(s \o SubSeq(W, 1, j)) = [messages |-> Copy!Split(s), lines |-> lines]
<1> DEFINE n == Len(W)
           sofar(i) == s \o SubSeq(W, 1, i)
           rest(i) == [k \in 1..(i - 1) |-> W[k + 1]]
           Good(i) == Copy!Reading(sofar(i)) = [messages |-> Copy!Split(s), lines |-> rest(i)]
           good == {i \in 0..n : i = 0 \/ Good(i)}
<1>1. n \in Nat /\ n > 0 /\ \A i \in 1..n : W[i] \in Pieces
  BY DEF Texts
<1>2. ASSUME NEW i \in 0..n
      PROVE  SubSeq(W, 1, i) \in Seq(Pieces) /\ Len(SubSeq(W, 1, i)) = i /\ sofar(i) \in Texts
             /\ (i > 0 => sofar(i) = Append(sofar(i - 1), W[i]))
  <2>1. W \in Seq(Pieces) /\ s \in Seq(Pieces)
    BY DEF Texts
  <2>2. SubSeq(W, 1, i) \in Seq(Pieces) /\ Len(SubSeq(W, 1, i)) = i
    BY <2>1, Prefixes
  <2>3. sofar(i) \in Texts
    BY <2>1, <2>2 DEF Texts
  <2>4. ASSUME i > 0 PROVE sofar(i) = Append(sofar(i - 1), W[i])
    <3> DEFINE P == SubSeq(W, 1, i - 1)
    <3>1. SubSeq(W, 1, i) = Append(P, W[i])
      BY <2>1, <2>4, Prefixes
    <3>2. i - 1 \in 0..n
      BY <1>1, <2>4
    <3>3. P \in Seq(Pieces) /\ W[i] \in Pieces
      BY <1>1, <2>1, <2>4, <3>2, Prefixes
    <3> HIDE DEF P
    <3>4. s \o Append(P, W[i]) = Append(s \o P, W[i])
      BY <2>1, <3>3
    <3>5. QED
      BY <3>1, <3>4 DEF P
  <2>5. QED
    BY <2>2, <2>3, <2>4
<1>3. \A i \in 1..n : rest(i) \in Texts /\ Len(rest(i)) = i - 1
  <2>1. SUFFICES ASSUME NEW i \in 1..n PROVE rest(i) \in Texts /\ Len(rest(i)) = i - 1
    OBVIOUS
  <2>2. i - 1 \in Nat /\ \A k \in 1..(i - 1) : k + 1 \in 1..n
    BY <1>1
  <2>3. \A k \in 1..(i - 1) : W[k + 1] \in Pieces
    BY <1>1, <2>2
  <2> HIDE DEF n
  <2>4. rest(i) \in [1..(i - 1) -> Pieces]
    BY <2>3
  <2>5. QED
    BY <2>2, <2>4 DEF Texts
<1> HIDE DEF sofar, rest, n
<1>4. Good(1)
  <2>1. 1 \in 0..n /\ 0 \in 0..n /\ 1 > 0
    BY <1>1
  <2>2. sofar(0) = s
    <3>1. SubSeq(W, 1, 0) = <<>>
      BY DEF Texts
    <3>2. s \o <<>> = s
      BY DEF Texts
    <3>3. QED
      BY <3>1, <3>2 DEF sofar
  <2>3. sofar(1) = Append(s, W[1])
    BY <1>2, <2>1, <2>2
  <2>4. W[1] \in Pieces
    BY <1>1, <2>1
  <2>5. Copy!Reading(sofar(1)) = ReadLine(Copy!Reading(s), W[1])
    BY <2>3, <2>4, ReadingGoesOn
  <2>6. rest(1) = <<>>
    BY DEF rest
  <2>7. QED
    BY <2>5, <2>6 DEF ReadLine, Copy!Split
<1>5. 0 \in good
  BY <1>1
<1>6. ASSUME NEW i \in 1..n, i - 1 \in good PROVE i \in good
  <2>1. i \in 0..n
    BY <1>1
  <2>2. CASE i = 1
    BY <1>4, <2>1, <2>2
  <2>3. CASE i # 1
    <3>1. i - 1 \in 1..n /\ i - 1 \in 0..n /\ i > 0 /\ i \in 2..n /\ i - 1 # 0
      BY <1>1, <2>3
    <3>2. Copy!Reading(sofar(i - 1)) = [messages |-> Copy!Split(s), lines |-> rest(i - 1)]
      BY <1>6, <3>1
    <3>3. Copy!Reading(sofar(i)) = ReadLine(Copy!Reading(sofar(i - 1)), W[i])
      <4>1. sofar(i) = Append(sofar(i - 1), W[i]) /\ sofar(i - 1) \in Texts /\ W[i] \in Pieces
        BY <1>1, <1>2, <2>1, <3>1
      <4>2. QED
        BY <4>1, ReadingGoesOn
    <3>4. W[i] # Copy!From(0)
      BY <3>1 DEF n
    <3>5. Append(rest(i - 1), W[i]) = rest(i)
      <4> DEFINE P == rest(i - 1)
                 Q == rest(i)
      <4>1. P \in Texts /\ Len(P) = i - 2 /\ Q \in Texts /\ Len(Q) = i - 1 /\ W[i] \in Pieces
        <5>1. (i - 1) - 1 = i - 2
          BY <1>1
        <5>2. QED
          BY <1>1, <1>3, <3>1, <5>1
      <4>2. /\ \A k \in 1..(i - 2) : P[k] = W[k + 1]
            /\ \A k \in 1..(i - 1) : Q[k] = W[k + 1]
        <5>1. (i - 1) - 1 = i - 2
          BY <1>1
        <5>2. QED
          BY <5>1 DEF rest
      <4> HIDE DEF P, Q
      <4>3. /\ Append(P, W[i]) \in Seq(Pieces) /\ Len(Append(P, W[i])) = i - 1
            /\ Append(P, W[i])[i - 1] = W[i] /\ \A k \in 1..(i - 2) : Append(P, W[i])[k] = P[k]
        <5>1. P \in Seq(Pieces) /\ W[i] \in Pieces
          BY <4>1 DEF Texts
        <5>2. /\ Append(P, W[i]) \in Seq(Pieces) /\ Len(Append(P, W[i])) = Len(P) + 1
              /\ Append(P, W[i])[Len(P) + 1] = W[i] /\ \A k \in 1..Len(P) : Append(P, W[i])[k] = P[k]
          BY <5>1, OneMore
        <5>3. Len(P) + 1 = i - 1
          BY <1>1, <3>1, <4>1
        <5>4. QED
          BY <4>1, <5>2, <5>3
      <4>4. \A k \in 1..(i - 1) : Append(P, W[i])[k] = Q[k]
        <5>1. \A k \in 1..(i - 1) : k \in 1..(i - 2) \/ k = i - 1
          BY <1>1, <3>1
        <5>2. (i - 1) + 1 = i /\ i - 1 \in 1..(i - 1)
          BY <1>1, <3>1
        <5>3. Q[i - 1] = W[i]
          BY <4>2, <5>2
        <5>4. QED
          BY <4>2, <4>3, <5>1, <5>3
      <4>5. Append(P, W[i]) = Q
        BY <4>1, <4>3, <4>4, SeqEqual DEF Texts
      <4>6. QED
        BY <4>5 DEF P, Q
    <3>6. QED
      BY <2>1, <3>2, <3>3, <3>4, <3>5 DEF ReadLine
  <2>4. QED
    BY <2>2, <2>3
<1> HIDE DEF good
<1>7. \A i \in 0..n : i \in good
  BY <1>1, <1>5, <1>6, UpTo
<1>8. j \in 0..n /\ j # 0 /\ j \in 1..n
  BY <1>1 DEF n
<1>9. Good(j)
  BY <1>7, <1>8 DEF good
<1>10. sofar(j) \in Texts
  BY <1>2, <1>8
<1>11. QED
  BY <1>3, <1>8, <1>9, <1>10 DEF sofar, rest

\* The lines of a row: the first begins a message, no other does, and unquoted they are
\* what is exported of the row.
LEMMA WrittenFacts ==
  ASSUME NEW row, row.raw \in Texts
  PROVE  LET W == Copy!Written(row)
             body == [i \in 1..(Len(W) - 1) |-> W[i + 1]]
         IN  /\ W \in Texts /\ Len(W) \in Nat /\ Len(W) > 1 /\ W[1] = Copy!From(0)
             /\ \A i \in 2..Len(W) : W[i] # Copy!From(0)
             /\ Append(Copy!Unquote(body), Copy!Empty) = Back(row)
<1> DEFINE F == Copy!From(0)
           E == Copy!Empty
           I == Copy!InjectStatus(row.raw, row.flags)
           Q == Copy!Quote(I)
           W == Copy!Written(row)
           q == Len(I)
           body == [i \in 1..(q + 1) |-> W[i + 1]]
           Plain(piece) == IF piece.kind = "from" /\ piece.gt > 0 THEN Copy!From(piece.gt - 1) ELSE piece
<1>1. /\ I \in Texts /\ Q \in Texts /\ Len(Q) = q /\ q \in Nat
      /\ \A i \in 1..q : Q[i] # F /\ I[i] = Plain(Q[i])
  <2>1. I \in Texts
    BY BackFacts
  <2>2. q \in Nat
    BY <2>1 DEF Texts
  <2> HIDE DEF I
  <2>3. QED
    BY <2>1, <2>2, QuoteFacts
<1>2. F \in Pieces /\ E \in Pieces /\ E # F /\ Plain(E) = E
  BY PieceFacts
<1>3. W = <<F>> \o Q \o <<E>>
  BY DEF Copy!Written
<1>4. /\ W \in Texts /\ Len(W) = q + 2 /\ W[1] = F
      /\ \A i \in 1..q : W[i + 1] = Q[i]
      /\ W[q + 2] = E
  <2> HIDE DEF F, E, Q, W, q
  <2>1. Q \in Seq(Pieces) /\ <<F>> \in Seq(Pieces) /\ Len(<<F>>) = 1 /\ <<F>>[1] = F
    BY <1>1, <1>2 DEF Texts
  <2> DEFINE T == <<F>> \o Q
  <2>2. /\ T \in Seq(Pieces) /\ Len(T) = 1 + q /\ T[1] = F /\ \A i \in 1..q : T[1 + i] = Q[i]
    BY <1>1, <2>1, Joint
  <2>3. T \o <<E>> = Append(T, E)
    <3> HIDE DEF T
    <3>1. QED
      BY <1>2, <2>2
  <2> HIDE DEF T
  <2>4. /\ Append(T, E) \in Seq(Pieces) /\ Len(Append(T, E)) = Len(T) + 1
        /\ Append(T, E)[Len(T) + 1] = E /\ \A i \in 1..Len(T) : Append(T, E)[i] = T[i]
    BY <1>2, <2>2, OneMore
  <2>5. W = Append(T, E)
    BY <1>3, <2>3 DEF T
  <2>6. Len(T) + 1 = q + 2 /\ 1 \in 1..Len(T) /\ \A i \in 1..q : i + 1 \in 1..Len(T) /\ i + 1 = 1 + i
    BY <1>1, <2>2
  <2>7. QED
    BY <2>2, <2>4, <2>5, <2>6 DEF Texts
<1>5. \A i \in 2..(q + 2) : W[i] # F
  <2>1. SUFFICES ASSUME NEW i \in 2..(q + 2) PROVE W[i] # F
    OBVIOUS
  <2> HIDE DEF W, F, E, Q, q
  <2>2. CASE i = q + 2
    BY <1>2, <1>4, <2>2
  <2>3. CASE i # q + 2
    <3>1. i - 1 \in 1..q /\ (i - 1) + 1 = i
      BY <1>1, <2>3
    <3>2. W[(i - 1) + 1] = Q[i - 1] /\ Q[i - 1] # F
      BY <1>1, <1>4, <3>1
    <3>3. QED
      BY <3>1, <3>2
  <2>4. QED
    BY <2>2, <2>3
<1>6. body \in Texts /\ Len(body) = q + 1 /\ (\A i \in 1..q : body[i] = Q[i]) /\ body[q + 1] = E
  <2> HIDE DEF W, Q, E, q
  <2>1. \A i \in 1..(q + 1) : W[i + 1] \in Pieces
    <3>1. \A i \in 1..(q + 1) : i + 1 \in 1..Len(W)
      BY <1>1, <1>4
    <3>2. QED
      BY <1>4, <3>1 DEF Texts
  <2>2. body \in [1..(q + 1) -> Pieces] /\ q + 1 \in Nat
    BY <1>1, <2>1
  <2>3. (q + 1) + 1 = q + 2 /\ q + 1 \in 1..(q + 1) /\ \A i \in 1..q : i \in 1..(q + 1)
    BY <1>1
  <2>4. \A i \in 1..(q + 1) : body[i] = W[i + 1]
    OBVIOUS
  <2> HIDE DEF body
  <2>5. body \in Texts /\ Len(body) = q + 1
    BY <2>2 DEF Texts
  <2>6. QED
    BY <1>4, <2>3, <2>4, <2>5
<1>7. Copy!Unquote(body) = Append(I, E)
  <2> DEFINE U == Copy!Unquote(body)
             V == Append(I, E)
  <2> HIDE DEF body
  <2>1. U \in Texts /\ Len(U) = q + 1
    BY <1>6, QuoteFacts
  <2>2. \A i \in 1..(q + 1) : U[i] = Plain(body[i])
    <3>1. DOMAIN body = 1..(q + 1)
      BY <1>6 DEF Texts
    <3>2. U = [i \in 1..(q + 1) |-> Plain(body[i])]
      BY <3>1 DEF Copy!Unquote
    <3> HIDE DEF U, Plain
    <3>3. QED
      BY <3>2
  <2> HIDE DEF U, E, I, Plain, q, Q
  <2>3. V \in Texts /\ Len(V) = q + 1 /\ V[q + 1] = E /\ \A i \in 1..q : V[i] = I[i]
    <3>1. I \in Seq(Pieces)
      BY <1>1 DEF Texts
    <3>2. QED
      BY <1>2, <3>1, OneMore DEF Texts, q
  <2> HIDE DEF V
  <2>4. \A i \in 1..(q + 1) : U[i] = V[i]
    <3>1. \A i \in 1..(q + 1) : i \in 1..q \/ i = q + 1
      BY <1>1
    <3>2. \A i \in 1..q : i \in 1..(q + 1) /\ U[i] = Plain(Q[i])
      BY <1>1, <1>6, <2>2
    <3>3. q + 1 \in 1..(q + 1)
      BY <1>1
    <3>4. U[q + 1] = E
      BY <1>2, <1>6, <2>2, <3>3
    <3>5. QED
      BY <1>1, <2>3, <3>1, <3>2, <3>4
  <2>5. U = V
    BY <2>1, <2>3, <2>4, SeqEqual DEF Texts
  <2>6. QED
    BY <2>5 DEF U, V
<1>8. Append(Copy!Unquote(body), E) = Back(row)
  BY <1>7 DEF Back
<1> HIDE DEF W, q
<1>9. body = [i \in 1..(Len(W) - 1) |-> W[i + 1]]
  <2>1. Len(W) - 1 = q + 1
    BY <1>1, <1>4
  <2>2. QED
    BY <2>1
<1>10. Len(W) \in Nat /\ Len(W) > 1 /\ 2..Len(W) = 2..(q + 2)
  BY <1>1, <1>4
<1>11. QED
  BY <1>4, <1>5, <1>8, <1>9, <1>10 DEF W

\* A row at the end of a file is read as what comes back of it; the first of its lines
\* as nothing, or as one message.
LEMMA RowRead ==
  ASSUME NEW s \in Texts, NEW row, row.raw \in Texts
  PROVE  /\ s \o Copy!Written(row) \in Texts
         /\ Copy!Split(s \o Copy!Written(row)) = Append(Copy!Split(s), Back(row))
         /\ \A cut \in 1..Len(Copy!Written(row)) :
               LET part_of == s \o SubSeq(Copy!Written(row), 1, cut - 1)
               IN  /\ part_of \in Texts
                   /\ \/ Copy!Split(part_of) = Copy!Split(s)
                      \/ \E t \in Texts : Copy!Split(part_of) = Append(Copy!Split(s), t)
<1> DEFINE W == Copy!Written(row)
           body(j) == [i \in 1..(j - 1) |-> W[i + 1]]
           M == Copy!Split(s)
<1>1. /\ W \in Texts /\ Len(W) \in Nat /\ Len(W) > 1 /\ W[1] = Copy!From(0)
      /\ \A i \in 2..Len(W) : W[i] # Copy!From(0)
      /\ Append(Copy!Unquote(body(Len(W))), Copy!Empty) = Back(row)
  BY WrittenFacts
<1> HIDE DEF W
<1>2. ASSUME NEW j \in 1..Len(W)
      PROVE  /\ s \o SubSeq(W, 1, j) \in Texts
             /\ body(j) \in Texts /\ Len(body(j)) = j - 1
             /\ Copy!Reading(s \o SubSeq(W, 1, j)) = [messages |-> M, lines |-> body(j)]
  <2>1. W \in Texts /\ Len(W) > 0 /\ W[1] = Copy!From(0) /\ \A i \in 2..Len(W) : W[i] # Copy!From(0)
    BY <1>1
  <2>2. QED
    BY <2>1, MessageRead
<1> HIDE DEF body, M
<1>3. ASSUME NEW j \in 1..Len(W)
      PROVE  Copy!Split(s \o SubSeq(W, 1, j)) =
                IF body(j) = <<>> THEN M ELSE Append(M, Append(Copy!Unquote(body(j)), Copy!Empty))
  <2> DEFINE read == Copy!Reading(s \o SubSeq(W, 1, j))
  <2>1. read = [messages |-> M, lines |-> body(j)]
    BY <1>2
  <2>2. Copy!Split(s \o SubSeq(W, 1, j)) = Copy!Ended(read)
    BY DEF Copy!Split
  <2> HIDE DEF read
  <2>3. read.messages = M /\ read.lines = body(j)
    BY <2>1
  <2>4. QED
    BY <2>2, <2>3 DEF Copy!Ended
<1>4. Len(W) \in 1..Len(W) /\ SubSeq(W, 1, Len(W)) = W
  BY <1>1 DEF Texts
<1>5. body(Len(W)) # <<>>
  <2>1. Len(body(Len(W))) = Len(W) - 1
    BY <1>2, <1>4
  <2> DEFINE n == Len(W)
             t == body(n)
  <2>2. Len(t) = n - 1 /\ n \in Nat /\ n > 1
    BY <1>1, <2>1
  <2> HIDE DEF n, t
  <2>3. Len(t) # 0
    BY <2>2
  <2>4. t # <<>>
    BY <2>3
  <2>5. QED
    BY <2>4 DEF n, t
<1>6. s \o W \in Texts /\ Copy!Split(s \o W) = Append(M, Back(row))
  <2>1. /\ s \o SubSeq(W, 1, Len(W)) \in Texts
        /\ Copy!Split(s \o SubSeq(W, 1, Len(W))) = Append(M, Append(Copy!Unquote(body(Len(W))), Copy!Empty))
    BY <1>2, <1>3, <1>4, <1>5
  <2>2. Append(Copy!Unquote(body(Len(W))), Copy!Empty) = Back(row)
    BY <1>1 DEF body
  <2>3. QED
    BY <1>4, <2>1, <2>2
<1>7. ASSUME NEW cut \in 1..Len(W)
      PROVE  LET part_of == s \o SubSeq(W, 1, cut - 1)
             IN  /\ part_of \in Texts
                 /\ \/ Copy!Split(part_of) = M
                    \/ \E t \in Texts : Copy!Split(part_of) = Append(M, t)
  <2> DEFINE j == cut - 1
  <2>1. j \in Nat /\ (j = 0 \/ j \in 1..Len(W))
    BY <1>1
  <2> HIDE DEF j
  <2>2. CASE j = 0
    <3>1. s \o SubSeq(W, 1, 0) = s
      <4>1. SubSeq(W, 1, 0) = <<>>
        BY <1>1 DEF Texts
      <4>2. s \o <<>> = s
        BY DEF Texts
      <4>3. QED
        BY <4>1, <4>2
    <3>2. s \o SubSeq(W, 1, j) = s
      BY <2>2, <3>1
    <3>3. QED
      BY <3>2 DEF j, M
  <2>3. CASE j \in 1..Len(W)
    <3> DEFINE t == Append(Copy!Unquote(body(j)), Copy!Empty)
    <3>1. body(j) \in Texts /\ s \o SubSeq(W, 1, j) \in Texts
      BY <1>2, <2>3
    <3>2. Copy!Unquote(body(j)) \in Seq(Pieces)
      BY <3>1, QuoteFacts DEF Texts
    <3>3. t \in Texts
      BY <3>2, PieceFacts, OneMore DEF Texts
    <3>4. Copy!Split(s \o SubSeq(W, 1, j)) = IF body(j) = <<>> THEN M ELSE Append(M, t)
      BY <1>3, <2>3
    <3> HIDE DEF t
    <3>5. QED
      BY <3>1, <3>3, <3>4 DEF j
  <2>4. QED
    BY <2>1, <2>2, <2>3
<1>8. QED
  BY <1>6, <1>7 DEF W, M

\* The file of n rows, row by row.
LEMMA LinesSteps ==
  ASSUME NEW n \in Nat, NEW list, \A i \in 1..n : list[i].raw \in Texts
  PROVE  \E h \in [0..n -> Texts] :
            /\ h[0] = <<>> /\ Copy!Lines(list, n) = h[n]
            /\ \A i \in 1..n : h[i] = h[i - 1] \o Copy!Written(list[i])
<1> DEFINE step == [i \in 1..n |-> [t \in Texts |-> t \o Copy!Written(list[i])]]
<1>1. \A i \in 1..n, t \in Texts : t \o Copy!Written(list[i]) \in Texts
  BY RowRead
<1>2. \A i \in 1..n, t \in Texts : step[i][t] = t \o Copy!Written(list[i]) /\ step[i][t] \in Texts
  BY <1>1
<1>3. <<>> \in Texts
  BY DEF Texts
<1> HIDE DEF step
<1>4. PICK h \in [0..n -> Texts] : h[0] = <<>> /\ \A i \in 1..n : h[i] = step[i][h[i - 1]]
  <2>1. Solvable(n, Texts, <<>>, step)
    BY Recursion
  <2>2. QED
    BY <1>2, <1>3, <2>1 DEF Solvable
<1>5. \A i \in 1..n : h[i] = h[i - 1] \o Copy!Written(list[i])
  <2>1. \A i \in 1..n : i - 1 \in 0..n
    OBVIOUS
  <2>2. QED
    BY <1>2, <1>4, <2>1
<1> DEFINE rec(g) == [i \in 0..n |-> IF i = 0 THEN <<>> ELSE g[i - 1] \o Copy!Written(list[i])]
           written == CHOOSE g : g = rec(g)
<1>6. h = rec(h)
  <2>1. \A i \in 0..n : h[i] = IF i = 0 THEN <<>> ELSE h[i - 1] \o Copy!Written(list[i])
    <3>1. \A i \in 0..n : i = 0 \/ i \in 1..n
      OBVIOUS
    <3>2. QED
      BY <1>4, <1>5, <3>1
  <2>2. QED
    BY <2>1
<1>7. written = rec(written)
  BY <1>6
<1>8. Copy!Lines(list, n) = written[n]
  BY DEF Copy!Lines
<1> HIDE DEF written
<1>9. DOMAIN written = 0..n /\ \A i \in 0..n : written[i] = IF i = 0 THEN <<>> ELSE written[i - 1] \o Copy!Written(list[i])
  BY <1>7
<1>10. \A i \in 0..n : written[i] \in Texts
  <2> DEFINE good == {i \in 0..n : written[i] \in Texts}
  <2>1. 0 \in good
    <3>1. 0 \in 0..n
      OBVIOUS
    <3>2. written[0] = <<>>
      BY <1>9, <3>1
    <3>3. QED
      BY <1>3, <3>1, <3>2
  <2>2. ASSUME NEW i \in 1..n, i - 1 \in good PROVE i \in good
    <3>1. i \in 0..n /\ i # 0
      OBVIOUS
    <3>2. written[i] = written[i - 1] \o Copy!Written(list[i])
      BY <1>9, <3>1
    <3>3. QED
      BY <1>1, <2>2, <3>1, <3>2
  <2> HIDE DEF good
  <2>3. \A i \in 0..n : i \in good
    BY <2>1, <2>2, UpTo
  <2>4. QED
    BY <2>3 DEF good
<1>11. written = [i \in 0..n |-> written[i]]
  BY <1>7, <1>9
<1>12. written \in [0..n -> Texts]
  BY <1>10, <1>11
<1>13. written[0] = <<>> /\ \A i \in 1..n : written[i] = written[i - 1] \o Copy!Written(list[i])
  <2>1. 0 \in 0..n /\ \A i \in 1..n : i \in 0..n /\ i # 0
    OBVIOUS
  <2>2. QED
    BY <1>9, <2>1
<1>14. QED
  BY <1>8, <1>12, <1>13

\* The file of n rows is read as the n messages that come back of them.
LEMMA LinesRead ==
  ASSUME NEW n \in Nat, NEW list, \A i \in 1..n : list[i].raw \in Texts
  PROVE  LET output == Copy!Lines(list, n) IN
         /\ output \in Texts /\ Copy!Split(output) \in Seq(Texts) /\ Len(Copy!Split(output)) = n
         /\ \A k \in 1..n : Copy!Split(output)[k] = Back(list[k])
<1>1. PICK h \in [0..n -> Texts] :
         /\ h[0] = <<>> /\ Copy!Lines(list, n) = h[n]
         /\ \A i \in 1..n : h[i] = h[i - 1] \o Copy!Written(list[i])
  BY LinesSteps
<1> DEFINE Good(i) == /\ Copy!Split(h[i]) \in Seq(Texts) /\ Len(Copy!Split(h[i])) = i
                      /\ \A k \in 1..i : Copy!Split(h[i])[k] = Back(list[k])
           good == {i \in 0..n : Good(i)}
<1>2. 0 \in good
  <2>1. Copy!Split(h[0]) = <<>>
    BY <1>1, NothingToRead
  <2>2. QED
    BY <2>1
<1>3. ASSUME NEW i \in 1..n, i - 1 \in good PROVE i \in good
  <2> DEFINE M == Copy!Split(h[i - 1])
             back == Back(list[i])
  <2>1. i \in Nat /\ i \in 0..n /\ i - 1 \in 0..n /\ i - 1 \in Nat /\ (i - 1) + 1 = i
    OBVIOUS
  <2>2. h[i - 1] \in Texts
    BY <1>1, <2>1
  <2>3. M \in Seq(Texts) /\ Len(M) = i - 1 /\ \A k \in 1..(i - 1) : M[k] = Back(list[k])
    BY <1>3
  <2>4. Copy!Split(h[i]) = Append(M, back) /\ back \in Texts
    <3>1. h[i] = h[i - 1] \o Copy!Written(list[i]) /\ list[i].raw \in Texts
      BY <1>1
    <3>2. QED
      BY <2>2, <3>1, RowRead, BackFacts
  <2> HIDE DEF M, back
  <2>5. /\ Append(M, back) \in Seq(Texts) /\ Len(Append(M, back)) = i /\ Append(M, back)[i] = back
        /\ \A k \in 1..(i - 1) : Append(M, back)[k] = M[k]
    <3>1. /\ Append(M, back) \in Seq(Texts) /\ Len(Append(M, back)) = Len(M) + 1
          /\ Append(M, back)[Len(M) + 1] = back /\ \A k \in 1..Len(M) : Append(M, back)[k] = M[k]
      BY <2>3, <2>4, OneMore
    <3>2. Len(M) + 1 = i
      BY <2>1, <2>3
    <3>3. QED
      BY <2>3, <3>1, <3>2
  <2>6. \A k \in 1..i : k \in 1..(i - 1) \/ k = i
    BY <2>1
  <2>7. Good(i)
    BY <2>3, <2>4, <2>5, <2>6 DEF back
  <2>8. QED
    BY <2>1, <2>7
<1> HIDE DEF good
<1>4. \A i \in 0..n : i \in good
  BY <1>2, <1>3, UpTo
<1>5. n \in 0..n
  OBVIOUS
<1>6. Good(n)
  BY <1>4, <1>5 DEF good
<1>7. h[n] \in Texts
  BY <1>1, <1>5
<1>8. QED
  BY <1>1, <1>6, <1>7

\* Rows whose text is one of pieces.
Readable(S) == \A row \in S : row.raw \in Texts

\* Messages that come back of the rows of a list are those of the list.
LEMMA BackComes ==
  ASSUME NEW S, Readable(S), NEW list \in Seq(S), NEW messages,
         Len(messages) \in {Len(list), Len(list) + 1},
         \A k \in 1..Len(list) : messages[k] = Back(list[k])
  PROVE  Copy!ComeBack(messages, list)
<1>1. DOMAIN list = 1..Len(list) /\ \A k \in 1..Len(list) : list[k] \in S
  OBVIOUS
<1>2. ASSUME NEW k \in DOMAIN list
      PROVE  /\ Copy!Bare(messages[k]) = Copy!Bare(list[k].raw)
             /\ Copy!FlagsOf(messages[k]) = list[k].flags \cap Kept
  <2>1. messages[k] = Back(list[k]) /\ list[k].raw \in Texts
    BY <1>1, <1>2 DEF Readable
  <2>2. QED
    BY <2>1, BackFacts
<1>3. QED
  BY <1>2 DEF Copy!ComeBack, Kept

\* What an export writes comes back, if it is killed, too.
LEMMA ExportedComesBack ==
  ASSUME NEW S, Readable(S), NEW list \in Seq(S), NEW n \in 0..Len(list)
  PROVE  LET output == Copy!Lines(list, n) IN
         /\ SubSeq(list, 1, n) \in Seq(S)
         /\ output \in Texts /\ Copy!ComeBack(Copy!Split(output), SubSeq(list, 1, n))
         /\ n < Len(list) => \A cut \in 1..Len(Copy!Written(list[n + 1])) :
               LET part_of == output \o SubSeq(Copy!Written(list[n + 1]), 1, cut - 1)
               IN  part_of \in Texts /\ Copy!ComeBack(Copy!Split(part_of), SubSeq(list, 1, n))
<1> DEFINE written == Copy!Lines(list, n)
           whole == SubSeq(list, 1, n)
           M == Copy!Split(written)
<1>1. n \in Nat /\ Len(list) \in Nat /\ n <= Len(list) /\ \A i \in 1..Len(list) : list[i] \in S /\ list[i].raw \in Texts
  BY DEF Readable
<1>2. whole \in Seq(S) /\ Len(whole) = n /\ \A i \in 1..n : whole[i] = list[i]
  BY Prefixes
<1>3. written \in Texts /\ M \in Seq(Texts) /\ Len(M) = n /\ \A k \in 1..n : M[k] = Back(list[k])
  <2>1. \A i \in 1..n : list[i].raw \in Texts
    BY <1>1
  <2>2. QED
    BY <1>1, <2>1, LinesRead
<1> HIDE DEF written, whole, M
<1>4. Copy!ComeBack(M, whole)
  <2>1. \A k \in 1..Len(whole) : M[k] = Back(whole[k])
    BY <1>2, <1>3
  <2>2. Len(M) \in {Len(whole), Len(whole) + 1}
    BY <1>2, <1>3
  <2>3. QED
    BY <1>2, <2>1, <2>2, BackComes
<1>5. ASSUME n < Len(list), NEW cut \in 1..Len(Copy!Written(list[n + 1]))
      PROVE  LET cut_off == written \o SubSeq(Copy!Written(list[n + 1]), 1, cut - 1)
             IN  cut_off \in Texts /\ Copy!ComeBack(Copy!Split(cut_off), whole)
  <2> DEFINE row == list[n + 1]
             cut_off == written \o SubSeq(Copy!Written(row), 1, cut - 1)
  <2>1. row.raw \in Texts
    BY <1>1, <1>5
  <2>2. /\ cut_off \in Texts
        /\ \/ Copy!Split(cut_off) = M
           \/ \E t \in Texts : Copy!Split(cut_off) = Append(M, t)
    BY <1>3, <2>1, RowRead DEF M
  <2> HIDE DEF cut_off
  <2>3. CASE Copy!Split(cut_off) = M
    BY <1>4, <2>2, <2>3 DEF cut_off
  <2>4. ASSUME NEW t \in Texts, Copy!Split(cut_off) = Append(M, t)
        PROVE  Copy!ComeBack(Copy!Split(cut_off), whole)
    <3> DEFINE L == Append(M, t)
    <3>1. Len(L) = n + 1 /\ \A k \in 1..n : L[k] = M[k]
      BY <1>3, OneMore
    <3> HIDE DEF L
    <3>2. \A k \in 1..Len(whole) : L[k] = Back(whole[k])
      BY <1>2, <1>3, <3>1
    <3>3. Len(L) \in {Len(whole), Len(whole) + 1}
      BY <1>2, <3>1
    <3>4. Copy!ComeBack(L, whole)
      BY <1>2, <3>2, <3>3, BackComes
    <3>5. QED
      BY <2>4, <3>4 DEF L
  <2>5. QED
    BY <2>2, <2>3, <2>4 DEF cut_off
<1>6. QED
  BY <1>2, <1>3, <1>4, <1>5 DEF written, whole, M

\* The rows of a listing are rows of the folder.
LEMMA ListingFacts ==
  ASSUME NEW f, DOMAIN stored[f] \subseteq Nat, Copy!IsFiniteSet(DOMAIN stored[f]),
         \A u \in DOMAIN stored[f] : stored[f][u].raw \in Texts
  PROVE  LET S == {stored[f][u] : u \in DOMAIN stored[f]}
         IN  Readable(S) /\ Copy!Listing(f) \in Seq(S)
<1> DEFINE r == stored[f]
           S == {r[u] : u \in DOMAIN r}
           full == {u \in DOMAIN r : r[u].raw # <<>>}
           n == Copy!Cardinality(full)
           uids == CHOOSE s \in [1..n -> full] : \A i, j \in DOMAIN s : i < j => s[i] > s[j]
<1>1. full \subseteq Nat /\ IsFiniteSet(full)
  <2>1. IsFiniteSet(DOMAIN r)
    BY CopyFinite
  <2>2. full \subseteq DOMAIN r
    OBVIOUS
  <2>3. QED
    BY <2>1, <2>2, FS_Subset
<1>2. n = Cardinality(full)
  BY DEF Copy!Cardinality, Cardinality
<1>3. Copy!Listing(f) = [k \in DOMAIN uids |-> r[uids[k]]]
  BY DEF Copy!Listing, Copy!Uids
<1> HIDE DEF full
<1>4. n \in Nat /\ \E s \in [1..n -> full] : Increases(s, n)
  BY <1>1, <1>2, Sortable
<1> HIDE DEF n
<1>5. \E s \in [1..n -> full] : \A i, j \in DOMAIN s : i < j => s[i] > s[j]
  <2>1. PICK s \in [1..n -> full] : Increases(s, n)
    BY <1>4
  <2> DEFINE d == [i \in 1..n |-> s[n + 1 - i]]
  <2>2. \A i \in 1..n : n + 1 - i \in 1..n
    BY <1>4
  <2>3. d \in [1..n -> full]
    BY <2>2
  <2>4. ASSUME NEW i \in 1..n, NEW j \in 1..n, i < j PROVE d[i] > d[j]
    <3>1. n + 1 - j < n + 1 - i
      BY <1>4, <2>4
    <3>2. s[n + 1 - j] < s[n + 1 - i]
      BY <2>1, <2>2, <3>1 DEF Increases
    <3>3. s[n + 1 - j] \in Nat /\ s[n + 1 - i] \in Nat
      BY <1>1, <2>2
    <3>4. QED
      BY <3>2, <3>3
  <2> HIDE DEF d
  <2>5. \A i, j \in DOMAIN d : i < j => d[i] > d[j]
    BY <2>3, <2>4
  <2>6. QED
    BY <2>3, <2>5
<1>6. uids \in [1..n -> full]
  BY <1>5
<1> HIDE DEF uids
<1>7. \A k \in 1..n : r[uids[k]] \in S
  BY <1>6 DEF full
<1>8. Copy!Listing(f) \in [1..n -> S]
  <2> HIDE DEF S
  <2>1. DOMAIN uids = 1..n
    BY <1>6
  <2>2. QED
    BY <1>3, <1>7, <2>1
<1>9. Copy!Listing(f) \in Seq(S)
  <2> HIDE DEF S
  <2>1. QED
    BY <1>4, <1>8
<1>10. Readable(S)
  BY DEF Readable
<1>11. QED
  BY <1>9, <1>10

TextOK == Copy!TextTypes /\ Copy!FileInv

\* What the two say of the folders, of the file, and of the jobs.
Whole(all) ==
    /\ DOMAIN all = {"inbox", "copy"}
    /\ \A f \in DOMAIN all : /\ DOMAIN all[f] \subseteq Nat /\ Copy!IsFiniteSet(DOMAIN all[f])
                             /\ \A u \in DOMAIN all[f] : all[f][u].raw \in Texts

InFile(output, list) == output \in Texts /\ Copy!ComeBack(Copy!Split(output), list)

Taken(j) ==
    /\ DOMAIN j = Copy!JobFields /\ j.n \in Nat /\ j.messages \in Seq(Texts)
    /\ j.at # "none" => Copy!ComeBack(j.messages, j.copied)
    /\ j.at = "done" => j.n = Len(j.messages)

AllTaken(jobs) == DOMAIN jobs = Processes /\ \A p \in Processes : Taken(jobs[p])

LEMMA TextParts == TextOK <=> Whole(stored) /\ InFile(mbox, copied) /\ AllTaken(import_job)
  BY DEF TextOK, Copy!TextTypes, Copy!FileInv, Copy!Uids, Whole, InFile, AllTaken, Taken, Texts, Pieces

LEMMA TextPartsNext == TextOK' <=> Whole(stored') /\ InFile(mbox', copied') /\ AllTaken(import_job')
  BY DEF TextOK, Copy!TextTypes, Copy!FileInv, Copy!Uids, Whole, InFile, AllTaken, Taken, Texts, Pieces

LEMMA TextStarts ==
  ASSUME Copy!Init
  PROVE  TextOK
<1>1. PICK inbox \in Mailboxes : stored = [inbox |-> inbox, copy |-> <<>>]
  BY DEF Copy!Init
<1>2. Whole(stored)
  <2>1. inbox \in Seq([raw : Texts, flags : SUBSET STRING])
    BY MailboxesAssumption DEF Texts, Pieces
  <2>2. DOMAIN inbox = 1..Len(inbox) /\ Len(inbox) \in Nat /\ \A u \in DOMAIN inbox : inbox[u].raw \in Texts
    <3> DEFINE R == [raw : Texts, flags : SUBSET STRING]
    <3> HIDE DEF Texts
    <3>1. \A row \in R : row.raw \in Texts
      OBVIOUS
    <3> HIDE DEF R
    <3>2. DOMAIN inbox = 1..Len(inbox) /\ Len(inbox) \in Nat /\ \A u \in 1..Len(inbox) : inbox[u] \in R
      <4>1. inbox \in Seq(R)
        BY <2>1 DEF R
      <4>2. QED
        BY <4>1
    <3>3. QED
      BY <3>1, <3>2
  <2>3. DOMAIN inbox \subseteq Nat /\ IsFiniteSet(DOMAIN inbox)
    BY <2>2, FS_Interval
  <2>4. DOMAIN <<>> = {} /\ IsFiniteSet({})
    BY FS_EmptySet
  <2>5. DOMAIN stored = {"inbox", "copy"} /\ stored["inbox"] = inbox /\ stored["copy"] = <<>>
    BY <1>1
  <2> HIDE DEF Texts
  <2>6. QED
    BY <2>2, <2>3, <2>4, <2>5, CopyFinite DEF Whole
<1>3. InFile(mbox, copied)
  <2>1. mbox = <<>> /\ copied = <<>>
    BY DEF Copy!Init
  <2>2. <<>> \in Texts /\ Copy!Split(<<>>) = <<>>
    BY NothingToRead
  <2>3. Copy!ComeBack(<<>>, <<>>)
    <3>1. DOMAIN <<>> = {} /\ Len(<<>>) = 0
      OBVIOUS
    <3>2. QED
      BY <3>1 DEF Copy!ComeBack
  <2>4. QED
    BY <2>1, <2>2, <2>3 DEF InFile
<1>4. AllTaken(import_job)
  <2>1. Taken(Copy!NoJob)
    <3>1. Copy!NoJob.messages \in Seq(Texts)
      BY DEF Copy!NoJob
    <3>2. DOMAIN Copy!NoJob = Copy!JobFields /\ Copy!NoJob.n \in Nat /\ Copy!NoJob.at = "none"
      BY DEF Copy!NoJob, Copy!JobFields
    <3>3. QED
      BY <3>1, <3>2 DEF Taken
  <2>2. import_job = [p \in Processes |-> Copy!NoJob]
    BY DEF Copy!Init
  <2> HIDE DEF Taken
  <2>3. QED
    BY <2>1, <2>2 DEF AllTaken
<1>5. QED
  BY <1>2, <1>3, <1>4, TextParts

LEMMA ExportKeepsText ==
  ASSUME TextOK, NEW f \in {"inbox", "copy"}, Copy!Export(f)
  PROVE  TextOK'
<1> DEFINE list == Copy!Listing(f)
           S == {stored[f][u] : u \in DOMAIN stored[f]}
<1>1. Whole(stored) /\ AllTaken(import_job) /\ stored' = stored /\ import_job' = import_job
  BY TextParts DEF Copy!Export
<1>2. Readable(S) /\ list \in Seq(S)
  BY <1>1, ListingFacts DEF Whole
<1>3. PICK n \in 0..Len(list) :
         /\ copied' = SubSeq(list, 1, n)
         /\ \/ n = Len(list) /\ mbox' = Copy!Lines(list, n)
            \/ /\ n < Len(list)
               /\ \E cut \in 1..Len(Copy!Written(list[n + 1])) :
                     mbox' = Copy!Lines(list, n) \o SubSeq(Copy!Written(list[n + 1]), 1, cut - 1)
  BY DEF Copy!Export
<1> HIDE DEF list, S
<1>4. /\ Copy!Lines(list, n) \in Texts
      /\ Copy!ComeBack(Copy!Split(Copy!Lines(list, n)), SubSeq(list, 1, n))
      /\ n < Len(list) => \A cut \in 1..Len(Copy!Written(list[n + 1])) :
            InFile(Copy!Lines(list, n) \o SubSeq(Copy!Written(list[n + 1]), 1, cut - 1), SubSeq(list, 1, n))
  BY <1>2, ExportedComesBack DEF InFile
<1>5. InFile(mbox', copied')
  <2>1. CASE mbox' = Copy!Lines(list, n)
    BY <1>3, <1>4, <2>1 DEF InFile
  <2>2. CASE n < Len(list) /\ \E cut \in 1..Len(Copy!Written(list[n + 1])) :
                mbox' = Copy!Lines(list, n) \o SubSeq(Copy!Written(list[n + 1]), 1, cut - 1)
    BY <1>3, <1>4, <2>2
  <2>3. QED
    BY <1>3, <2>1, <2>2
<1>6. QED
  BY <1>1, <1>5, TextPartsNext

\* An import takes what it reads in the file.
LEMMA StartImportKeepsText ==
  ASSUME TextOK, NEW p \in Processes, Copy!StartImport(p)
  PROVE  TextOK'
<1> DEFINE new == [at |-> "running", messages |-> Copy!Split(mbox), n |-> 0, alone |-> Copy!Running = {},
                   uid |-> Copy!Max(DOMAIN stored["copy"] \cup {0}) + 1, before |-> stored["copy"],
                   copied |-> copied]
           jobs == import_job'
<1>1. /\ Whole(stored) /\ InFile(mbox, copied) /\ AllTaken(import_job)
      /\ stored' = stored /\ mbox' = mbox /\ copied' = copied
  BY TextParts DEF Copy!StartImport
<1>2. jobs = [q \in Processes |->
                IF q = p THEN new
                ELSE IF q \in Copy!Running THEN [import_job[q] EXCEPT !.alone = FALSE] ELSE import_job[q]]
  BY DEF Copy!StartImport, Copy!Uids
<1>3. Taken(new)
  <2>1. Copy!Split(mbox) \in Seq(Texts) /\ Copy!ComeBack(Copy!Split(mbox), copied)
    BY <1>1, ReadingType DEF InFile
  <2>2. /\ DOMAIN new = Copy!JobFields /\ new.n \in Nat /\ new.messages = Copy!Split(mbox)
        /\ new.at = "running" /\ new.copied = copied
    BY DEF Copy!JobFields
  <2> HIDE DEF new
  <2>3. QED
    BY <2>1, <2>2 DEF Taken
<1> HIDE DEF new, jobs
<1>4. ASSUME NEW q \in Processes PROVE Taken(jobs[q])
  <2> DEFINE j == import_job[q]
             other == [j EXCEPT !.alone = FALSE]
  <2>1. Taken(j)
    BY <1>1 DEF AllTaken
  <2> HIDE DEF j
  <2>2. Taken(other)
    <3>1. DOMAIN j = Copy!JobFields
      BY <2>1 DEF Taken
    <3>2. /\ DOMAIN other = Copy!JobFields /\ other.n = j.n /\ other.messages = j.messages
          /\ other.at = j.at /\ other.copied = j.copied
      BY <3>1 DEF Copy!JobFields
    <3> HIDE DEF other
    <3>3. QED
      BY <2>1, <3>2 DEF Taken
  <2> HIDE DEF other
  <2>3. jobs[q] = new \/ jobs[q] = other \/ jobs[q] = j
    BY <1>2 DEF j, other
  <2>4. QED
    BY <1>3, <2>1, <2>2, <2>3
<1>5. DOMAIN jobs = Processes
  BY <1>2
<1>6. QED
  BY <1>1, <1>4, <1>5, TextPartsNext DEF AllTaken, jobs

LEMMA ImportOneKeepsText ==
  ASSUME TextOK, ImportOK, NEW p \in Processes, Copy!ImportOne(p)
  PROVE  TextOK'
<1> DEFINE r == stored["copy"]
           j == import_job[p]
           raw == j.messages[j.n + 1]
           row == Copy!Row(raw, Copy!FlagsOf(raw))
           next == [j EXCEPT !.n = j.n + 1, !.uid = j.uid + 1]
           after == [u \in DOMAIN r \cup {j.uid} |-> IF u = j.uid THEN row ELSE r[u]]
<1>1. /\ Whole(stored) /\ InFile(mbox, copied) /\ AllTaken(import_job)
      /\ mbox' = mbox /\ copied' = copied
  BY TextParts DEF Copy!ImportOne
<1>2. /\ stored' = [stored EXCEPT !["copy"] = after]
      /\ import_job' = [import_job EXCEPT ![p] = next]
      /\ j.n < Len(j.messages) /\ j.at = "running"
  BY DEF Copy!ImportOne, Copy!Uids, Copy!Running
<1>3. Taken(j) /\ j.uid \in Nat
  BY <1>1, ImportParts DEF AllTaken, Counts
<1> HIDE DEF j
<1>4. raw \in Texts
  <2>1. j.n + 1 \in 1..Len(j.messages) /\ j.messages \in Seq(Texts)
    BY <1>2, <1>3 DEF Taken
  <2> HIDE DEF Texts
  <2>2. QED
    BY <2>1
<1>5. row.raw \in Texts
  BY <1>4 DEF Copy!Row
<1>6. Taken(next)
  <2>1. DOMAIN j = Copy!JobFields
    BY <1>3 DEF Taken
  <2>2. /\ DOMAIN next = Copy!JobFields /\ next.n = j.n + 1 /\ next.messages = j.messages
        /\ next.at = j.at /\ next.copied = j.copied
    BY <2>1 DEF Copy!JobFields
  <2> HIDE DEF next
  <2>3. QED
    BY <1>2, <1>3, <2>2 DEF Taken
<1> HIDE DEF row, next, r
<1>7. AllTaken(import_job')
  BY <1>1, <1>2, <1>6 DEF AllTaken
<1>8. Whole(stored')
  <2>1. /\ DOMAIN stored = {"inbox", "copy"} /\ DOMAIN r \subseteq Nat /\ IsFiniteSet(DOMAIN r)
        /\ \A u \in DOMAIN r : r[u].raw \in Texts
    BY <1>1, CopyFinite DEF Whole, r
  <2>2. DOMAIN after = DOMAIN r \cup {j.uid} /\ \A u \in DOMAIN after : after[u].raw \in Texts
    BY <1>5, <2>1
  <2> HIDE DEF after
  <2>3. DOMAIN after \subseteq Nat /\ IsFiniteSet(DOMAIN after)
    BY <1>3, <2>1, <2>2, FS_AddElement
  <2>4. DOMAIN stored' = {"inbox", "copy"} /\ stored'["copy"] = after /\ stored'["inbox"] = stored["inbox"]
    BY <1>2, <2>1
  <2>5. QED
    BY <1>1, <2>2, <2>3, <2>4, CopyFinite DEF Whole
<1>9. QED
  BY <1>1, <1>7, <1>8, TextPartsNext

\* An import that comes to its end has taken all messages.
LEMMA EndKeepsText ==
  ASSUME TextOK, NEW p \in Processes, Copy!EndImport(p) \/ Copy!Kill(p)
  PROVE  TextOK'
<1> DEFINE j == import_job[p]
           end == [j EXCEPT !.at = "done"]
<1>1. /\ Whole(stored) /\ InFile(mbox, copied) /\ AllTaken(import_job) /\ Taken(j)
      /\ stored' = stored /\ mbox' = mbox /\ copied' = copied
  BY TextParts DEF Copy!EndImport, Copy!Kill, AllTaken
<1>2. CASE Copy!EndImport(p)
  <2>1. import_job' = [import_job EXCEPT ![p] = end] /\ j.n = Len(j.messages) /\ j.at = "running"
    BY <1>2 DEF Copy!EndImport, Copy!Running
  <2> HIDE DEF j
  <2>2. Taken(end)
    <3>1. DOMAIN j = Copy!JobFields
      BY <1>1 DEF Taken
    <3>2. /\ DOMAIN end = Copy!JobFields /\ end.n = j.n /\ end.messages = j.messages
          /\ end.at = "done" /\ end.copied = j.copied
      BY <3>1 DEF Copy!JobFields
    <3> HIDE DEF end
    <3>3. QED
      BY <1>1, <2>1, <3>2 DEF Taken
  <2> HIDE DEF end
  <2>3. QED
    BY <1>1, <2>1, <2>2, TextPartsNext DEF AllTaken
<1>3. CASE Copy!Kill(p)
  <2>1. import_job' = [import_job EXCEPT ![p] = Copy!NoJob]
    BY <1>3 DEF Copy!Kill
  <2>2. Taken(Copy!NoJob)
    <3>1. Copy!NoJob.messages \in Seq(Texts)
      BY DEF Copy!NoJob
    <3>2. DOMAIN Copy!NoJob = Copy!JobFields /\ Copy!NoJob.n \in Nat /\ Copy!NoJob.at = "none"
      BY DEF Copy!NoJob, Copy!JobFields
    <3>3. QED
      BY <3>1, <3>2 DEF Taken
  <2>3. QED
    BY <1>1, <2>1, <2>2, TextPartsNext DEF AllTaken
<1>4. QED
  BY <1>2, <1>3

LEMMA TextKept ==
  ASSUME TextOK, ImportOK, [CommandsNext]_allVars
  PROVE  TextOK'
<1>1. CASE Copy!Next
  <2>1. ASSUME NEW f \in {"inbox", "copy"}, Copy!Export(f) PROVE TextOK'
    BY <2>1, ExportKeepsText
  <2>2. ASSUME NEW p \in Processes,
               Copy!StartImport(p) \/ Copy!ImportOne(p) \/ Copy!EndImport(p) \/ Copy!Kill(p)
        PROVE  TextOK'
    BY <2>2, StartImportKeepsText, ImportOneKeepsText, EndKeepsText
  <2>3. QED
    BY <1>1, <2>1, <2>2 DEF Copy!Next
<1>2. CASE UNCHANGED copyVars
  BY <1>2, TextParts, TextPartsNext DEF copyVars
<1>3. QED
  BY <1>1, <1>2 DEF CommandsNext, allVars

\* Whatever the messages look like, whichever export or import was killed before, and if
\* the messages were imported ones themselves: an import that has the folder to itself
\* adds every message that the export had written whole, with its text but for empty lines
\* at its end and with the flags that have a letter, and keeps the rows that were there.
THEOREM MailboxAlwaysComesBack == CommandsSpec => []MailboxComesBack
<1>1. CommandsInit => ImportOK /\ TextOK
  BY ImportStarts, TextStarts DEF CommandsInit
<1>2. ImportOK /\ TextOK /\ [CommandsNext]_allVars => (ImportOK /\ TextOK)'
  BY ImportKept, TextKept
<1>3. ImportOK /\ TextOK => MailboxComesBack
  <2>1. SUFFICES ASSUME ImportOK, TextOK PROVE Copy!MailboxComesBack
    BY DEF MailboxComesBack
  <2>2. Copy!ImportsAddInOrder
    BY <2>1 DEF ImportOK
  <2>3. Copy!FileComesBack
    BY <2>1 DEF TextOK, Copy!FileInv, Copy!FileComesBack
  <2>4. QED
    BY <2>2, <2>3 DEF Copy!MailboxComesBack
<1>4. QED
  BY <1>1, <1>2, <1>3, PTL DEF CommandsSpec
=============================================================================
