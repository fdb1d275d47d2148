------------------------------ MODULE Accounts ------------------------------
(***************************************************************************)
(* Accounts and their secrets: config.toml, which every command reads      *)
(* whole and writes whole, and the OS keyring, which holds a password or a *)
(* refresh token under the *name* of an account.  `inbx accounts add`,     *)
(* `edit` and `remove`, `inbx oauth`, and the TUI's account wizard and     *)
(* OAuth login are processes (or tasks) that take one step of these at a   *)
(* time; the prompts of `add` and the browser of `login` lie between two   *)
(* of them.  External: the keyring, the browser and the token endpoint.    *)
(*                                                                         *)
(* An account is identified by the command that added it (`by`), and so is *)
(* a secret: 0 is no secret.                                               *)
(***************************************************************************)
EXTENDS Integers, Sequences, FiniteSets, SequencesExt

CONSTANTS
    Names,       \* names a user gives to accounts
    Processes,   \* commands that may run at the same time
    MaxAdds,     \* bound: accounts ever added
    MaxFaults    \* bound: commands killed half-way, keyring calls that fail

VARIABLES
    config,     \* the accounts of config.toml
    keyring,    \* keyring[n]: whose password is under "inbx", n
    tokens,     \* tokens[n]: whose refresh token is under "inbx-refresh", n
    job,        \* job[p]: what process p is doing
    added,      \* accounts added so far
    mishaps,    \* history: what the user did or suffered
    faults

vars == <<config, keyring, tokens, job, added, mishaps, faults>>

Account(name, auth, by) == [name |-> name, auth |-> auth, by |-> by, edited |-> FALSE]

NamesIn(accounts) == {accounts[i].name : i \in 1 .. Len(accounts)}

NoName == "no name"
Idle == [pc |-> "idle", name |-> NoName, by |-> 0, accounts |-> <<>>]

Init ==
    /\ config = <<>>
    /\ keyring = [n \in Names |-> 0] /\ tokens = [n \in Names |-> 0]
    /\ job = [p \in Processes |-> Idle]
    /\ added = 0 /\ mishaps = {} /\ faults = 0

\* What starting a command now does to the history.
Overlap(p, removes) ==
    LET others == {q \in Processes \ {p} : job[q].pc # "idle"} IN
      (IF others # {} THEN {"overlap"} ELSE {})
      \cup (IF others # {} /\ (removes \/ \E q \in others : job[q].pc \in {"save remove", "saving remove", "password", "token"})
            THEN {"removal overlaps"} ELSE {})

Begin(p, removes, doing) ==
    /\ job[p].pc = "idle"
    /\ job' = [job EXCEPT ![p] = doing]
    /\ mishaps' = mishaps \cup Overlap(p, removes)

\* pick_account: the first account of that name, in the config just loaded.
Picked(name) == SelectInSeq(config, LAMBDA account : account.name = name)

-----------------------------------------------------------------------------
(* inbx accounts add, the TUI's account wizard                             *)

\* Mutant: the account is saved before its password is asked for.
AfterPromptsSavesFirst(auth) == "save"

\* After the prompts: a password goes to the keyring first, an OAuth account
\* gets its token later, by `oauth login`.
AfterPrompts(auth) == IF auth = "password" THEN "store password" ELSE "save"

\* accounts add: the config is loaded, then everything is prompted for.
StartAdd(p, name, auth) ==
    /\ added < MaxAdds
    /\ name \notin NamesIn(config)   \* "account {name} already exists"
    /\ Begin(p, FALSE, [pc |-> AfterPrompts(auth), name |-> name, by |-> added + 1,
                        accounts |-> Append(config, Account(name, auth, added + 1))])
    /\ added' = added + 1
    /\ UNCHANGED <<config, keyring, tokens, faults>>

\* The wizard's form is complete and saved: nothing looks for the name.
StartWizard(p, name) ==
    /\ added < MaxAdds
    /\ job[p].pc = "idle"
    /\ job' = [job EXCEPT ![p] = [pc |-> "store password", name |-> name, by |-> added + 1,
                                  accounts |-> Append(config, Account(name, "password", added + 1))]]
    /\ mishaps' = mishaps \cup Overlap(p, FALSE) \cup (IF name \in NamesIn(config) THEN {"twins"} ELSE {})
    /\ added' = added + 1
    /\ UNCHANGED <<config, keyring, tokens, faults>>

StorePassword(p) ==
    /\ job[p].pc = "store password"
    /\ keyring' = [keyring EXCEPT ![job[p].name] = job[p].by]
    /\ job' = [job EXCEPT ![p] = [Idle EXCEPT !.pc = "save", !.accounts = job[p].accounts]]
    /\ UNCHANGED <<config, tokens, added, mishaps, faults>>

\* save: fs::write truncates config.toml, then writes it; an empty file is a
\* config without accounts.
Truncate(p) ==
    /\ job[p].pc \in {"save", "save remove"}
    /\ config' = <<>>
    /\ job' = [job EXCEPT ![p].pc = IF @ = "save" THEN "saving" ELSE "saving remove"]
    /\ UNCHANGED <<keyring, tokens, added, mishaps, faults>>

Save(p) ==
    /\ job[p].pc \in {"saving", "saving remove"}
    /\ config' = job[p].accounts
    /\ job' = [job EXCEPT ![p] = IF @.pc = "saving" THEN Idle ELSE [@ EXCEPT !.pc = "password", !.accounts = <<>>]]
    /\ UNCHANGED <<keyring, tokens, added, mishaps, faults>>

-----------------------------------------------------------------------------
(* inbx accounts edit, remove                                              *)

\* edit, oauth set-client, and the [pgp] section that key commands add: the
\* first account of the name changes; the name itself cannot.
StartEdit(p, name) ==
    /\ name \in NamesIn(config)
    /\ ~config[Picked(name)].edited
    /\ Begin(p, FALSE, [Idle EXCEPT !.pc = "save", !.accounts = [config EXCEPT ![Picked(name)].edited = TRUE]])
    /\ UNCHANGED <<config, keyring, tokens, added, faults>>

\* The accounts of other names, in order.
Without(accounts, name) ==
    LET kept[i \in 0 .. Len(accounts)] ==
            IF i = 0 THEN <<>>
            ELSE IF accounts[i].name = name THEN kept[i - 1] ELSE Append(kept[i - 1], accounts[i])
    IN  kept[Len(accounts)]

\* remove: every account of the name leaves the config ...
StartRemove(p, name) ==
    /\ name \in NamesIn(config)
    /\ Begin(p, TRUE, [Idle EXCEPT !.pc = "save remove", !.name = name,
                                   !.accounts = Without(config, name)])
    /\ UNCHANGED <<config, keyring, tokens, added, faults>>

\* ... then its password and its token leave the keyring.
DeletePassword(p) ==
    /\ job[p].pc = "password"
    /\ keyring' = [keyring EXCEPT ![job[p].name] = 0]
    /\ job' = [job EXCEPT ![p].pc = "token"]
    /\ UNCHANGED <<config, tokens, added, mishaps, faults>>

DeleteRefreshToken(p) ==
    /\ job[p].pc = "token"
    /\ tokens' = [tokens EXCEPT ![job[p].name] = 0]
    /\ job' = [job EXCEPT ![p] = Idle]
    /\ UNCHANGED <<config, keyring, added, mishaps, faults>>

\* `let _ = delete_...`: the keyring refuses, and remove goes on without a word.
KeyringRefuses(p) ==
    /\ job[p].pc \in {"password", "token"}
    /\ faults < MaxFaults
    /\ job' = [job EXCEPT ![p] = IF @.pc = "password" THEN [@ EXCEPT !.pc = "token"] ELSE Idle]
    /\ faults' = faults + 1
    /\ mishaps' = mishaps \cup {"killed"}
    /\ UNCHANGED <<config, keyring, tokens, added>>

-----------------------------------------------------------------------------
(* inbx oauth login, logout                                                *)

\* login: a listener on a port of its own, and a URL with a state for the browser.
StartLogin(p, name) ==
    /\ name \in NamesIn(config)
    /\ config[Picked(name)].auth = "oauth"
    /\ Begin(p, FALSE, [Idle EXCEPT !.pc = "listen", !.name = name, !.by = config[Picked(name)].by])
    /\ UNCHANGED <<config, keyring, tokens, added, faults>>

\* wait_for_callback serves one connection: the redirect with a code and the
\* state of this login, or anything else, which ends the login.
Callback(p, redirect) ==
    /\ job[p].pc = "listen"
    /\ job' = [job EXCEPT ![p] = IF redirect THEN [@ EXCEPT !.pc = "exchange"] ELSE Idle]
    /\ UNCHANGED <<config, keyring, tokens, added, mishaps, faults>>

\* The code is exchanged; an answer without a refresh token is an error.
Exchange(p, refresh) ==
    /\ job[p].pc = "exchange"
    /\ job' = [job EXCEPT ![p] = IF refresh THEN [@ EXCEPT !.pc = "store token"] ELSE Idle]
    /\ UNCHANGED <<config, keyring, tokens, added, mishaps, faults>>

StoreRefreshToken(p) ==
    /\ job[p].pc = "store token"
    /\ tokens' = [tokens EXCEPT ![job[p].name] = job[p].by]
    /\ job' = [job EXCEPT ![p] = Idle]
    /\ UNCHANGED <<config, keyring, added, mishaps, faults>>

Logout(name) ==
    /\ name \in NamesIn(config)
    /\ tokens' = [tokens EXCEPT ![name] = 0]
    /\ UNCHANGED <<config, keyring, job, added, mishaps, faults>>

-----------------------------------------------------------------------------

\* The process is killed, or a step of it fails, and what follows is not done.
Killed(p) ==
    /\ job[p].pc # "idle"
    /\ faults < MaxFaults
    /\ job' = [job EXCEPT ![p] = Idle]
    /\ faults' = faults + 1
    /\ mishaps' = mishaps \cup {"killed"}
    /\ UNCHANGED <<config, keyring, tokens, added>>

Step(p) ==
    \/ StorePassword(p) \/ Truncate(p) \/ Save(p)
    \/ DeletePassword(p) \/ DeleteRefreshToken(p)
    \/ \E yes \in BOOLEAN : Callback(p, yes) \/ Exchange(p, yes)
    \/ StoreRefreshToken(p)

Next ==
    \/ \E p \in Processes :
         \/ Step(p) \/ Killed(p) \/ KeyringRefuses(p)
         \/ \E n \in Names : \/ \E auth \in {"password", "oauth"} : StartAdd(p, n, auth)
                             \/ StartWizard(p, n) \/ StartEdit(p, n) \/ StartRemove(p, n) \/ StartLogin(p, n)
    \/ \E n \in Names : Logout(n)

Spec == Init /\ [][Next]_vars

-----------------------------------------------------------------------------
(* Properties                                                              *)

\* An account that logs in with a password finds one, whatever is killed and
\* whatever overlaps, as long as no other command runs during a removal: the
\* password is stored before the account and deleted after it.  And while
\* commands run one at a time and the wizard does not reuse a name, what an
\* account finds is its own, not that of another account of the same name.
AccountsHaveTheirSecrets ==
    \A i \in 1 .. Len(config) : LET account == config[i] IN
        /\ account.auth = "password" /\ "removal overlaps" \notin mishaps => keyring[account.name] # 0
        /\ account.auth = "password" /\ mishaps \cap {"overlap", "twins"} = {} => keyring[account.name] = account.by
        /\ account.auth = "oauth" /\ mishaps = {} => tokens[account.name] \in {0, account.by}

\* While commands run one at a time and to their end, no secret outlives its
\* account: the next account of that name cannot log in with it.
RemovedLeavesNothing ==
    mishaps = {} /\ (\A p \in Processes : job[p].pc = "idle") =>
        \A n \in Names : keyring[n] # 0 \/ tokens[n] # 0 => n \in NamesIn(config)

-----------------------------------------------------------------------------
(* Why they hold                                                           *)

AccountTypes == [name : Names, auth : {"password", "oauth"}, by : Nat \ {0}, edited : BOOLEAN]

Removing == {"save remove", "saving remove", "password", "token"}
Writing == {"store password", "save", "saving", "save remove", "saving remove"}
LoggingIn == {"listen", "exchange", "store token"}

Jobs == [pc : {"idle"} \cup Removing \cup Writing \cup LoggingIn,
         name : Names \cup {NoName}, by : Nat, accounts : Seq(AccountTypes)]

\* Every overlap that involves a removal is an overlap.
TypeOK ==
    /\ config \in Seq(AccountTypes)
    /\ keyring \in [Names -> Nat] /\ tokens \in [Names -> Nat]
    /\ job \in [Processes -> Jobs]
    /\ \A p \in Processes :
          /\ job[p].pc \in {"store password"} \cup Removing \cup LoggingIn => job[p].name \in Names
          /\ job[p].pc \in {"store password"} \cup LoggingIn => job[p].by # 0
    /\ added \in Nat /\ faults \in Nat
    /\ mishaps \subseteq {"overlap", "removal overlaps", "twins", "killed"}
    /\ "removal overlaps" \in mishaps => "overlap" \in mishaps

Doing == {p \in Processes : job[p].pc # "idle"}

\* A password precedes the account that needs it and survives it: a command that
\* removes the password is alone, and the account is off the list by then.
KeyedInv ==
    "removal overlaps" \notin mishaps =>
        /\ \A i \in 1 .. Len(config) : config[i].auth = "password" => keyring[config[i].name] # 0
        /\ \A p \in Processes : LET j == job[p] IN
              /\ j.pc \in Writing => \A i \in 1 .. Len(j.accounts) :
                    \/ j.accounts[i].auth = "password" => keyring[j.accounts[i].name] # 0
                    \/ j.pc = "store password" /\ j.accounts[i].name = j.name
              /\ j.pc \in Removing => Doing = {p}
              /\ j.pc \in {"save remove", "saving remove"} => j.name \notin NamesIn(j.accounts)
              /\ j.pc = "password" => j.name \notin NamesIn(config)

\* Accounts of one name are one account.
Twinless(accounts) ==
    \A i, k \in 1 .. Len(accounts) : accounts[i].name = accounts[k].name => accounts[i].by = accounts[k].by

\* Commands one at a time: a password is replaced only while no account of the
\* list has its name, so that whoever is listed finds their own.
OwnInv ==
    mishaps \cap {"overlap", "twins"} = {} =>
        /\ \A p, q \in Doing : p = q
        /\ \A i \in 1 .. Len(config) :
              config[i].auth = "password" => keyring[config[i].name] = config[i].by
        /\ Twinless(config)
        /\ \A p \in Processes : LET j == job[p] IN
              /\ j.pc \in Writing => /\ Twinless(j.accounts)
                                     /\ \A i \in 1 .. Len(j.accounts) :
                                          IF j.pc = "store password" /\ j.accounts[i].name = j.name
                                          THEN j.accounts[i].by = j.by
                                          ELSE j.accounts[i].auth = "password"
                                               => keyring[j.accounts[i].name] = j.accounts[i].by
              /\ j.pc = "store password" => j.name \notin NamesIn(config)

\* And to their end: what a secret may belong to is listed, or about to be, or
\* the account that is being removed; so a name that is free has no token.
Fitting(accounts) ==
    \A i \in 1 .. Len(accounts) :
        accounts[i].auth = "oauth" => tokens[accounts[i].name] \in {0, accounts[i].by}

Holders(j) == (IF j.pc \in Writing THEN NamesIn(j.accounts) ELSE NamesIn(config))
           \cup (IF j.pc \in Removing THEN {j.name} ELSE {})

CleanInv ==
    mishaps = {} =>
        /\ Fitting(config)
        /\ Doing = {} => \A n \in Names : keyring[n] # 0 \/ tokens[n] # 0 => n \in NamesIn(config)
        /\ \A p \in Doing : LET j == job[p] IN
              /\ j.pc \in Writing => Fitting(j.accounts)
              /\ j.pc = "store password" => j.name \in NamesIn(j.accounts)
              /\ j.pc = "token" => \A n \in Names : keyring[n] # 0 => n \in NamesIn(config)
              /\ \A n \in Names : keyring[n] # 0 \/ tokens[n] # 0 => n \in Holders(j)
              /\ j.pc \in LoggingIn =>
                    /\ j.name \in NamesIn(config)
                    /\ \A i \in 1 .. Len(config) : config[i].name = j.name => config[i].by = j.by
=============================================================================
