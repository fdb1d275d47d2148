------------------------------ MODULE Contacts ------------------------------
(***************************************************************************)
(* The address book of one account: a table of contacts keyed by address   *)
(* (letter case aside), the commands and the sync loop that write it, and  *)
(* the cards of a CardDAV server that `contacts add` pushes to and         *)
(* `contacts carddav pull` reads.                                          *)
(*                                                                         *)
(* Every statement on the table is atomic; a command is a sequence of      *)
(* statements and requests.  `contacts add` is the only command that opens *)
(* the store with CardDAV credentials: its upsert spawns the PUT as a task *)
(* of its own, and the process may end before the task does.  External:    *)
(* the CardDAV server and its other clients, and the messages that come in.*)
(***************************************************************************)
EXTENDS Integers, Sequences, FiniteSets, SequencesExt

CONSTANTS
    Addresses,    \* addresses, up to letter case
    Names,        \* display names
    Keys,         \* armored public keys
    Within,       \* pairs <<q, a>>: address a has q for a prefix (a itself, too)
    Mail,         \* Mail[m]: the addresses of message m, in order
    Failing,      \* whether requests to the server may fail
    MaxCount,     \* bound: frecency
    MaxCommands   \* bound: commands of the user, edits of other clients

VARIABLES
    configured,   \* the account has a [carddav] section
    rows,         \* rows[a]: the contact stored under a
    recent,       \* the stored addresses, by last_used_unix, the latest first
    cards,        \* cards[u]: the card of resource u on the server
    pushes,       \* PUTs spawned by `contacts add` processes that still run
    pulling,      \* what `carddav pull` has left to upsert
    harvesting,   \* what `contacts harvest` has left to bump
    commands

vars == <<configured, rows, recent, cards, pushes, pulling, harvesting, commands>>

None == "none"
NoRow == [name |-> None, count |-> -1, key |-> None]
Present(a) == rows[a] # NoRow

\* Resources of the address book: the UID of the automatic push is a digest of
\* the address, that of `carddav push` the address written out, and other
\* clients choose their own; so one contact can have several cards.
Uids == {"auto", "cli", "other"} \X Addresses
AddressOf(uid) == uid[2]
NoCard == None

Init ==
    /\ configured \in BOOLEAN
    /\ rows = [a \in Addresses |-> NoRow] /\ recent = <<>>
    /\ cards = [u \in Uids |-> NoCard]
    /\ pushes = {} /\ pulling = <<>> /\ harvesting = <<>>
    /\ commands = 0

Command == commands < MaxCommands /\ commands' = commands + 1

-----------------------------------------------------------------------------
(* The table                                                               *)

Coalesce(new, old) == IF new = None THEN old ELSE new

\* Mutant: the name that is stored stays.
UpsertedNameKept(row, name) ==
    IF row = NoRow THEN [name |-> name, count |-> 0, key |-> None]
    ELSE [row EXCEPT !.name = Coalesce(row.name, name)]

\* upsert's INSERT ... ON CONFLICT(email) DO UPDATE: a name replaces a name.
Upserted(row, name) ==
    IF row = NoRow THEN [name |-> name, count |-> 0, key |-> None]
    ELSE [row EXCEPT !.name = Coalesce(name, row.name)]

\* bump: as upsert, and one more appearance.
Bumped(row, name) ==
    IF row = NoRow THEN [name |-> name, count |-> 1, key |-> None]
    ELSE [row EXCEPT !.name = Coalesce(name, row.name), !.count = @ + 1]

\* Mutant: INSERT OR REPLACE, a fresh row for every key.
KeyedAnew(row, key) == [name |-> None, count |-> 0, key |-> key]

\* store_autocrypt: the last key wins; name, count and last use stay.
Keyed(row, key) ==
    IF row = NoRow THEN [name |-> None, count |-> 0, key |-> key] ELSE [row EXCEPT !.key = key]

Touch(a) == recent' = <<a>> \o Remove(recent, a)

Upsert(a, name) == rows' = [rows EXCEPT ![a] = Upserted(@, name)] /\ Touch(a)

\* search, for an address: every contact that has the text, frecency first.
Before(a, b) == \/ rows[a].count > rows[b].count
                \/ rows[a].count = rows[b].count /\ IndexFirstSubSeq(<<a>>, recent) < IndexFirstSubSeq(<<b>>, recent)
Found(q) == {a \in Addresses : Present(a) /\ <<q, a>> \in Within}
Search(q) == SetToSortSeq(Found(q), Before)

-----------------------------------------------------------------------------
(* Commands and tasks                                                      *)

\* contacts add: the row is upserted, and with CardDAV configured a task is
\* spawned that will PUT the name given -- not the name stored.
Add(a, name) ==
    /\ Command
    /\ Upsert(a, name)
    /\ pushes' = IF configured THEN pushes \cup {[address |-> a, name |-> name]} ELSE pushes
    /\ UNCHANGED <<configured, cards, pulling, harvesting>>

\* push_to_carddav: the card is overwritten, without a name by the address.
Push(push) ==
    /\ cards' = [cards EXCEPT ![<<"auto", push.address>>] = Coalesce(push.name, push.address)]
    /\ pushes' = pushes \ {push}
    /\ UNCHANGED <<configured, rows, recent, pulling, harvesting, commands>>

\* The request fails, which is logged.
PushFails(push) ==
    /\ Failing
    /\ pushes' = pushes \ {push}
    /\ UNCHANGED <<configured, rows, recent, cards, pulling, harvesting, commands>>

\* Nobody waits for the task: main returns after "upserted", and the runtime
\* drops what it has not finished.
Exit(push) ==
    /\ pushes' = pushes \ {push}
    /\ UNCHANGED <<configured, rows, recent, cards, pulling, harvesting, commands>>

\* carddav push: the best match must be the address itself; create only.
CliPush(a) ==
    /\ Command
    /\ Search(a) # <<>> /\ Head(Search(a)) = a
    /\ cards[<<"cli", a>>] = NoCard
    /\ cards' = [cards EXCEPT ![<<"cli", a>>] = Coalesce(rows[a].name, a)]
    /\ UNCHANGED <<configured, rows, recent, pushes, pulling, harvesting>>

\* carddav pull: the cards of one REPORT, in the server's order ...
Pull ==
    /\ pulling = <<>>
    /\ \E order \in SetToSeqs({u \in Uids : cards[u] # NoCard}) :
         pulling' = [i \in 1 .. Len(order) |-> [address |-> AddressOf(order[i]), name |-> cards[order[i]]]]
    /\ UNCHANGED <<configured, rows, recent, cards, pushes, harvesting, commands>>

\* ... are upserted one by one, into a store without CardDAV credentials.
PullCard ==
    /\ pulling # <<>>
    /\ Upsert(Head(pulling).address, Head(pulling).name)
    /\ pulling' = Tail(pulling)
    /\ UNCHANGED <<configured, cards, pushes, harvesting, commands>>

\* contacts harvest, and a message sent: the addresses of messages, one by one.
Harvest(m) ==
    /\ Command
    /\ harvesting = <<>>
    /\ harvesting' = Mail[m]
    /\ UNCHANGED <<configured, rows, recent, cards, pushes, pulling>>

Bump ==
    /\ harvesting # <<>>
    /\ LET next == Head(harvesting) IN
         /\ rows[next.address].count < MaxCount
         /\ rows' = [rows EXCEPT ![next.address] = Bumped(@, next.name)]
         /\ Touch(next.address)
    /\ harvesting' = Tail(harvesting)
    /\ UNCHANGED <<configured, cards, pushes, pulling, commands>>

\* The sync loop, `inbx fetch` or the viewer meets an Autocrypt header.
Autocrypt(a, key) ==
    /\ Command
    /\ rows' = [rows EXCEPT ![a] = Keyed(@, key)]
    /\ recent' = IF Present(a) THEN recent ELSE <<a>> \o recent
    /\ UNCHANGED <<configured, cards, pushes, pulling, harvesting>>

\* contacts remove
Delete(a) ==
    /\ Command
    /\ rows' = [rows EXCEPT ![a] = NoRow]
    /\ recent' = Remove(recent, a)
    /\ UNCHANGED <<configured, cards, pushes, pulling, harvesting>>

\* Another client writes a card or deletes one.
RemoteCard(u, card) ==
    /\ Command
    /\ card = NoCard \/ u[1] = "other"
    /\ cards' = [cards EXCEPT ![u] = card]
    /\ UNCHANGED <<configured, rows, recent, pushes, pulling, harvesting>>

Next ==
    \/ \E a \in Addresses :
         \/ \E name \in Names \cup {None} : Add(a, name)
         \/ \E key \in Keys : Autocrypt(a, key)
         \/ CliPush(a) \/ Delete(a)
    \/ \E push \in pushes : Push(push) \/ PushFails(push) \/ Exit(push)
    \/ Pull \/ PullCard \/ Bump
    \/ \E m \in DOMAIN Mail : Harvest(m)
    \/ \E u \in Uids, card \in Names \cup {NoCard} : RemoteCard(u, card)

\* The user pulls now and then, and a command that runs goes on.  A spawned PUT
\* ends, one way or the other.
Fairness ==
    /\ WF_vars(Pull) /\ WF_vars(PullCard) /\ WF_vars(Bump)
    /\ WF_vars(\E push \in pushes : Push(push) \/ Exit(push))

Spec == Init /\ [][Next]_vars /\ Fairness

-----------------------------------------------------------------------------
(* Properties                                                              *)

\* Whatever runs at the same time -- a pull, a harvest, the sync loop's keys --
\* only `contacts remove` takes a contact away: nothing else makes a name or a
\* key unknown or a count smaller.
OnlyRemoveForgets ==
    [][\A a \in Addresses : Present(a) =>
          \/ Delete(a)
          \/ /\ rows'[a] # NoRow
             /\ rows'[a].count >= rows[a].count
             /\ rows[a].name # None => rows'[a].name # None
             /\ rows[a].key # None => rows'[a].key # None]_vars

\* A user who pulls now and then ends up with the server's name for every
\* contact that has one card, even when a pull worked from a listing that an
\* `add`, a push or another client had overtaken.
NamedAsOnServer ==
    \A u \in Uids :
        cards[u] # NoCard /\ (\A v \in Uids \ {u} : AddressOf(v) = AddressOf(u) => cards[v] = NoCard)
        => rows[AddressOf(u)].name = cards[u]
EventuallyNamedAsOnServer == <>[]NamedAsOnServer

\* The comment on `with_carddav` says that "`upsert` auto-pushes on each write":
\* with a server that answers, what `contacts add` is about to push reaches it.
AddedIsPushed ==
    \A a \in Addresses, name \in Names :
        [address |-> a, name |-> name] \in pushes ~> cards[<<"auto", a>>] = name
=============================================================================
