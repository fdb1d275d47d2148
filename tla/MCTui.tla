------------------------------- MODULE MCTui -------------------------------
(***************************************************************************)
(* One run for the TUI: its background operations, its two lists, its keys *)
(* and overlays, and what is said on its ManageSieve connection.  The      *)
(* modules share no state, so a behaviour is one of a single part, and the *)
(* others stay in an initial state of theirs.                              *)
(*                                                                         *)
(* Two accounts; two drafts; three folders of which the second may be a    *)
(* \Noselect parent; every kind of user, with one habit at a time (the     *)
(* theorems of TuiOpsProofs are for any); searches that find two messages; *)
(* two scripts, one record more than an answer may have.                   *)
(***************************************************************************)
EXTENDS TuiOps, TuiBinds, FiniteSets

CONSTANTS
    Folders, NoSelect, Uids, Habits, MaxChanges,     \* TuiView's
    Scripts, MaxRecords, MaxEdits                    \* ManageSieve's

ASSUME FoldersAssumption == Folders \subseteq Nat \ {0} /\ IsFiniteSet(Folders)
ASSUME UidsAssumption == Uids \subseteq Nat \ {0} /\ IsFiniteSet(Uids)
ASSUME ChangesAssumption == MaxChanges \in Nat
ASSUME ScriptsAssumption == IsFiniteSet(Scripts)

VARIABLES
    part,
    habits, exists, rows, open_account, listed, fsel, shown, msel, watch, changes,  \* TuiView
    typist, running, pane, receipt, help, leader, g, pgp, open, picker, prompt,     \* TuiKeys
    mode, search, last, running_op,
    who, warning, literals, scripts, active, edits, connection, wire, todo, asked,  \* ManageSieve
    offered, answer, told

View == INSTANCE TuiView WITH account <- open_account

Typing == INSTANCE TuiKeys WITH MaxResults <- 2, user <- typist, op <- running_op

Sieve == INSTANCE ManageSieve WITH Names <- Scripts, open <- connection, listed <- offered

viewVars == <<habits, exists, rows, open_account, listed, fsel, shown, msel, watch, changes>>
typingVars == <<typist, running, pane, receipt, help, leader, g, pgp, open, picker, prompt,
                mode, search, last, running_op>>
scriptVars == <<who, warning, literals, scripts, active, edits, connection, wire, todo, asked,
                   offered, answer, told>>
allVars == <<part, vars, viewVars, typingVars, scriptVars>>

TuiInit ==
    /\ part \in {"ops", "view", "keys", "sieve"}
    /\ Init /\ View!Init /\ Typing!Init /\ Sieve!Init
    /\ part # "ops" => Patient
    /\ part # "view" => habits = {"jump"}
    /\ part # "keys" => typist = "patient" /\ receipt
    /\ part # "sieve" => who = "tui" /\ warning = "none" /\ literals = {}

TuiNext ==
    \/ part = "ops" /\ Next /\ UNCHANGED <<part, viewVars, typingVars, scriptVars>>
    \/ part = "view" /\ View!Next /\ UNCHANGED <<part, vars, typingVars, scriptVars>>
    \/ part = "keys" /\ Typing!Next /\ UNCHANGED <<part, vars, viewVars, scriptVars>>
    \/ part = "sieve" /\ Sieve!Next /\ UNCHANGED <<part, vars, viewVars, typingVars>>

\* The fairness of each part.
TuiFairness ==
    /\ WF_vars(part = "ops" /\ OpTask)
    /\ WF_vars(part = "ops" /\ DropTask)
    /\ SF_vars(part = "ops" /\ Handle)
    /\ WF_typingVars(part = "keys" /\ Typing!Escape)
    /\ WF_typingVars(part = "keys" /\ Typing!Result)

TuiSpec == TuiInit /\ [][TuiNext]_allVars /\ TuiFairness

-----------------------------------------------------------------------------
(* Properties: those of TuiOps, and of the parts in the behaviours of each. *)

\* A sieve operation finds the session of its own account, and what its request
\* reads there is the server's answer to it, not the rest of an earlier one.
SessionAnswersItsOwner == FindsItsSession /\ (part = "sieve" => Sieve!AnswersAreOwn)

\* What a command sends, the current folder with the uid of the selected message,
\* is what the user sees selected.
ShownIsCurrent == part = "view" => View!ShownIsCurrent

\* What happens in the background keeps the user's place, and lets both lists agree.
BackgroundKeepsThePlace == View!BackgroundKeepsThePlace

\* Keys go to the overlay on top, for a user who lets operations finish.
KeysGoToWhatIsSeen == part = "keys" => Typing!KeysGoToWhatIsSeen

\* Esc alone leads back to the list.
EscapeLeadsOut == []<>(part = "keys" => Typing!Out)
=============================================================================
