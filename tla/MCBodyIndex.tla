----------------------------- MODULE MCBodyIndex -----------------------------
(* Small instances of BodyIndex for TLC. *)
EXTENDS BodyIndex

CONSTANTS daemon, cli, tui, user

OneDaemon == {daemon}
Syncing == {daemon, cli}
OneViewer == {tui}
OneUser == {user}
Alternatives == {{daemon}, {daemon, tui, user}, {daemon, cli}}

TwoUids == {1, 2}
OneUid == {2}
=============================================================================
