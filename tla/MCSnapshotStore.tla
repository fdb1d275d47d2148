-------------------------- MODULE MCSnapshotStore --------------------------
(* Small instances of SnapshotStore for TLC. *)
EXTENDS SnapshotStore

CONSTANTS inbox, work, daemon, tui, cli, user

JustInbox == {inbox}
TwoFolders == {inbox, work}
NoOne == {}
OneDaemon == {daemon}
OneTui == {tui}
OneCli == {cli}
OneUser == {user}
OneUid == {1}
TwoUids == {1, 2}
=============================================================================
