------------------------------ MODULE MCOutbox ------------------------------
(* A small instance of Outbox for TLC. *)
EXTENDS Outbox

CONSTANTS m1, m2, cli, compose, daemon, tui, panel

TwoMsgs == {m1, m2}
OneQueued == <<m1>>
TwoQueued == <<m1, m2>>
TwoSenders == {cli, compose}
OneDaemon == {daemon}
OneTui == {tui}
OnePanel == {panel}
\* Two senders and a drain; every pair of drains that has the daemon in it.
Alternatives == {{cli, compose, daemon}, {daemon, tui}, {daemon, panel}}
\* A sender and two drains at once.
AllTogether == {{cli, daemon, tui}}
=============================================================================
