------------------------------ MODULE MCTuiView ------------------------------
(* Small instances of TuiView for TLC: folder 1 or 2 may be a \Noselect parent. *)
EXTENDS TuiView
================================================================================
