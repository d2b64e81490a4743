---------------------------- MODULE MCDockWindow ----------------------------
(* Small instances of DockWindow for TLC. *)
EXTENDS DockWindow, TLC

CONSTANTS s1, s2, i1, i2, none
=============================================================================
