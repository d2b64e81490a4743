----------------------------- MODULE MCMainLoop -----------------------------
(* Small instances of MainLoop for TLC. *)
EXTENDS MainLoop, TLC

CONSTANTS a1, a2, none, m1, m2, kitty

(* Every window is of one class. *)
OneClass == [a \in Addr |-> kitty]

(* The window at a2 has an empty class. *)
A2Nameless == [a \in Addr |-> IF a = a2 THEN "" ELSE kitty]

(* A workspace and a special one. *)
OneSpecial == {1, -1}

(* Addresses of windows of one class are interchangeable. *)
AddrSymmetry == Permutations({a1, a2})

=============================================================================
