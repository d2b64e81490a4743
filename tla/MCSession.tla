------------------------------ MODULE MCSession -----------------------------
(* Small instances of Session for TLC: Kitty is another spelling of kitty.   *)
EXTENDS Session, TLC

CONSTANTS a1, a2, a3, kitty, Kitty, foot

LowerCase == [c \in Class |-> IF c = Kitty THEN kitty ELSE c]

(* A state of the daemon: windows of these classes, the first one active. *)
State(classes, pins) ==
    [clients |-> [i \in DOMAIN classes |->
        [addr |-> <<a1, a2, a3>>[i], class |-> classes[i], active |-> i = 1]],
     pinned |-> pins]

(* Apps that are pinned and not running; a class that is pinned in another  *)
(* spelling, among windows of another one.                                 *)
FewStates == {State(<<>>, <<foot, kitty>>), State(<<kitty, foot, Kitty>>, <<Kitty>>)}

(* The same windows unpinned, or in another order; a class spelt in both    *)
(* ways behind a pinned app that is not running.                           *)
SomeStates ==
    FewStates \cup
    {State(<<kitty, foot, Kitty>>, <<>>), State(<<foot, Kitty, kitty>>, <<Kitty>>),
     State(<<Kitty, kitty>>, <<foot, kitty>>)}

(* What the theorems about the dock ask of a state. *)
ASSUME UnambiguousAssumption == \A s \in States : Unambiguous(s)
=============================================================================
