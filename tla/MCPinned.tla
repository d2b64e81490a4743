------------------------------ MODULE MCPinned ------------------------------
(* Small instances of Pinned for TLC: Kitty is another spelling of kitty,   *)
(* and hash is a class that starts with #.                                 *)
EXTENDS Pinned, TLC

CONSTANTS kitty, Kitty, foot, hash, blank

LowerCase == [c \in Class |-> IF c = Kitty THEN kitty ELSE c]

(* Files written by hand that name every app once. *)
CleanFiles ==
    {f \in BoundedSeq(Class \cup {blank}, 2) : Unique(Load(f))}
=============================================================================
