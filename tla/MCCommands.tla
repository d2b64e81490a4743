----------------------------- MODULE MCCommands -----------------------------
(* Small instances of Commands for TLC: Kitty is spelt kitty in lower case, *)
(* and a class in reverse-domain notation ends in it.  The addresses are   *)
(* alike: nothing compares them but for equality.                          *)
EXTENDS Commands, TLC

CONSTANTS a1, a2, none

LowerCase == [c \in Class |-> IF c = "Kitty" THEN "kitty" ELSE c]
LastParts == [c \in Class |-> IF c = "org.kitty" THEN "kitty" ELSE ""]
Inside == {<<"kitty", "kitty">>, <<"Kitty", "kitty">>, <<"kitty-open", "kitty">>}

(* A file by the name of the class, one whose name contains it, one that    *)
(* names it inside, a hidden entry without icon and program, and a backup.  *)
SomeApps ==
    {[stem |-> "kitty", suffix |-> "plain", icon |-> "cat", exec |-> "kitty", wmclass |-> ""],
     [stem |-> "kitty-open", suffix |-> "plain", icon |-> "open", exec |-> "open", wmclass |-> ""],
     [stem |-> "term", suffix |-> "caps", icon |-> "term", exec |-> "term", wmclass |-> "Kitty"],
     [stem |-> "Kitty", suffix |-> "plain", icon |-> "", exec |-> "", wmclass |-> ""],
     [stem |-> "kitty", suffix |-> "more", icon |-> "cat", exec |-> "old", wmclass |-> ""]}

Alike == Permutations({a1, a2})

OnePinned == <<"foot">>

SomeOverrides == {[class |-> "Kitty", icon |-> "mine"]}

(* What the theorem about the cache asks of the overrides. *)
ASSUME OverridesAssumption == OverridesDiffer
=============================================================================
