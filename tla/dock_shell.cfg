\* Five states; two commands, the second given while the run of the first may still be under way.
CONSTANTS
    a1 = a1
    a2 = a2
    a3 = a3
    kitty = kitty
    Kitty = Kitty
    foot = foot
    Address = {a1, a2, a3}
    Class = {kitty, Kitty, foot}
    Fold <- LowerCase
    States <- SomeStates
    Later <- FewStates
    MaxChanges = 1
    MaxCrashes = 1
    MaxRuns = 2
SPECIFICATION SessionSpec
INVARIANTS SessionTypeOK EachWindowOnce Grouped
PROPERTIES DockFollows KillStops
CHECK_DEADLOCK FALSE
