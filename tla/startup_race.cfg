\* A window opened between the first snapshot and the subscription.
CONSTANTS
    a1 = a1
    a2 = a2
    none = none
    m1 = m1
    m2 = m2
    kitty = kitty
    Addr = {a1, a2}
    NoAddr = none
    Workspace = {1}
    Monitor = {m1}
    ClassOf <- OneClass
    NoClass = ""
    Ops = {"open", "close"}
    MaxSteps = 1
    MaxDrops = 0
    MaxEvents = 32
    MaxCmds = 0
    MaxFails = 0
    Faults = {"startup_activity"}
SPECIFICATION Spec
INVARIANTS ShowsRunningWindows
SYMMETRY AddrSymmetry
CHECK_DEADLOCK FALSE
