\* Windows come, go, move, also to a special workspace, and take the focus; the connection is lost once.
CONSTANTS
    a1 = a1
    a2 = a2
    none = none
    m1 = m1
    m2 = m2
    kitty = kitty
    Addr = {a1, a2}
    NoAddr = none
    Workspace <- OneSpecial
    Monitor = {m1}
    ClassOf <- OneClass
    NoClass = ""
    Ops = {"open", "close", "move", "focus"}
    MaxSteps = 3
    MaxDrops = 1
    MaxEvents = 32
    MaxCmds = 0
    MaxFails = 0
    Faults = {}
SPECIFICATION Spec
INVARIANTS TypeOK ShownCurrent LiveIsSynced WindowsSettle FocusSettles
SYMMETRY AddrSymmetry
CHECK_DEADLOCK FALSE
