\* A fair daemon: windows, workspaces, modes and focus change, the connection is lost once.
CONSTANTS
    a1 = a1
    a2 = a2
    none = none
    m1 = m1
    m2 = m2
    kitty = kitty
    Addr = {a1, a2}
    NoAddr = none
    Workspace = {1, 2}
    Monitor = {m1}
    ClassOf <- OneClass
    NoClass = ""
    Ops = {"open", "close", "move", "float", "fullscreen", "focus", "reload", "other"}
    MaxSteps = 2
    MaxDrops = 1
    MaxEvents = 32
    MaxCmds = 0
    MaxFails = 0
    Faults = {}
SPECIFICATION FairSpec
PROPERTIES WindowsConverge FocusConverges
CHECK_DEADLOCK FALSE
