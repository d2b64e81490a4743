\* Two monitors, a nameless window, start-up activity, a failing request, small batches, commands and the exit of the shell.
CONSTANTS
    a1 = a1
    a2 = a2
    none = none
    m1 = m1
    m2 = m2
    kitty = kitty
    Addr = {a1, a2}
    NoAddr = none
    Workspace = {1, 2}
    Monitor = {m1, m2}
    ClassOf <- A2Nameless
    NoClass = ""
    Ops = {"close", "workspace", "monitor"}
    MaxSteps = 2
    MaxDrops = 0
    MaxEvents = 2
    MaxCmds = 1
    MaxFails = 1
    Faults = {"startup_activity", "shell_exit"}
SPECIFICATION Spec
INVARIANTS ActiveCoherent FocusSettles
CHECK_DEADLOCK FALSE
