\* Clicks on two addresses that are used again, in both languages of Hyprland; files are installed and icons overridden.
CONSTANTS
    a1 = a1
    a2 = a2
    none = none
    Class = {"kitty", "Kitty", "org.kitty", "foot"}
    Fold <- LowerCase
    LastPart <- LastParts
    Within <- Inside
    MaxCache = 2
    Addr = {a1, a2}
    NoAddr = none
    Apps <- SomeApps
    Override <- SomeOverrides
    AtStart <- OnePinned
    Ops = {"open", "close", "focus", "reload", "install", "overrides"}
    MaxSteps = 3
    MaxCmds = 1
    MaxFails = 1
SPECIFICATION Spec
INVARIANTS TypeOK DoneAsTold CacheSound
PROPERTIES HitsWhatWasMeant LaunchesWhatIsShown
SYMMETRY Alike
CHECK_DEADLOCK FALSE
