\* Two screens that come and go, an item that comes and goes, every configuration.
CONSTANTS
    s1 = s1
    s2 = s2
    i1 = i1
    i2 = i2
    none = none
    Screens = {s1, s2}
    Items = {i1}
    NoMenu = none
SPECIFICATION FairSpec
INVARIANTS TypeOK MenuKeepsDock MagnifiedByPointer
PROPERTIES NeverHidesUnderPointer HidesAtLast
CHECK_DEADLOCK FALSE
