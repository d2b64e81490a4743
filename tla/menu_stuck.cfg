\* The item whose menu is open gets another title.
CONSTANTS
    s1 = s1
    s2 = s2
    i1 = i1
    i2 = i2
    none = none
    Screens = {s1}
    Items = {i1, i2}
    NoMenu = none
SPECIFICATION FairSpec
PROPERTIES HidesWhenLeft
CHECK_DEADLOCK FALSE
