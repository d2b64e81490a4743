\* The daemon and the settings program rewrite the file; saves fail or are cut short.
CONSTANTS
    kitty = kitty
    Kitty = Kitty
    foot = foot
    hash = hash
    blank = blank
    Class = {kitty, Kitty, foot, hash}
    Fold <- LowerCase
    Hidden = {hash}
    Blank = blank
    Files <- CleanFiles
    Faults = {"crash", "write_error", "settings"}
    MaxOps = 4
SPECIFICATION Spec
INVARIANTS TypeOK NoDuplicates ListIsStored PinsLostOnlyByMishap
CHECK_DEADLOCK FALSE
