\* Every file of up to two lines, rewritten in place, replaced, or saved by the settings program, also while the daemon starts.
CONSTANTS
    Text <- AnyWord
    IniFiles <- ShortFiles
    Rewrites <- TwoFiles
    Settings <- Sliders
    Ways = {"in place", "replace", "settings", "early"}
    MaxChanges = 4
SPECIFICATION FairReloadSpec
INVARIANTS ReloadTypeOK WaitsUpToDate
PROPERTIES SavedAsShown ReloadSettles
CHECK_DEADLOCK FALSE
