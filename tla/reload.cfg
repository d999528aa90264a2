SPECIFICATION WatcherSpec
CONSTANTS
    good = good
    better = better
    bad = bad
    Torn = Torn
    Nil = Nil
    Versions <- MCVersions
    Loads <- TornLoads
    Replaces = TRUE
    EditsEarly = TRUE
    AddFails = TRUE
    MaxEvents = 2
INVARIANTS
    WatcherTypeOK
    SettledIsCurrent
PROPERTY
    SavedTakesEffect
CHECK_DEADLOCK FALSE
