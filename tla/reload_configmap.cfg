SPECIFICATION WatcherSpec
CONSTANTS
    good = good
    better = better
    bad = bad
    Torn = Torn
    Nil = Nil
    Versions <- MCVersions
    Loads <- MCLoads
    Replaces = TRUE
    EditsEarly = FALSE
    AddFails = FALSE
    MaxEvents = 2
INVARIANT
    WorksWithConfigMaps
