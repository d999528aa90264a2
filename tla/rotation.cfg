SPECIFICATION Spec
CONSTANTS
    Limits <- MCLimits
    MaxFiles = 3
    Size = 2
    MaxRecords = 10
    MaxStarts = 1
    Faulty = TRUE
INVARIANTS
    TypeOK
    OnlyOldestGoes
    EnoughKept
CHECK_DEADLOCK FALSE
