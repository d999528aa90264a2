SPECIFICATION Spec
CONSTANTS
    Nil = Nil
    Handlers = {h1, h2}
    Tools = {"read", "drop"}
    Agents = {"bot"}
    Names = {"calls", "drops"}
    Limits <- MCLimits
    Faulty = TRUE
    MaxCount = 3
    MaxLife = 2
SYMMETRY Symmetry
INVARIANTS
    TypeOK
    SharedLimitHolds
    UnexpiringIsFaulty
CHECK_DEADLOCK FALSE
