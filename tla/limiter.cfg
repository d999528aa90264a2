SPECIFICATION Spec
CONSTANTS
    Nil = Nil
    Callers = {c1, c2}
    Tools = {"read", "drop"}
    Agents = {"bot"}
    Names = {"burst", "slow"}
    Limits <- MCLimits
    MaxTime = 4
INVARIANTS
    TypeOK
    WithinRate
    RefusedInTheWindow
PROPERTY
    ChecksAreAtomic
