SPECIFICATION Spec
CONSTANTS
    Modes <- AllModes
    MaxLines = 3
    Answers = 2
    Exits = {"exited", "failed"}
    PipeCap = 1
INVARIANTS
    TypeOK
    NothingLeftBehind
PROPERTY
    SessionEnds
