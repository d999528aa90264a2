SPECIFICATION Spec
CONSTANTS
    Modes = {"stdio"}
    MaxLines = 1
    Answers = 1
    Exits = {}
    PipeCap = 1
INVARIANT
    FlushesOnShutdown
