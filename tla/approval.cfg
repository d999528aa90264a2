SPECIFICATION Spec
CONSTANTS
    Nil = Nil
    Requests = {r1, r2}
    Channels <- MCChannels
    Registry <- MCRegistry
    MaxLines = 2
INVARIANTS
    TypeOK
    ApprovedByItsReviewer
    NoLateVerdict
PROPERTY
    HandleReturns
