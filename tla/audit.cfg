SPECIFICATION Spec
CONSTANTS
    Records = {r1, r2, r3, r4}
    Cap = 2
    MaxBatch = 2
    Outputs <- WebhookFirst
    Outlive = TRUE
    Aborts = TRUE
    Faulty = TRUE
INVARIANTS
    TypeOK
    LogInOrder
    Accounted
    BatchesAreStretches
    CloseKeepsAll
PROPERTY
    RecordsMoveOn
