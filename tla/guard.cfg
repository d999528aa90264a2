SPECIFICATION Spec
CONSTANTS
    Nil = Nil
    Tools <- MCTools
    Agents <- MCAgents
    Args <- MCArgs
    Windows <- MCWindows
    Channels <- MCChannels
    AlertChannels <- MCAlertChannels
    Files <- MCFiles
    Messages <- MCMessages
    OwnAgent = "bot"
    Unhurried = {"terminal"}
    Transport = {"stdio", "http", "bridge"}
    Calls = {c1, c2}
    Lossy = TRUE
    Refills = FALSE
INVARIANTS
    TypeOK
    PassedWithLeave
    ArrivesAsDecided
    OneFate
    LeavesATrail
    SilenceIsTheServers
    NoOverspend
PROPERTIES
    KeepsThePromise
    Settles
