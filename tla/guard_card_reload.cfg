SPECIFICATION Spec
CONSTANTS
    Nil = Nil
    Tools <- MCTools
    Agents <- MCAgents
    Args <- MCArgs
    Windows <- MCWindows
    Channels <- MCChannels
    AlertChannels <- MCAlertChannels
    Files <- CardFiles
    Messages <- MCMessages
    OwnAgent = "bot"
    Unhurried = {"terminal"}
    Transport = {"http"}
    Calls = {c1, c2}
    Lossy = TRUE
    Refills = FALSE
INVARIANT
    CardRulesSurvive
