SPECIFICATION Spec
CONSTANTS
    Nil = Nil
    Tools <- MCTools
    Agents = {"bot"}
    Args <- MCArgs
    Windows <- MCWindows
    Channels = {"terminal"}
    AlertChannels = {}
    Jobs <- MCJobs
    Work <- MCWork
    Policies <- MCPolicies
    Broken <- MCBroken
    Schedule <- MCSchedule
    Unparsed <- MCUnparsed
    Period = 2
    PerMinute = 2
    MaxTime = 4
    MaxReloads = 2
INVARIANTS
    TypeOK
    VerdictIsAPolicys
    ListIsTrue
    CompiledOnce
PROPERTY
    AllReturn
CHECK_DEADLOCK FALSE
