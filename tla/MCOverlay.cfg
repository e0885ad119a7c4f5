\* Two faults of the pipe; a router and a module that depends on it; three launches;
\* three packs with one runtime between them; two sessions of two events.
SPECIFICATION MCSpec
CONSTANTS
    MaxFaults = 2
    MaxEdits = 1
    Modules = {osc, face}
    Router = osc
    Dependents = {face}
    OldNames = {}
    MaxClicks = 2
    MaxCloses = 1
    OldPort = 9001
    UserPort = 9002
    MaxLaunches = 3
    MaxPortEdits = 2
    MayFail = {"copy", "key", "read", "router", "sentinel"}
    Packs = {de, fr, zh}
    Runtime = runtime
    Scripts = {s1, s2}
    MaxScripts = 3
    MaxRestarts = 1
    Others = {"steam", "vive"}
    NoSystem = NoSystem
    MaxSessions = 2
    MaxEvents = 3
INVARIANTS RepliesMatch ClickDecides PortIsCarried RuntimeIsKept SolveSurvives
PROPERTY DriverIsSet
CHECK_DEADLOCK FALSE
