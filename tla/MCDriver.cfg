\* Two features, a thread of SteamVR, one client per server.
SPECIFICATION MCSpec
CONSTANTS
    Parts = {"load"}
    Features = {"calibration", "inputhealth"}
    Threads = {t1}
    MaxClients = 1
    MaxPresses = 2
    MaxFaults = 1
    ReadyThreshold = 2
INVARIANT DrainProtects
PROPERTY UnloadEnds
CHECK_DEADLOCK FALSE
