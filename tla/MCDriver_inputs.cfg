\* A button that is learned from two presses, an axis, and a request that fails
\* though the driver runs.
SPECIFICATION MCSpec
CONSTANTS
    Parts = {"inputs"}
    Features = {"calibration", "inputhealth"}
    Threads = {t1}
    MaxClients = 1
    MaxPresses = 2
    MaxFaults = 1
    ReadyThreshold = 2
INVARIANT AppliesOnlyLearned
PROPERTY LearnedReaches
