\* Two anchors and a buffer of two samples; two base stations and a few of the
\* detectors' switches.
SPECIFICATION MCSpec
CONSTANTS
    Anchors = {ref, tgt}
    SampleCount = 2
    MaxRejections = 2
    HealthyBackoff = 1
    MinSpikes = 2
    FrozenTicks = 2
    DebounceTicks = 1
    Stations = {b1, b2}
    MaxShift = 2
    SingleMin = 2
    MinEvents = 2
    Toggles = {{}, {"drift"}, {"rest"}, {"rest", "chi"}, {"predict", "chi"}}
INVARIANTS SolveIsFresh RestLockIsCurrent
PROPERTIES StandbyResumes RecoversFromJumps
