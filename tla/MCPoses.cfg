\* Two devices, two systems, and a fallback table with one slot; three skeletal
\* components; three devices with predictions; two requests to the face worker.
SPECIFICATION MCSpec
CONSTANTS
  Devices = {1, 2}
  Systems = {"lighthouse", "quest"}
  NoSystem = "none"
  PerId = "id"
  Variants = {1, 2}
  MaxSlots = 1
  MaxCommands = 3
  Handles = {1, 2, 3}
  Path <- HandPaths
  MaxCreates = 2
  MaxSets = 1
  Class <- DeviceClasses
  MaxFaults = 1
  MaxStarts = 3
  MaxEdits = 2
  kWarmThreshold = 2
  MaxRequests = 2
INVARIANTS FallbackIsPure NoStaleBlend LockedIsRaw WarmIsLearned
PROPERTY LateDeviceRestored
CHECK_DEADLOCK FALSE
