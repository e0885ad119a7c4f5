\* Restart() races the monitor and Stop(); a probe may miss a busy pipe.
SPECIFICATION MCSpec
CONSTANTS
  Parts = {"supervisor"}
  Hosts = {h0, h1, h2}
  Leftover = h0
  NoHandle = NoHandle
  Restarters = {"ipc"}
  Threshold = 2
  MaxCrashes = 2
  MaxRestarts = 1
  MaxSpawnFails = 1
  MaxFlaps = 1
  MayStop = TRUE
  A = A
  B = B
  Modules = {A, B}
  None = None
  CrashHaltThreshold = 2
  MaxActs = 2
  MaxNet = 2
  MaxKills = 1
  folder = folder
  repo = repo
  Sources = {reg, folder, repo, fork}
  Registry = reg
  AutoUpdated = {repo, fork}
  Gives <- GivenBy
  MaxQueue = 2
  MaxSyncs = 4
INVARIANTS BreakerHolds LeavesNoHost
PROPERTY Recovers
