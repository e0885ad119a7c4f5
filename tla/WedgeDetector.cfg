\* A created host hangs, one exits; each may cost a restart.
SPECIFICATION FreshFairSpec
CONSTANTS
  Hosts = {h0, h1, h2}
  Leftover = h0
  NoHandle = NoHandle
  Worker = "worker"
  Restarters = {"worker"}
  Threshold = 1
  MaxCrashes = 1
  MaxRestarts = 2
  MaxSpawnFails = 0
  MaxFlaps = 0
  MayStop = FALSE
  MaxWedges = 1
PROPERTY WedgedIsReplaced
