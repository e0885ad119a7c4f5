\* Three hosts, two of them killed at any point; a pose ring of six slots; two
\* slots in a table; either supervisor's command, set three times; a status file of
\* two hosts in turn; two changes of the captions' config.
SPECIFICATION MCSpec
CONSTANTS
  RingSize = 2
  Words = {"lo", "hi"}
  MaxRetries = 2
  MaxPublish = 4
  MaxKills = 2
  BUFFERED_SAMPLES = 6
  MaxPoses = 12
  MaxStops = 2
  TableSlots = {1, 2}
  MaxPasses = 2
  Commands = {A, B}
  NoCommand = NoCommand
  Initial = A
  MaxSets = 3
  MaxDeaths = 2
  MaxBusy = 2
  Pids = {1, 2}
  StaleAfter = 2
  de = de
  fr = fr
  NoLanguage = NoLanguage
  kFrameSamples = 480
  VadSamples = 512
  kSilenceFrames = 2
  kQueueCap = 1
  LongEnough = 1
  MaxMic = 1
  MaxConfigs = 2
  MaxUser = 1
INVARIANTS NoTornFrame NoTornSlot
PROPERTIES ImplementsRegister PosesInOrder PendingIsSent StatusFollows ReleaseIsFlushed
CHECK_DEADLOCK FALSE
