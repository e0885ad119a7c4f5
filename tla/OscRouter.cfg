\* Two captions of one or two words, one message from each driver thread, a queue of
\* two entries; the captions host is the driver's own child or one it attached to. The
\* modules end.
SPECIFICATION FairSpec
CONSTANTS
  Capacity = 2
  MaxFrame = 128
  Tails = {25}
  MaxWords = 2
  MaxCalls = 2
  MaxLocal = 1
INVARIANT PublisherSafe
PROPERTIES ImplementsFifo CleanupEnds
CHECK_DEADLOCK FALSE
