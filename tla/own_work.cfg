\* All five drivers; the second press makes a longer message.  A module that is gone takes no step.
SPECIFICATION FairSpec
CONSTANTS
  Drivers = {"kthread", "mutex", "machine", "hrtimer", "spinlock"}
  MaxSample = 3
  UintMax = 3
  Longer = 2
  MaxPresses = 3
INVARIANTS
  CopyIsOneMessage
  ExitIsAlone
PROPERTIES
  ReadsReturn
  UnloadEnds
CHECK_DEADLOCK FALSE
