SPECIFICATION FairSpec
CONSTANTS
  Drivers = {"completion", "ex1"}
  UintMax = 3
  MaxPresses = 4
INVARIANTS
  EveryPressCounts
PROPERTIES
  CompletionIsTaken
  PressUnblocksUnload
  UnloadFinishes
CHECK_DEADLOCK FALSE
