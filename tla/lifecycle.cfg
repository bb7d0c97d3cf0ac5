SPECIFICATION Spec
CONSTANTS
  Table <- AllRows
  Drivers <- AllDrivers
  Careful <- CarefulDrivers
  Tidy <- TidyDrivers
  Ordered <- OrderedDrivers
  MayFail = TRUE
INVARIANTS
  RefusedHoldsNothing
  GoneHoldsNothing
  ReleasesWhatIsHeld
  HandlersFindResources
  RowsKeepPromises
CHECK_DEADLOCK FALSE
