SPECIFICATION LedFairSpec
CONSTANTS
  LedDrivers = {"debounce", "bottom_half"}
  Delay = 2
  MaxEdges = 3
INVARIANTS
  OneTogglePerInterrupt
  LedCountsToggles
PROPERTIES
  StartsWhenQuiet
  InterruptIsServed
CHECK_DEADLOCK FALSE
