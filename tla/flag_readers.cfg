SPECIFICATION FlagFairSpec
CONSTANTS
  t1 = t1
  t2 = t2
  Thread = {t1, t2}
  Drivers = {"busy_wait", "wait_queue", "fasync"}
  MaxPresses = 2
INVARIANTS
  NoLostWakeup
PROPERTIES
  ImplementsCursor
  PressIsTaken
  NotifiedPressIsTaken
CHECK_DEADLOCK FALSE
