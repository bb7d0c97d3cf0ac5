SPECIFICATION FairSpec
CONSTANTS
  t1 = t1
  t2 = t2
  t3 = t3
  Thread = {t1, t2}
  Drivers = {"sleep", "chardev", "static_key", "chardev2"}
  MaxTexts = 2
INVARIANTS
  FlagMeansHolder
  OneText
  NoLostWakeup
PROPERTIES
  FreeFileIsOpened
