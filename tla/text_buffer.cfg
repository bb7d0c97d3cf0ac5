SPECIFICATION FairSpec
CONSTANTS
  t1 = t1
  t2 = t2
  f1 = f1
  Shared = Shared
  None = None
  Thread = {t1, t2}
  File = {f1}
  Drivers = {"file_ops", "private_data", "ioctl", "mutex_test"}
  Size = 2
  MaxCount = 2
  Beyond = 1
INVARIANTS
  MutexMeansInside
  WritesStayInside
  ReadsAreText
PROPERTIES
  CallsReturn
