CONSTANTS
  t1 = t1
  t2 = t2
  f1 = f1
  f2 = f2
  Thread <- MCThread
  File <- MCFile
  Users <- PrivateFiles
  Modulus = 3
  MaxPresses = 2
SPECIFICATION FairSpec
INVARIANTS NoLostWakeup
PROPERTIES ImplementsCursor BlockedCallReturns
