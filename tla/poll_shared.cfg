CONSTANTS
  t1 = t1
  t2 = t2
  f1 = f1
  f2 = f2
  Thread <- MCThread
  File <- MCFile
  Users <- SharedFile
  Modulus = 3
  MaxPresses = 4
SPECIFICATION Spec
INVARIANTS
  UnreadExact
