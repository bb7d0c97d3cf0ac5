SPECIFICATION FairSpec
CONSTANTS
  p1 = p1
  p2 = p2
  v1 = v1
  v2 = v2
  vkbd = vkbd
  vmouse = vmouse
  None = None
  Proc = {p1, p2}
  Users = {p1}
  Vdev = {v1, v2}
  Type = {vkbd, vmouse}
  Minors = 2
INVARIANTS
  IdsAreAccounted
  ExportsOverlapSafely
  UnloadedTypeIsGone
PROPERTIES
  
  UnloadEnds
CHECK_DEADLOCK FALSE
