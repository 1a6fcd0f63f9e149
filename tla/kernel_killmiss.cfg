SPECIFICATION Spec
CONSTANTS
  p1 = p1
  p2 = p2
  p3 = p3
  p4 = p4
  Pcb = {p1, p2, p3, p4}
  Root = p1
  NULL = NULL
  UserSem = {}
  Device <- NoDevice
  Prios <- Low
  Supports <- NoSupport
  Calls = {"CREATEPROCESS", "TERMSELF", "TERMPID"}
  Rules = {"SPARES_ANCESTORS"}
PROPERTIES
  KillReachesTarget
\* HALT and PANIC stop the machine.
CHECK_DEADLOCK FALSE
