SPECIFICATION Spec
CONSTANTS
  p1 = p1
  p2 = p2
  p3 = p3
  p4 = p4
  Pcb = {p1, p2, p3, p4}
  Root = p1
  NULL = NULL
  UserSem = {m}
  Device <- NoDevice
  Prios <- LowHigh
  Supports <- NoSupport
  Calls = {"CREATEPROCESS", "TERMSELF", "PASSEREN", "VERHOGEN", "CLOCKWAIT", "YIELD"}
  Rules = {"LEAVES_ONLY", "ONE_YIELDER"}
SYMMETRY Interchangeable
INVARIANTS
  OnePlace
PROPERTIES
  HighGivesWay
\* HALT and PANIC stop the machine.
CHECK_DEADLOCK FALSE
