SPECIFICATION Spec
CONSTANTS
  p1 = p1
  p2 = p2
  p3 = p3
  p4 = p4
  Pcb = {p1, p2}
  Root = p1
  NULL = NULL
  UserSem = {m}
  Device <- NoDevice
  Prios <- LowHigh
  Supports <- NoSupport
  Calls = {"CREATEPROCESS", "TERMSELF", "PASSEREN", "YIELD"}
  Rules = {"LEAVES_ONLY", "ONE_YIELDER"}
INVARIANTS
  PanicOnlyOnDeadlock
\* HALT and PANIC stop the machine.
CHECK_DEADLOCK FALSE
