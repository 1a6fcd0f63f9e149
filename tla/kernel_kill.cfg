SPECIFICATION Spec
CONSTANTS
  p1 = p1
  p2 = p2
  p3 = p3
  p4 = p4
  Pcb = {p1, p2, p3, p4}
  Root = p1
  NULL = NULL
  UserSem = {m}
  Device <- NoDevice
  Prios <- Low
  Supports <- NoSupport
  Calls = {"CREATEPROCESS", "TERMSELF", "TERMPID", "PASSEREN", "VERHOGEN", "CLOCKWAIT", "YIELD", "TRAP", "GETPARENT"}
  Rules = {"SPARES_ANCESTORS"}
SYMMETRY Interchangeable
INVARIANTS
  OnePlace
  SemAddAgrees
  CountsAgree
  SoftCountExact
  FamilyTree
  PanicOnlyOnDeadlock
PROPERTIES
  SemaphoresImplemented
\* HALT and PANIC stop the machine.
CHECK_DEADLOCK FALSE
