SPECIFICATION Spec
CONSTANTS
  p1 = p1
  p2 = p2
  p3 = p3
  p4 = p4
  Pcb = {p1, p2, p3}
  Root = p1
  NULL = NULL
  UserSem = {}
  Device <- Terminal
  Prios <- LowHigh
  Supports <- AnySupport
  Calls = {"CREATEPROCESS", "TERMSELF", "TERMPID", "DOIO", "YIELD", "UNKNOWN", "TRAP"}
  Rules = {}
SYMMETRY Interchangeable
CONSTRAINT SoftBounded
INVARIANTS
  TypeOK
  CountsAgree
  FamilyTree
PROPERTIES
  SemaphoresImplemented
\* HALT and PANIC stop the machine.
CHECK_DEADLOCK FALSE
