SPECIFICATION Spec
CONSTANTS
  p1 = p1
  p2 = p2
  p3 = p3
  p4 = p4
  Pcb = {p1, p2, p3}
  Root = p1
  NULL = NULL
  UserSem = {}
  Device <- PrinterAndTerminal
  Prios <- Low
  Supports <- NoSupport
  Calls = {"CREATEPROCESS", "TERMPID", "DOIO"}
  Rules = {"SPARES_ANCESTORS", "EXCLUSIVE_DEVICE"}
INVARIANTS
  NoLostProcess
\* HALT and PANIC stop the machine.
CHECK_DEADLOCK FALSE
