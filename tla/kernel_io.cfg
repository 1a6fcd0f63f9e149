SPECIFICATION FairSpec
CONSTANTS
  p1 = p1
  p2 = p2
  p3 = p3
  p4 = p4
  Pcb = {p1, p2, p3}
  Root = p1
  NULL = NULL
  UserSem = {m}
  Device <- PrinterAndTerminal
  Prios <- Low
  Supports <- NoSupport
  Calls = {"CREATEPROCESS", "TERMSELF", "TERMPID", "PASSEREN", "VERHOGEN", "CLOCKWAIT", "DOIO", "YIELD"}
  Rules = {"SPARES_ANCESTORS", "SPARES_IO", "EXCLUSIVE_DEVICE"}
INVARIANTS
  OnePlace
  SoftCountExact
  PanicOnlyOnDeadlock
  WaitHasWakeup
  IoWaiterServed
PROPERTIES
  ReadyEventuallyRuns
  ClockWaiterRuns
  IoWaiterRuns
\* HALT and PANIC stop the machine.
CHECK_DEADLOCK FALSE
