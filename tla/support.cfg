SPECIFICATION SupportSpec
CONSTANTS
  p1 = p1
  p2 = p2
  p3 = p3
  p4 = p4
  Pcb = {p1, p2, p3, p4}
  Root = p1
  NULL = NULL
  pr1 = pr1
  pr2 = pr2
  pr3 = pr3
  fl1 = fl1
  fl2 = fl2
  fl3 = fl3
  tw1 = tw1
  tw2 = tw2
  tw3 = tw3
  tr1 = tr1
  tr2 = tr2
  tr3 = tr3
  main = main
  swap = swap
  UserSem <- Semaphores
  Device <- FlashesAndDisk
  Prios <- NoPrio
  Supports <- WithSupport
  Calls <- SupportLevel
  Rules = {}
  UPROCMAX = 3
  printer_sem <- Printers
  flash_sem <- Flashes
  term_w_sem <- Writers
  term_r_sem <- Readers
  mainSemaphore = main
  swapSemaphore = swap
  Programs <- AnyRequest
  Loads <- LastLoaded
SYMMETRY Children
INVARIANTS
  SupportTypeOK
  PoolExclusive
  PoolWaiterHasHolder
  ChosenFrameStable
  FramesReturned
  FlashIdle
\* The machine stops in HALT and PANIC, and where control is lost.
CHECK_DEADLOCK FALSE
