SPECIFICATION TestSpec
CONSTANTS
  Pcb = {1, 2, 3, 4, 5, 6}
  Root = 1
  NULL = NULL
  sem_term_mut = sem_term_mut
  sem_testsem = sem_testsem
  sem_startp2 = sem_startp2
  sem_endp2 = sem_endp2
  sem_endp3 = sem_endp3
  sem_blkp4 = sem_blkp4
  sem_synp4 = sem_synp4
  sem_endp4 = sem_endp4
  sem_endp5 = sem_endp5
  sem_endp8 = sem_endp8
  sem_blkp8 = sem_blkp8
  sem_blkp9 = sem_blkp9
  e1 = e1
  e2 = e2
  s1 = s1
  UserSem <- Semaphores
  sem_endcreate <- EndCreate
  s_array <- OneSem
  Device <- Terminal0
  Prios <- BothPrios
  Supports <- SomeSupport
  Calls <- TestCalls
  Rules = {}
  Tests <- FiveTests
  P8Incarnations = 2
  Yields = 2
  ClockWaits = 1
INVARIANTS
  NoErrorReported
  TerminalExclusive
  NeverStuck
PROPERTIES
  NoneDiesPrinting
\* The test ends in HALT.
CHECK_DEADLOCK FALSE
