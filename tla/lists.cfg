SPECIFICATION Spec
CONSTANTS
  MaxProc = 3
  mutex = mutex
  Prios = {0, 2}
  Key <- MutexAndClock
  NULL = NULL
  Zero = Zero
INVARIANTS
  ListsIntact
  SemdsAccounted
  ChildListsAgree
  SemdsSuffice
PROPERTIES
  OverlookedStaysReady
  KernelListsImplemented
\* The last process may terminate, and all may block.
CHECK_DEADLOCK FALSE
