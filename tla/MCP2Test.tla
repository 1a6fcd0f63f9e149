------------------------------ MODULE MCP2Test ------------------------------
(* Small instances of the test of phase 2 for TLC. *)
EXTENDS P2TestProps

CONSTANTS e1, e2, s1

EndCreate  == <<e1, e2>>
OneSem     == <<s1>>
Semaphores ==
  {sem_term_mut, sem_testsem, sem_startp2, sem_endp2, sem_endp3, sem_blkp4, sem_synp4,
   sem_endp4, sem_endp5, sem_endp8, sem_blkp8, sem_blkp9} \cup Range(EndCreate) \cup Range(OneSem)

\* What may meet of what p1 does, in five tests.
FiveTests ==
  [pairs |-> {"p2", "p3"}, offspring |-> {"p3", "p4"}, traps |-> {"p6", "p7"},
   tree |-> {"p8"}, high |-> {"hp", "p9"}]

Terminal0   == {<<7, 0>>}
BothPrios   == {0, 1}
SomeSupport == BOOLEAN
TestCalls   == CallNames
=============================================================================
