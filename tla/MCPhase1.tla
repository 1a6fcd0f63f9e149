------------------------------ MODULE MCPhase1 ------------------------------
(* A small instance of phase 1 for TLC. *)
EXTENDS Phase1Props

CONSTANT mutex

MutexAndClock == {mutex, 48}
=============================================================================
