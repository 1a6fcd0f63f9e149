---------------------------- MODULE P2TestProps -----------------------------
(***************************************************************************)
(* What the test of phase 2 looks for, under every timing of slices, clock *)
(* and terminal.                                                           *)
(***************************************************************************)
EXTENDS P2Test

\* The tests without the processes of high priority, with which the nucleus
\* panics, and without p10, which runs on when it should not.
Ending == {name \in DOMAIN Tests : Tests[name] \cap {"hp", "p9"} = {}}

\* No process prints an error: pids are its own and its parent's, p1 and p2
\* meet, pairs of V and P leave 0, and nobody goes on after it was terminated.
NoErrorReported ==
  cpu = "RUN" /\ at[Root][1] \in Ending => Upcoming(current_p)[1] # "error"

\* In print, between the P and the V.
Prints(p) ==
  /\ p \in Live /\ p \notin Entries(s_procq[sem_term_mut])
  /\ Upcoming(p)[1] = "doio" \/ Upcoming(p) = V(sem_term_mut)

\* One process prints at a time, and the terminal is idle when it is given a
\* character: the nucleus would lose the command and wake the wrong process.
TerminalExclusive ==
  \A p \in Pcb : Prints(p) =>
    /\ \A q \in Pcb : Prints(q) => q = p
    /\ Upcoming(p)[1] = "doio" => status[Terminal] = "READY"

\* A termination spares the process that has the terminal: p8's tree is
\* complete, and p4's offspring has printed, before their ancestors end.
NoneDiesPrinting ==
  [][\A p \in Pcb : Prints(p) /\ Root \in Live' => p \in Live']_p2testVars

\* The machine gives up before the test is over in one case only, although the
\* processes meet in binary semaphores that block both ways and p1 resets some
\* that are in use: p5 ended its delay too early, and its V(sem_blkp4), which
\* "will increment sem_blkp4" if p4 and offspring are dead (p2test.c:602), has
\* woken one of them instead; p1 waits for it in vain.
NeverStuck ==
  at[Root][1] \in Ending =>
    /\ cpu \notin {"ADRIFT", "TRAPLOOP"}
    /\ cpu = "PANIC" => hasty /\ Root \in Entries(s_procq[sem_blkp4])
=============================================================================
