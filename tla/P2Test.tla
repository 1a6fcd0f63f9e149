------------------------------- MODULE P2Test -------------------------------
(***************************************************************************)
(* The test of phase 2 (pandos/phase2/p2test.c) on the nucleus: its        *)
(* processes as the system calls they make, each call the action of the    *)
(* module Kernel.  What a process does between two calls is a step of its  *)
(* own where another process could notice.                                 *)
(*                                                                         *)
(* A message is one character, which the terminal accepts.  The tests of   *)
(* GETTIME and of the time of day, and which of two messages p4 prints,    *)
(* are left out.                                                           *)
(***************************************************************************)
EXTENDS Kernel, SequencesExt

CONSTANTS
  sem_term_mut, sem_testsem, sem_startp2, sem_endp2, sem_endp3, sem_blkp4, sem_synp4,
  sem_endp4, sem_endp5, sem_endp8, sem_blkp8, sem_blkp9,
  sem_endcreate,  \* for each leaf of p8's tree
  s_array,        \* the array s, which p2 tries
  Tests,          \* by a name, which parts of its program p1 may be built with
  P8Incarnations, Yields, ClockWaits   \* how often p1, hp_p1 and hp_p2 go round

PartNames == {"p2", "p3", "hp", "p4", "p6", "p7", "p8", "p9"}

NOLEAVES == Len(sem_endcreate)

ASSUME TestAssumption ==
  /\ Tests \in [DOMAIN Tests -> SUBSET PartNames] /\ Pcb \subseteq Nat
  /\ \A n \in {P8Incarnations, Yields, ClockWaits} : n \in Nat
  /\ sem_endcreate \in Seq(UserSem) /\ s_array \in Seq(UserSem)
  /\ Len(sem_endcreate) <= 4

\* The semaphores of p2test.c but that of the terminal.
TestSems ==
  {sem_testsem, sem_startp2, sem_endp2, sem_endp3, sem_blkp4, sem_synp4, sem_endp4,
   sem_endp5, sem_endp8, sem_blkp8, sem_blkp9} \cup Range(sem_endcreate) \cup Range(s_array)

\* They are variables of their own, and the machine has what the test asks for.
ASSUME SemsAssumption ==
  /\ TestSems \subseteq UserSem /\ sem_term_mut \in UserSem \ TestSems
  /\ <<TERMLINE, 0>> \in Device /\ {0, 1} \subseteq Prios /\ Supports = BOOLEAN

VARIABLES
  at,         \* where each process is: a program, and which operation is next
  pid,        \* p2pid, p3pid, p4pid, p8pid, p9pid: the last process of a program
  p1p2synch,
  hasty       \* a history variable: p5 ended its delay while a p4 was alive

testVars == <<at, pid, p1p2synch, hasty>>

-----------------------------------------------------------------------------
(* The programs: sequences of operations, each with an argument.           *)

P(sem)        == <<"P", sem>>
V(sem)        == <<"V", sem>>
Create(prog)  == <<"create", prog>>
Check(what)   == <<"check", what>>
CLOCKWAIT     == <<"clock", "none">>
YIELD         == <<"yield", "none">>
TERMPROCESS   == <<"exit", "none">>
DOIO          == <<"doio", "none">>
Trap          == <<"trap", "none">>
RefillTLB     == <<"refill", "none">>
Synch         == <<"synch", "none">>
KillParent    == <<"kill_parent", "none">>
DelayP5       == <<"delay", "none">>
ResetSems     == <<"reset", "none">>
Error         == <<"error", "none">>   \* print("error: ...") and PANIC

Times(n, ops) == FlattenSeq([i \in 1..n |-> ops])

\* Without the semaphore of the terminal.
Fault_print == <<DOIO>>

print == <<P(sem_term_mut), DOIO, V(sem_term_mut)>>

\* p2 wakes p1 before it says that it is there.
Fault_p2 ==
  <<P(sem_startp2)>> \o print \o <<Check("own_pid")>> \o print \o print
    \o <<P(sem_endp2), Synch, TERMPROCESS>>

p2 ==
  <<P(sem_startp2)>> \o print \o <<Check("own_pid")>>
    \o FlattenSeq([i \in DOMAIN s_array |-> <<V(s_array[i]), P(s_array[i]), Check("zeros")>>])
    \o print \o print
    \o <<Synch, P(sem_endp2), TERMPROCESS>>

p3 ==
  <<CLOCKWAIT>> \o print \o Times(ClockWaits, <<CLOCKWAIT>>) \o print
    \o <<Check("own_pid"), V(sem_endp3), TERMPROCESS>>

p4 ==
  print \o <<Check("own_pid"), V(sem_synp4), P(sem_blkp4), P(sem_synp4),
             Create("p4"), P(sem_synp4)>>
    \o print \o <<V(sem_endp4), TERMPROCESS>>

\* The message of p5gen about a bus error, and the store of p5a.
p5a == print \o <<RefillTLB>>

\* The handlers of its traps are part of p5: a bus error, a TLB exception, a
\* system call of user mode, a privileged one, and one more from kernel mode.
p5 ==
  print \o <<Trap>> \o p5a \o print \o print
    \o <<Trap>> \o print \o <<Trap>> \o print \o <<Trap>> \o print
    \o <<P(sem_endp4), CLOCKWAIT, DelayP5, V(sem_blkp4), V(sem_endp5),
         TERMPROCESS>>

p6 == print \o <<Trap>>
p7 == print \o <<Trap>>

\* The last leaf is not waited for.
Fault_p8root ==
  print \o <<Create("child1"), Create("child2")>>
    \o [i \in 1..(NOLEAVES - 1) |-> P(sem_endcreate[i])]
    \o <<V(sem_endp8), TERMPROCESS>>

p8root ==
  print \o <<Create("child1"), Create("child2")>>
    \o [i \in 1..NOLEAVES |-> P(sem_endcreate[i])]
    \o <<V(sem_endp8), TERMPROCESS>>

\* child1 has the first half of the leaves and child2 the second.
Leaf == <<"p8leaf1", "p8leaf2", "p8leaf3", "p8leaf4">>
child(leaves) ==
  print \o <<Check("parent_is_p8")>> \o [i \in DOMAIN leaves |-> Create(leaves[i])]
    \o <<P(sem_blkp8)>>
child1 == child(SubSeq(Leaf, 1, NOLEAVES \div 2))
child2 == child(SubSeq(Leaf, NOLEAVES \div 2 + 1, NOLEAVES))

p8leaf(i) == IF i > NOLEAVES THEN <<>> ELSE print \o <<V(sem_endcreate[i]), P(sem_blkp8)>>

p9  == print \o <<Create("p10"), P(sem_blkp9)>>
p10 == print \o <<Check("parent_is_p9"), KillParent>>

hp_p1 == print \o Times(Yields, <<YIELD>>) \o <<TERMPROCESS>>
hp_p2 == print \o Times(ClockWaits, <<CLOCKWAIT>>) \o <<TERMPROCESS>>

\* p1, the first process.  It ends with a trap, which takes everybody along.
test(parts) ==
  LET If(part, ops) == IF part \in parts THEN ops ELSE <<>>
  IN  <<V(sem_testsem)>> \o print
    \o If("p2", <<Create("p2")>> \o print \o <<V(sem_startp2), V(sem_endp2), Check("synch")>>)
    \o If("p3", <<Create("p3")>> \o print \o <<P(sem_endp3)>>)
    \o If("hp", <<Create("hp_p1"), Create("hp_p2")>>)
    \o If("p4", <<Create("p4"), Create("p5")>>)
    \o If("p6", <<Create("p6")>>) \o If("p7", <<Create("p7")>>)
    \o If("p9", <<Create("p9")>>)
    \o If("p4", <<P(sem_endp5)>> \o print \o <<P(sem_blkp4)>>)
    \o If("p8", Times(P8Incarnations, <<ResetSems, Create("p8root"), P(sem_endp8)>>))
    \o print \o <<Trap>>

Processes ==
  [p2 |-> p2, p3 |-> p3, p4 |-> p4, p5 |-> p5, p6 |-> p6, p7 |-> p7,
   p8root |-> p8root, child1 |-> child1, child2 |-> child2,
   p8leaf1 |-> p8leaf(1), p8leaf2 |-> p8leaf(2), p8leaf3 |-> p8leaf(3), p8leaf4 |-> p8leaf(4),
   p9 |-> p9, p10 |-> p10, hp_p1 |-> hp_p1, hp_p2 |-> hp_p2]

Program ==
  [name \in DOMAIN Tests \cup DOMAIN Processes |->
     IF name \in DOMAIN Tests THEN test(Tests[name]) ELSE Processes[name]]

-----------------------------------------------------------------------------
(* Their execution.                                                        *)

\* What must not happen comes at the end of every program.
Upcoming(p) == (Program[at[p][1]] \o <<Error>>)[at[p][2]]

\* The process that runs is at such an operation, and no interrupt is pending.
Now(name) ==
  /\ cpu = "RUN" /\ Intact /\ \A u \in Unit : status[u] # "DONE"
  /\ Upcoming(current_p)[1] = name

Arg == Upcoming(current_p)[2]

Terminal == <<TERMLINE, 0, "transm">>

Done == at' = [at EXCEPT ![current_p][2] = @ + 1]

TestInit ==
  /\ Init
  /\ \A sem \in Sem : value[sem] = IF sem \in {sem_term_mut, sem_endp2, sem_blkp4} THEN 1 ELSE 0
  /\ \E name \in DOMAIN Tests : at = [p \in Pcb |-> <<name, 1>>]
  /\ pid = [prog \in DOMAIN Program |-> NULL]
  /\ p1p2synch = FALSE /\ hasty = FALSE

Call ==
  /\ \/ Now("P") /\ Passeren(Arg)
     \/ Now("V") /\ Verhogen(Arg)
     \/ Now("doio") /\ DoIO(Terminal)
     \/ Now("clock") /\ WaitForClock
     \/ Now("yield") /\ Yield
     \/ Now("exit") /\ TerminateSelf
     \/ Now("kill_parent") /\ TerminatePid(p_parent[current_p])
     \/ Now("trap") /\ ProgramTrap
  /\ Done /\ UNCHANGED <<pid, p1p2synch, hasty>>

\* The pid is stored before the new process has printed its first message, for
\* which it gives up the processor.  A creation waits for a free control block:
\* there are 20 in the machine and as few as the instance has here.
CreateProgram ==
  /\ Now("create")
  /\ CreateProcess(IF Arg \in {"hp_p1", "hp_p2"} THEN 1 ELSE 0, Arg = "p5")
  /\ LET new == CHOOSE p \in pcbFree : \A q \in pcbFree : p <= q
     IN  /\ new \notin pcbFree'
         /\ at' = [at EXCEPT ![current_p][2] = @ + 1, ![new] = <<Arg, 1>>]
         /\ pid' = [pid EXCEPT ![Arg] = new]
  /\ UNCHANGED <<p1p2synch, hasty>>

Holds(what) ==
  CASE what = "own_pid"      -> pid[at[current_p][1]] = current_p
    [] what = "parent_is_p8" -> p_parent[current_p] = pid.p8root
    [] what = "parent_is_p9" -> p_parent[current_p] = pid.p9
    [] what = "zeros"        -> \A sem \in Range(s_array) : value[sem] = 0
    [] what = "synch"        -> p1p2synch

\* What a process does without the nucleus.
Compute ==
  /\ UNCHANGED vars
  /\ \/ /\ Now("check")
        /\ IF Holds(Arg) THEN Done ELSE at' = [at EXCEPT ![current_p][2] = Len(Program[at[current_p][1]]) + 1]
        /\ UNCHANGED <<pid, p1p2synch, hasty>>
     \/ Now("synch") /\ p1p2synch' = TRUE /\ Done /\ UNCHANGED <<pid, hasty>>

\* uTLB_RefillHandler finds no entry for p5a's page and writes one it has not
\* initialised.  It may be of another page: the store is tried, and refilled for,
\* again.  It may be one that is not valid or not for writing, which is the TLB
\* exception of p5mm, or name no memory, which is a bus error for p5gen.  A store
\* into whatever frame it names is where the model ends.
Refill ==
  /\ Now("refill") /\ ProgramTrap
  /\ Done \/ at' = [at EXCEPT ![current_p][2] = @ - Len(print)]
  /\ UNCHANGED <<pid, p1p2synch, hasty>>

\* p5 waits for the clock until half an interval has passed between a call and
\* its return, "to be reasonably sure p4 and its offspring are dead".
Delay ==
  /\ Now("delay")
  /\ \/ at' = [at EXCEPT ![current_p][2] = @ - 1] /\ UNCHANGED hasty
     \/ Done /\ hasty' = (\E p \in Live : at[p][1] = "p4")
  /\ UNCHANGED <<vars, pid, p1p2synch>>

\* p1 resets the semaphores of p8's tree, whoever still uses them.
Reset ==
  /\ Now("reset")
  /\ value' = [sem \in Sem |->
       IF sem \in {sem_blkp8, sem_endp8} \cup Range(sem_endcreate) THEN 0 ELSE value[sem]]
  /\ UNCHANGED <<cpuVars, queues, procVars, s_procq, p_semAdd, soft_count, status>>
  /\ Done /\ UNCHANGED <<pid, p1p2synch, hasty>>

Step == Call \/ CreateProgram \/ Compute \/ Refill \/ Delay \/ Reset

Hardware ==
  /\ Boot \/ Interrupt \/ \E u \in Unit : DeviceCompletes(u)
  /\ UNCHANGED testVars

TestNext == Step \/ Hardware

p2testVars == <<vars, testVars>>

TestSpec == TestInit /\ [][TestNext]_p2testVars
=============================================================================
