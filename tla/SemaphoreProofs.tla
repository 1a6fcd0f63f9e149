--------------------------- MODULE SemaphoreProofs --------------------------
(***************************************************************************)
(* Every semaphore of the nucleus, used by whatever processes, interrupts  *)
(* and terminations, is an abstract binary semaphore.                      *)
(***************************************************************************)
EXTENDS KernelProofs

\* The pseudo-clock's semaphore only ever blocks.
ClockAtZero == value[CLOCK] = 0

\* What a step can do to one semaphore s: nothing, an operation by the running
\* process or for it, the removal of some waiters, or a tick of the clock.
Untouched(s) == value'[s] = value[s] /\ s_procq'[s] = s_procq[s]
Op(s, full)  == (current_p \in Pcb \/ value[s] # full) /\ SemOp(s, full, full)
Removal(s)   == /\ value'[s] = value[s]
                /\ \E K \in SUBSET Pcb : s_procq'[s] = Only(s_procq[s], Pcb \ K)
Tick(s)      == s = CLOCK /\ value'[s] = 0 /\ s_procq'[s] = <<>>

SemStep(s) == Untouched(s) \/ Op(s, 0) \/ Op(s, 1) \/ Removal(s) \/ Tick(s)

-----------------------------------------------------------------------------
(* Each of these is a step of the abstract semaphore, or stutters.         *)

\* Nothing comes of an empty queue, and nothing is left when all are taken out.
LEMMA OnlyOfNothing ==
  ASSUME NEW q \in Seq(Pcb)
  PROVE  (\A S : Only(<<>>, S) = <<>>) /\ Only(q, {}) = <<>>
<1>1. <<>> \in Seq(Pcb)
  OBVIOUS
<1>2. \A r \in Seq(Pcb) : \A S : Only(r, S) \in Seq(Pcb) /\ Len(Only(r, S)) <= Len(r)
  BY OnlyType
<1>3. \A S : Only(<<>>, S) = <<>>
  <2>1. Len(<<>>) = 0 /\ \A r \in Seq(Pcb) : Len(r) <= 0 => r = <<>>
    OBVIOUS
  <2> QED
    BY <1>1, <1>2, <2>1
<1>4. Only(q, {}) \in Seq(Pcb \cap {})
  BY OnlyType
<1>5. Only(q, {}) = <<>>
  <2>1. Only(q, {}) \in Seq({})
    BY <1>4
  <2>2. \A r \in Seq({}) : r = <<>>
    OBVIOUS
  <2> QED
    BY <2>1, <2>2
<1> QED
  BY <1>3, <1>5

\* The abstract module keeps its own copy of Only.
LEMMA SameOnly == \A s, q, S : Abstract(s)!Only(q, S) = Only(q, S)
  BY DEF Only, Abstract!Only

\* The three outcomes of an operation that blocks at the value full.
LEMMA OpEffect ==
  ASSUME TypeOK, NEW s \in Sem, NEW full \in {0, 1}, Op(s, full)
  PROVE  \/ /\ value[s] = full /\ value'[s] = full /\ current_p \in Pcb
            /\ s_procq'[s] = Append(s_procq[s], current_p)
         \/ /\ value[s] = 1 - full /\ value'[s] = value[s]
            /\ s_procq[s] # <<>> /\ s_procq'[s] = Tail(s_procq[s])
         \/ /\ value[s] = 1 - full /\ value'[s] = full
            /\ s_procq[s] = <<>> /\ s_procq'[s] = <<>>
<1>1. value \in [Sem -> {0, 1}] /\ s_procq \in [Sem -> Seq(Pcb)]
  BY DEF TypeOK, SemTypeOK
<1> QED
  BY <1>1 DEF Op, SemOp, InsertBlocked, RemoveBlocked

\* An operation of the kernel is a P or a V of the abstract semaphore.
LEMMA AbstractOp ==
  ASSUME TypeOK, NEW s \in Sem, Op(s, 0) \/ Op(s, 1)
  PROVE  Abstract(s)!Next
<1> DEFINE p == IF current_p \in Pcb THEN current_p ELSE Root
<1>1. p \in Pcb
  BY NullFacts
<1>2. CASE Op(s, 0)
  <2>1. Abstract(s)!P(p)
    BY <1>2, OpEffect DEF Abstract!P
  <2> QED
    BY <1>1, <2>1 DEF Abstract!Next
<1>3. CASE Op(s, 1)
  <2>1. Abstract(s)!V(p)
    BY <1>3, OpEffect DEF Abstract!V
  <2> QED
    BY <1>1, <2>1 DEF Abstract!Next
<1> QED
  BY <1>2, <1>3

\* A removal of waiters is an Abandon of the abstract semaphore.
LEMMA AbstractRemoval ==
  ASSUME TypeOK, NEW s \in Sem, NEW K \in SUBSET Pcb,
         value'[s] = value[s], s_procq'[s] = Only(s_procq[s], Pcb \ K)
  PROVE  Abstract(s)!Next
<1>1. value[s] \in {0, 1} /\ s_procq[s] \in Seq(Pcb)
  BY DEF TypeOK, SemTypeOK
<1>2. Abstract(s)!Abandon(K)
  BY <1>1, SameOnly, OnlyOfNothing DEF Abstract!Abandon
<1> QED
  BY <1>2 DEF Abstract!Next

\* Whatever a step does to s, the abstract semaphore takes a step or stutters.
LEMMA AbstractStep ==
  ASSUME TypeOK, ClockAtZero, NEW s \in Sem, SemStep(s)
  PROVE  [Abstract(s)!Next]_(Abstract(s)!vars)
<1>1. CASE Untouched(s)
  BY <1>1 DEF Untouched, Abstract!vars
<1>2. CASE Op(s, 0) \/ Op(s, 1)
  BY <1>2, AbstractOp
<1>3. CASE Removal(s)
  BY <1>3, AbstractRemoval DEF Removal
<1>4. CASE Tick(s)
  <2>1. s_procq[s] \in Seq(Pcb)
    BY DEF TypeOK, SemTypeOK
  <2>2. Only(s_procq[s], Pcb \ Pcb) = <<>>
    <3>1. Pcb \ Pcb = {}
      OBVIOUS
    <3> QED
      BY <2>1, <3>1, OnlyOfNothing
  <2> QED
    BY <1>4, <2>2, AbstractRemoval DEF Tick, ClockAtZero
<1> QED
  BY <1>1, <1>2, <1>3, <1>4 DEF SemStep

-----------------------------------------------------------------------------
(* Each action does one of these to every semaphore.                       *)

\* Exactly one semaphore is operated on.
LEMMA OpSteps ==
  ASSUME TypeOK, NEW s0 \in Sem, NEW full \in {0, 1},
         current_p \in Pcb \/ value[s0] # full, SemOp(s0, full, full)
  PROVE  \A s \in Sem : SemStep(s)
<1>1. value \in [Sem -> {0, 1}] /\ s_procq \in [Sem -> Seq(Pcb)]
  BY DEF TypeOK, SemTypeOK
<1>2. ASSUME NEW s \in Sem, s # s0 PROVE Untouched(s)
  BY <1>1, <1>2 DEF SemOp, InsertBlocked, RemoveBlocked, Untouched
<1>3. Op(s0, 0) \/ Op(s0, 1)
  BY DEF Op
<1> QED
  BY <1>2, <1>3 DEF SemStep

\* A step that leaves values and queues alone touches no semaphore.
LEMMA StillSteps ==
  ASSUME UNCHANGED <<value, s_procq>>
  PROVE  \A s \in Sem : SemStep(s)
  BY DEF SemStep, Untouched

\* A termination takes waiters away, from any number of semaphores.
LEMMA ExterminateSteps ==
  ASSUME NEW K \in SUBSET Pcb, Exterminate(K)
  PROVE  \A s \in Sem : SemStep(s)
<1> SUFFICES ASSUME NEW s \in Sem PROVE Removal(s)
  BY DEF SemStep
<1> DEFINE H == {p \in K : p_semAdd[p] = s}
<1>1. s_procq'[s] = Only(s_procq[s], Pcb \ H)
  BY DEF Exterminate, OutBlocked
<1>2. H \in SUBSET Pcb
  OBVIOUS
<1> QED
  BY <1>1, <1>2 DEF Exterminate, Removal

\* An exception does that or nothing.
LEMMA PassUpOrDieSemSteps ==
  ASSUME TypeOK, cpu = "RUN", PassUpOrDie
  PROVE  \A s \in Sem : SemStep(s)
  BY StillSteps, ExterminateSteps, RunningPcb, SubtreeType DEF PassUpOrDie, Die, semVars

\* Every step does one of the five things to every semaphore.
LEMMA SemSteps == TypeOK /\ [Next]_vars => \A s \in Sem : SemStep(s)
<1> SUFFICES ASSUME TypeOK, [Next]_vars PROVE \A s \in Sem : SemStep(s)
  OBVIOUS
<1>1. CASE Boot \/ Yield \/ UnknownSyscall \/ PLTTimerInterrupt
  BY <1>1, StillSteps DEF Boot, Yield, UnknownSyscall, PLTTimerInterrupt, semVars
<1>2. CASE \E prio \in Prios, supportp \in Supports : CreateProcess(prio, supportp)
  BY <1>2, StillSteps DEF CreateProcess
<1>3. CASE CreateProcessFails \/ GetParentId \/ ProgramTrap
  BY <1>3, PassUpOrDieSemSteps DEF CreateProcessFails, GetParentId, ProgramTrap, Running
<1>4. CASE TerminateSelf
  BY <1>4, ExterminateSteps, RunningPcb, SubtreeType DEF TerminateSelf, Die, Running
<1>5. ASSUME NEW t \in Pcb, TerminatePid(t) PROVE \A s \in Sem : SemStep(s)
  BY <1>5, ExterminateSteps, SubtreeType, PassUpOrDieSemSteps DEF TerminatePid, Running
<1>6. ASSUME NEW s \in UserSem, Passeren(s) PROVE \A r \in Sem : SemStep(r)
  BY <1>6, OpSteps, RunningPcb DEF Passeren, Running, Sem
<1>7. ASSUME NEW s \in UserSem, Verhogen(s) PROVE \A r \in Sem : SemStep(r)
  BY <1>7, OpSteps, RunningPcb DEF Verhogen, Running, Sem
<1>8. ASSUME NEW u \in Unit, DoIO(u) PROVE \A s \in Sem : SemStep(s)
  BY <1>8, OpSteps, RunningPcb, UnitSem DEF DoIO, Running
<1>9. CASE WaitForClock
  BY <1>9, OpSteps, RunningPcb, ClockSem DEF WaitForClock, Running
<1>10. ASSUME NEW d \in Device, DeviceInterrupt(d) PROVE \A s \in Sem : SemStep(s)
  <2> DEFINE r == InterruptSem(d[1], d[2], Served(d)[3])
  <2>1. r \in Sem
    BY ServedUnit
  <2>2. \/ UNCHANGED semVars
        \/ (current_p # NULL \/ value[r] # 1) /\ SemOp(r, 1, 1)
    BY <1>10 DEF DeviceInterrupt
  <2>3. current_p # NULL => current_p \in Pcb
    BY DEF TypeOK, CpuTypeOK
  <2> HIDE DEF r
  <2> QED
    BY <2>1, <2>2, <2>3, OpSteps, StillSteps DEF semVars
<1>11. CASE IntervalTimerInterrupt
  <2>1. value \in [Sem -> {0, 1}] /\ s_procq \in [Sem -> Seq(Pcb)]
    BY DEF TypeOK, SemTypeOK
  <2> QED
    BY <1>11, <2>1, ClockSem DEF IntervalTimerInterrupt, SemStep, Tick, Untouched
<1>12. ASSUME NEW u \in Unit, DeviceCompletes(u) PROVE \A s \in Sem : SemStep(s)
  BY <1>12, StillSteps DEF DeviceCompletes, semVars
<1>13. CASE UNCHANGED vars
  BY <1>13, StillSteps DEF vars, semVars
<1> QED
  BY <1>1, <1>2, <1>3, <1>4, <1>5, <1>6, <1>7, <1>8, <1>9, <1>10, <1>11, <1>12, <1>13
     DEF Next, Syscall, Interrupt

-----------------------------------------------------------------------------
(* The pseudo-clock's semaphore is no unit's and no process's.             *)

\* No unit has the number of the pseudo-clock.
LEMMA UnitNotClock == \A u \in Unit : SemOf(u) # CLOCK
<1> SUFFICES ASSUME NEW d \in Device, NEW k \in UnitsOf(d[1])
             PROVE  SemOf(<<d[1], d[2], k>>) # CLOCK
  BY DEF Unit
<1>1. d[1] \in Line /\ d[2] \in Number
  BY DeviceAssumption
<1>2. CommandSem(CommandAddr(d[1], d[2], k)) \in 0..47
  BY <1>1, SemNumbersDistinct
<1> QED
  BY <1>2 DEF SemOf, CLOCK

\* Operations on other semaphores leave the clock's value alone.
LEMMA ClockUnchanged ==
  ASSUME TypeOK, ClockAtZero, NEW s \in Sem, NEW full, s # CLOCK, SemOp(s, full, full)
  PROVE  ClockAtZero'
  BY ClockSem DEF ClockAtZero, SemOp, TypeOK, SemTypeOK

\* main() sets the clock's semaphore to 0.
LEMMA ClockInit == Init => ClockAtZero
  BY DEF Init, ClockAtZero, DevSem

\* No step changes it.
LEMMA ClockNext == TypeOK /\ ClockAtZero /\ [Next]_vars => ClockAtZero'
<1> SUFFICES ASSUME TypeOK, ClockAtZero, [Next]_vars PROVE ClockAtZero'
  OBVIOUS
<1>1. \A s \in UserSem : s \in Sem /\ s # CLOCK
  BY SemAssumption DEF Sem, CLOCK
<1>2. CASE UNCHANGED value
  BY <1>2 DEF ClockAtZero
<1>3. CASE \E s \in UserSem : SemOp(s, 0, 0) \/ SemOp(s, 1, 1)
  BY <1>1, <1>3, ClockUnchanged
<1>4. CASE \E u \in Unit : SemOp(SemOf(u), 0, 0) \/ SemOp(SemOf(u), 1, 1)
  BY <1>4, UnitSem, UnitNotClock, ClockUnchanged
<1>5. CASE WaitForClock
  BY <1>5 DEF WaitForClock, SemOp, ClockAtZero
<1>6. CASE IntervalTimerInterrupt
  BY <1>6, ClockSem DEF IntervalTimerInterrupt, TypeOK, SemTypeOK, ClockAtZero
<1>7. ASSUME NEW d \in Device, DeviceInterrupt(d)
      PROVE  UNCHANGED value \/ \E u \in Unit : SemOp(SemOf(u), 1, 1)
  BY <1>7, ServedUnit DEF DeviceInterrupt, semVars
<1>8. CASE Syscall
  <2>1. UNCHANGED value \/ WaitForClock
          \/ (\E s \in UserSem : SemOp(s, 0, 0) \/ SemOp(s, 1, 1))
          \/ (\E u \in Unit : SemOp(SemOf(u), 0, 0))
    BY <1>8 DEF Syscall, CreateProcess, CreateProcessFails, TerminateSelf, TerminatePid,
                Passeren, Verhogen, DoIO, GetParentId, Yield, UnknownSyscall,
                ProgramTrap, PassUpOrDie, Die, Exterminate, semVars
  <2> QED
    BY <2>1, <1>2, <1>3, <1>4, <1>5
<1>9. CASE Boot \/ PLTTimerInterrupt \/ UNCHANGED vars \/ \E u \in Unit : DeviceCompletes(u)
  BY <1>2, <1>9 DEF Boot, PLTTimerInterrupt, DeviceCompletes, vars, semVars
<1> QED
  BY <1>2, <1>4, <1>6, <1>7, <1>8, <1>9 DEF Next, Interrupt

-----------------------------------------------------------------------------
\* The queue of every semaphore is first come first served, a V or a P serves
\* the first waiter and leaves the value alone, and the value changes only when
\* nobody waits: Passeren and Verhogen, with the removals of Exterminate and the
\* ticks of the interval timer, implement the abstract binary semaphore.
THEOREM SemaphoresCorrect == Spec => SemaphoresImplemented
<1>1. Init => \A s \in Sem : Abstract(s)!Init
  BY DEF Init, Abstract!Init
<1>2. TypeOK /\ ClockAtZero /\ [Next]_vars
        => [\A s \in Sem : [Abstract(s)!Next]_(Abstract(s)!vars)]_vars
  BY AbstractStep, SemSteps
<1> QED
  BY <1>1, <1>2, InitType, NextType, ClockInit, ClockNext, PTL
     DEF Spec, SemaphoresImplemented
=============================================================================
