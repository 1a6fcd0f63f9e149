---------------------------- MODULE KernelProofs ----------------------------
(***************************************************************************)
(* What holds of the nucleus for every number of processes, devices and    *)
(* semaphores, and whatever conventions the processes keep.                *)
(***************************************************************************)
EXTENDS KernelProps, QueueProofs, FiniteSetTheorems

-----------------------------------------------------------------------------
(* The semaphore numbers of devices, for every line and device.            *)

\* Do_IO_Device (SYSCALL.c) and deviceInterrupt (interrupt.c) compute the same
\* index of device_sem[] for every unit of every device.
THEOREM SemNumbersAgree ==
  ASSUME NEW line \in Line, NEW dev \in Number, NEW unit \in UnitsOf(line)
  PROVE  CommandSem(CommandAddr(line, dev, unit)) = InterruptSem(line, dev, unit)
<1>1. DEV_POSITION(CommandAddr(line, dev, unit)) =
        16 * (line - 3) + 2 * dev + (IF unit = "transm" THEN 1 ELSE 0)
  BY DEF DEV_POSITION, CommandAddr, DEV_REG_ADDR, DEV_REG_START, DEV_REG_SIZE,
         Line, Number
<1>2. CASE line = TERMLINE
  BY <1>1, <1>2 DEF CommandSem, InterruptSem, TERMLINE, Number
<1>3. CASE line # TERMLINE
  <2>1. unit = "dtp" /\ line \in 3..6
    BY <1>3 DEF UnitsOf, TERMLINE, Line
  <2>2. DEV_POSITION(CommandAddr(line, dev, unit)) = 2 * (8 * (line - 3) + dev)
    BY <1>1, <2>1 DEF Number
  <2> QED
    BY <2>1, <2>2 DEF CommandSem, InterruptSem, TERMLINE, Number
<1> QED
  BY <1>2, <1>3

\* Two units never share a semaphore, and none has the pseudo-clock's (48).
THEOREM SemNumbersDistinct ==
  ASSUME NEW l1 \in Line, NEW d1 \in Number, NEW u1 \in UnitsOf(l1),
         NEW l2 \in Line, NEW d2 \in Number, NEW u2 \in UnitsOf(l2),
         CommandSem(CommandAddr(l1, d1, u1)) = CommandSem(CommandAddr(l2, d2, u2))
  PROVE  /\ l1 = l2 /\ d1 = d2 /\ u1 = u2
         /\ CommandSem(CommandAddr(l1, d1, u1)) \in 0..47
<1>1. InterruptSem(l1, d1, u1) = InterruptSem(l2, d2, u2)
  BY SemNumbersAgree
<1>2. /\ InterruptSem(l1, d1, u1) \in 0..47
      /\ l1 = TERMLINE <=> InterruptSem(l1, d1, u1) >= 32
      /\ l2 = TERMLINE <=> InterruptSem(l2, d2, u2) >= 32
  BY DEF InterruptSem, Line, Number, UnitsOf, TERMLINE
<1>3. CASE l1 = TERMLINE
  <2>1. l2 = TERMLINE
    BY <1>1, <1>2, <1>3
  <2> QED
    BY <1>1, <1>2, <1>3, <2>1, SemNumbersAgree
       DEF InterruptSem, Number, UnitsOf, TERMLINE
<1>4. CASE l1 # TERMLINE
  <2>1. l2 # TERMLINE
    BY <1>1, <1>2, <1>4
  <2>2. u1 = "dtp" /\ u2 = "dtp"
    BY <1>4, <2>1 DEF UnitsOf
  <2> QED
    BY <1>1, <1>2, <1>4, <2>1, <2>2, SemNumbersAgree
       DEF InterruptSem, Line, Number, TERMLINE
<1> QED
  BY <1>3, <1>4

-----------------------------------------------------------------------------
(* The pieces of the handlers keep to the types.                           *)

\* NULL is neither a control block nor a semaphore; the first process is one.
LEMMA NullFacts == NULL \notin Pcb /\ NULL \notin Sem /\ Root \in Pcb
  BY PcbAssumption, SemAssumption

\* The scheduler leaves a processor in good order, given sequences of processes.
LEMMA SchedulerType ==
  ASSUME NEW hq \in Seq(Pcb), NEW lq \in Seq(Pcb),
         NEW y \in Pcb \cup {NULL}, NEW t \in BOOLEAN,
         Scheduler(hq, lq, y, t)
  PROVE  CpuTypeOK'
<1>1. CASE hq # <<>>
  <2>1. Head(hq) \in Pcb /\ Tail(hq) \in Seq(Pcb)
    BY <1>1
  <2> QED
    BY <1>1, <2>1, NullFacts DEF Scheduler, CpuTypeOK
<1>2. CASE hq = <<>> /\ lq # <<>>
  <2>1. Head(lq) \in Pcb /\ Tail(lq) \in Seq(Pcb)
    BY <1>2
  <2>2. (IF y # NULL THEN <<y>> ELSE <<>>) \in Seq(Pcb)
    OBVIOUS
  <2> QED
    BY <1>2, <2>1, <2>2, NullFacts DEF Scheduler, CpuTypeOK
<1>3. CASE hq = <<>> /\ lq = <<>>
  BY <1>3, NullFacts DEF Scheduler, CpuTypeOK, Idle
<1> QED
  BY <1>1, <1>2, <1>3

\* The processes of a sequence join the ready queues.
LEMMA WithType ==
  ASSUME CpuTypeOK, NEW w \in Seq(Pcb)
  PROVE  HighWith(w) \in Seq(Pcb) /\ LowWith(w) \in Seq(Pcb)
<1>1. \A S : Only(w, S) \in Seq(Pcb)
  BY OnlyType
<1> QED
  BY <1>1 DEF HighWith, LowWith, CpuTypeOK

\* Taking the members of K out of the ready queues leaves queues of processes.
LEMMA WithoutType ==
  ASSUME CpuTypeOK, NEW K
  PROVE  HighWithout(K) \in Seq(Pcb) /\ LowWithout(K) \in Seq(Pcb)
  BY OnlyType DEF HighWithout, LowWithout, CpuTypeOK

\* Those woken on a semaphore are one process of its queue or none.
LEMMA WokenType ==
  ASSUME SemTypeOK, NEW s \in Sem, NEW full
  PROVE  Woken(s, full) \in Seq(Pcb) /\ Len(Woken(s, full)) \in Int
<1>1. s_procq[s] \in Seq(Pcb)
  BY DEF SemTypeOK
<1>2. CASE s_procq[s] # <<>>
  <2>1. Head(s_procq[s]) \in Pcb
    BY <1>1, <1>2
  <2> QED
    BY <2>1 DEF Woken
<1>3. CASE s_procq[s] = <<>>
  BY <1>3 DEF Woken
<1> QED
  BY <1>2, <1>3

\* A P or a V leaves the semaphores in good order.
LEMMA SemOpType ==
  ASSUME SemTypeOK, NEW s \in Sem, NEW full, NEW next \in {0, 1},
         current_p \in Pcb \/ value[s] # full,
         SemOp(s, full, next)
  PROVE  /\ value' \in [Sem -> {0, 1}]
         /\ s_procq' \in [Sem -> Seq(Pcb)]
         /\ p_semAdd' \in [Pcb -> Sem \cup {NULL}]
<1>1. s_procq[s] \in Seq(Pcb)
  BY DEF SemTypeOK
<1>2. CASE value[s] = full
  <2>1. Append(s_procq[s], current_p) \in Seq(Pcb)
    BY <1>1, <1>2
  <2> QED
    BY <1>2, <2>1 DEF SemTypeOK, SemOp, InsertBlocked
<1>3. CASE value[s] # full /\ s_procq[s] # <<>>
  <2>1. Tail(s_procq[s]) \in Seq(Pcb)
    BY <1>1, <1>3
  <2> QED
    BY <1>3, <2>1 DEF SemTypeOK, SemOp, RemoveBlocked
<1>4. CASE value[s] # full /\ s_procq[s] = <<>>
  BY <1>4 DEF SemTypeOK, SemOp
<1> QED
  BY <1>2, <1>3, <1>4

\* A subtree is a finite set of control blocks.
LEMMA SubtreeType ==
  ASSUME NEW t \in Pcb
  PROVE  /\ Subtree(t) \subseteq Pcb
         /\ IsFiniteSet(Subtree(t)) /\ Cardinality(Subtree(t)) \in Nat
<1>1. Subtree(t) \subseteq Pcb
  BY DEF Subtree
<1> QED
  BY <1>1, PcbAssumption, FS_Subset, FS_CardinalityType

\* Termination leaves processes and semaphores in good order.
LEMMA ExterminateType ==
  ASSUME ProcTypeOK, SemTypeOK, status' = status,
         NEW K \in SUBSET Pcb, Exterminate(K)
  PROVE  ProcTypeOK' /\ SemTypeOK'
<1>1. Cardinality(K) \in Int /\ Cardinality(SoftBlocked(K)) \in Int
  BY PcbAssumption, FS_Subset, FS_CardinalityType DEF SoftBlocked
<1>2. s_procq' \in [Sem -> Seq(Pcb)]
  BY OnlyType DEF Exterminate, OutBlocked, SemTypeOK
<1>3. p_parent' \in [Pcb -> Pcb \cup {NULL}]
  BY DEF Exterminate, OutChild, ProcTypeOK
<1>4. all_processes' \in [Slot -> Pcb \cup {NULL}]
  BY DEF Exterminate, ProcTypeOK
<1>5. ProcTypeOK'
  BY <1>1, <1>3, <1>4 DEF Exterminate, FreePcb, ProcTypeOK
<1> QED
  BY <1>1, <1>2, <1>5 DEF Exterminate, SemTypeOK

\* The running process terminates with its progeny: the types hold.
LEMMA DieType ==
  ASSUME TypeOK, current_p \in Pcb, Die, status' = status
  PROVE  TypeOK'
<1> DEFINE K == Subtree(current_p)
<1>1. K \in SUBSET Pcb
  BY SubtreeType
<1>2. ProcTypeOK' /\ SemTypeOK'
  <2> HIDE DEF K
  <2> QED
    BY <1>1, ExterminateType DEF TypeOK, Die, K
<1>3. HighWithout(K) \in Seq(Pcb) /\ LowWithout(K) \in Seq(Pcb)
  BY WithoutType DEF TypeOK
<1>4. CpuTypeOK'
  BY <1>3, SchedulerType DEF Die, TypeOK, CpuTypeOK
<1> QED
  BY <1>2, <1>4 DEF TypeOK

\* So they do when an exception is passed up or terminates the process.
LEMMA PassUpOrDieType ==
  ASSUME TypeOK, current_p \in Pcb, PassUpOrDie, status' = status
  PROVE  TypeOK'
<1>1. CASE Die
  BY <1>1, DieType
<1>2. CASE UNCHANGED <<cpuVars, queues, procVars, semVars, soft_count>>
  BY <1>2 DEF TypeOK, CpuTypeOK, ProcTypeOK, SemTypeOK, cpuVars, queues, procVars, semVars
<1> QED
  BY <1>1, <1>2 DEF PassUpOrDie

\* A device's interrupt is for a unit that is installed, and for its semaphore.
LEMMA ServedUnit ==
  ASSUME NEW d \in Device
  PROVE  /\ Served(d) \in Unit
         /\ InterruptSem(d[1], d[2], Served(d)[3]) = SemOf(Served(d))
         /\ SemOf(Served(d)) \in Sem
<1>1. d[1] \in Line /\ d[2] \in Number
  BY DeviceAssumption
<1>2. PICK u \in UnitsOf(d[1]) : Served(d) = <<d[1], d[2], u>>
  BY DEF Served, UnitsOf
<1>3. <<d[1], d[2], u>> \in Unit
  BY DEF Unit
<1>4. SemOf(<<d[1], d[2], u>>) = CommandSem(CommandAddr(d[1], d[2], u))
  BY DEF SemOf
<1>5. SemOf(<<d[1], d[2], u>>) \in Sem
  BY <1>3 DEF Sem, DevSem
<1> QED
  BY <1>1, <1>2, <1>3, <1>4, <1>5, SemNumbersAgree

\* In RUN current_p is a control block.
LEMMA RunningPcb ==
  ASSUME TypeOK, cpu = "RUN"
  PROVE  current_p \in Pcb
  BY DEF TypeOK, CpuTypeOK

\* Every unit has a semaphore in device_sem[].
LEMMA UnitSem == \A u \in Unit : SemOf(u) \in Sem
  BY DEF Sem, DevSem

\* The pseudo-clock has one.
LEMMA ClockSem == CLOCK \in Sem
  BY DEF Sem, DevSem

\* P on a device's semaphore or the clock's, and the scheduler afterwards.
LEMMA BlockOnType ==
  ASSUME TypeOK, current_p \in Pcb, NEW s \in Sem,
         SemOp(s, 0, 0), soft_count' = soft_count + 1, UNCHANGED procVars,
         status' \in [Unit -> {"READY", "BUSY", "DONE"}],
         Scheduler(HighWith(Woken(s, 0)), LowWith(Woken(s, 0)), yielded, slice)
  PROVE  TypeOK'
<1>1. Woken(s, 0) \in Seq(Pcb)
  BY WokenType DEF TypeOK
<1>2. HighWith(Woken(s, 0)) \in Seq(Pcb) /\ LowWith(Woken(s, 0)) \in Seq(Pcb)
  BY <1>1, WithType DEF TypeOK
<1>3. CpuTypeOK'
  BY <1>2, SchedulerType DEF TypeOK, CpuTypeOK
<1>4. ProcTypeOK'
  BY DEF TypeOK, ProcTypeOK, procVars
<1>5. SemTypeOK'
  BY SemOpType DEF TypeOK, SemTypeOK
<1> QED
  BY <1>3, <1>4, <1>5 DEF TypeOK

\* P or V on a semaphore of a process.
LEMMA SemCallType ==
  ASSUME TypeOK, cpu = "RUN", NEW s \in UserSem, NEW full \in {0, 1},
         SemOp(s, full, full), UNCHANGED <<procVars, soft_count, status>>,
         \/ Scheduler(high_ready_q, low_ready_q, yielded, slice)
         \/ /\ high_ready_q' = HighWith(Woken(s, full))
            /\ low_ready_q' = LowWith(Woken(s, full)) /\ Resume
  PROVE  TypeOK'
<1>1. s \in Sem /\ current_p \in Pcb
  BY RunningPcb DEF Sem
<1>2. Woken(s, full) \in Seq(Pcb)
  BY <1>1, WokenType DEF TypeOK
<1>3. HighWith(Woken(s, full)) \in Seq(Pcb) /\ LowWith(Woken(s, full)) \in Seq(Pcb)
  BY <1>2, WithType DEF TypeOK
<1>4. CpuTypeOK'
  <2>1. CASE Scheduler(high_ready_q, low_ready_q, yielded, slice)
    BY <2>1, SchedulerType DEF TypeOK, CpuTypeOK
  <2>2. CASE /\ high_ready_q' = HighWith(Woken(s, full))
             /\ low_ready_q' = LowWith(Woken(s, full)) /\ Resume
    BY <2>2, <1>3 DEF TypeOK, CpuTypeOK, Resume, cpuVars
  <2> QED
    BY <2>1, <2>2
<1>5. ProcTypeOK'
  BY DEF TypeOK, ProcTypeOK, procVars
<1>6. SemTypeOK'
  BY <1>1, SemOpType DEF TypeOK, SemTypeOK
<1> QED
  BY <1>4, <1>5, <1>6 DEF TypeOK

\* The end of an interrupt handler leaves the processor in good order.
LEMMA HandbackType ==
  ASSUME TypeOK, NEW hq \in Seq(Pcb), NEW lq \in Seq(Pcb), Handback(hq, lq)
  PROVE  CpuTypeOK'
<1>1. CASE current_p = NULL /\ Scheduler(hq, lq, yielded, slice)
  BY <1>1, SchedulerType DEF TypeOK, CpuTypeOK
<1>2. CASE high_ready_q' = hq /\ low_ready_q' = lq /\ Resume
  BY <1>2 DEF TypeOK, CpuTypeOK, Resume, cpuVars
<1> QED
  BY <1>1, <1>2 DEF Handback

\* CREATEPROCESS keeps the types.
LEMMA CreateType ==
  ASSUME TypeOK, NEW prio \in Int, NEW supportp \in BOOLEAN,
         CreateProcess(prio, supportp)
  PROVE  TypeOK'
<1>1. cpu = "RUN" /\ current_p \in Pcb
  BY RunningPcb DEF CreateProcess, Running
<1>2. PICK child \in Pcb :
       /\ AllocPcb(child) /\ InsertChild(child)
       /\ p_prio' = [p_prio EXCEPT ![child] = prio]
       /\ p_supportStruct' = [p_supportStruct EXCEPT ![child] = supportp]
       /\ high_ready_q' = IF prio # 0 THEN Append(high_ready_q, child) ELSE high_ready_q
       /\ low_ready_q' = IF prio # 0 THEN low_ready_q ELSE Append(low_ready_q, child)
       /\ EnterSlot(child)
  BY DEF CreateProcess
<1>3. CpuTypeOK'
  BY <1>2 DEF CreateProcess, Resume, cpuVars, TypeOK, CpuTypeOK
<1>4. ProcTypeOK'
  <2>1. all_processes' \in [Slot -> Pcb \cup {NULL}]
    BY <1>2 DEF EnterSlot, TypeOK, ProcTypeOK
  <2> QED
    BY <1>1, <1>2, <2>1
       DEF CreateProcess, AllocPcb, InsertChild, TypeOK, ProcTypeOK
<1>5. SemTypeOK'
  BY <1>2 DEF CreateProcess, AllocPcb, TypeOK, SemTypeOK
<1> QED
  BY <1>3, <1>4, <1>5 DEF TypeOK

\* TERMPROCESS by pid keeps the types, a dead caller included.
LEMMA TerminatePidType ==
  ASSUME TypeOK, NEW t \in Pcb, TerminatePid(t)
  PROVE  TypeOK'
<1>1. cpu = "RUN" /\ current_p \in Pcb /\ status' = status
  BY RunningPcb DEF TerminatePid, Running
<1>2. CASE PassUpOrDie
  BY <1>1, <1>2, PassUpOrDieType
<1>3. CASE /\ Exterminate(Subtree(t))
           /\ high_ready_q' = HighWithout(Subtree(t))
           /\ low_ready_q' = LowWithout(Subtree(t))
           /\ Resume
  <2>1. ProcTypeOK' /\ SemTypeOK'
    BY <1>1, <1>3, SubtreeType, ExterminateType DEF TypeOK
  <2>2. CpuTypeOK'
    BY <1>3, WithoutType DEF Resume, cpuVars, TypeOK, CpuTypeOK
  <2> QED
    BY <2>1, <2>2 DEF TypeOK
<1> QED
  BY <1>2, <1>3 DEF TerminatePid

\* A handler that leaves processes and semaphores alone calls the scheduler.
LEMMA RescheduleType ==
  ASSUME TypeOK, NEW hq \in Seq(Pcb), NEW lq \in Seq(Pcb),
         NEW y \in Pcb \cup {NULL}, NEW t \in BOOLEAN,
         UNCHANGED <<procVars, semVars, soft_count, status>>,
         Scheduler(hq, lq, y, t)
  PROVE  TypeOK'
<1>1. CpuTypeOK'
  BY SchedulerType
<1>2. ProcTypeOK' /\ SemTypeOK'
  BY DEF TypeOK, ProcTypeOK, SemTypeOK, procVars, semVars
<1> QED
  BY <1>1, <1>2 DEF TypeOK

\* YIELD keeps the types on each of its three paths.
LEMMA YieldType ==
  ASSUME TypeOK, Yield
  PROVE  TypeOK'
<1>1. current_p \in Pcb /\ UNCHANGED <<procVars, semVars, soft_count, status>>
  BY RunningPcb DEF Yield, Running
<1>2. /\ high_ready_q \in Seq(Pcb) /\ low_ready_q \in Seq(Pcb) /\ <<>> \in Seq(Pcb)
      /\ Append(high_ready_q, current_p) \in Seq(Pcb)
      /\ Append(low_ready_q, current_p) \in Seq(Pcb)
      /\ yielded \in Pcb \cup {NULL} /\ slice \in BOOLEAN
  BY <1>1 DEF TypeOK, CpuTypeOK
<1>3. CASE Scheduler(high_ready_q, Append(low_ready_q, current_p), yielded, slice)
  BY <1>1, <1>2, <1>3, RescheduleType
<1>4. CASE Scheduler(<<>>, low_ready_q, current_p, slice)
  BY <1>1, <1>2, <1>4, RescheduleType
<1>5. CASE Scheduler(Append(high_ready_q, current_p), low_ready_q, yielded, slice)
  BY <1>1, <1>2, <1>5, RescheduleType
<1> QED
  BY <1>3, <1>4, <1>5 DEF Yield

\* A device's interrupt keeps the types, the endless fault included.
LEMMA DeviceInterruptType ==
  ASSUME TypeOK, NEW d \in Device, DeviceInterrupt(d)
  PROVE  TypeOK'
<1> DEFINE u == Served(d)
           s == InterruptSem(d[1], d[2], u[3])
<1>1. u \in Unit /\ s \in Sem
  BY ServedUnit
<1> HIDE DEF u, s
<1>2. /\ status' = [status EXCEPT ![u] = IF @ = "DONE" THEN "READY" ELSE @]
      /\ UNCHANGED procVars
      /\ \/ /\ value[s] = 1 /\ current_p = NULL
            /\ cpu' = "TRAPLOOP"
            /\ UNCHANGED <<slice, current_p, yielded, queues, semVars, soft_count>>
         \/ /\ value[s] = 1 /\ current_p # NULL
            /\ SemOp(s, 1, 1) /\ UNCHANGED soft_count
            /\ Scheduler(high_ready_q, low_ready_q, yielded, slice)
         \/ /\ value[s] # 1
            /\ SemOp(s, 1, 1)
            /\ soft_count' = soft_count - Len(Woken(s, 1))
            /\ Handback(HighWith(Woken(s, 1)), LowWith(Woken(s, 1)))
  BY DEF DeviceInterrupt, u, s
<1>3. ProcTypeOK'
  BY <1>2 DEF TypeOK, ProcTypeOK, procVars
<1>4. status' \in [Unit -> {"READY", "BUSY", "DONE"}]
  BY <1>1, <1>2 DEF TypeOK, SemTypeOK
<1>5. Woken(s, 1) \in Seq(Pcb) /\ Len(Woken(s, 1)) \in Int
  BY <1>1, WokenType DEF TypeOK
<1>6. CASE /\ current_p = NULL
           /\ cpu' = "TRAPLOOP"
           /\ UNCHANGED <<slice, current_p, yielded, queues, semVars, soft_count>>
  BY <1>3, <1>4, <1>6 DEF TypeOK, CpuTypeOK, SemTypeOK, queues, semVars
<1>7. CASE /\ current_p # NULL
           /\ SemOp(s, 1, 1) /\ UNCHANGED soft_count
           /\ Scheduler(high_ready_q, low_ready_q, yielded, slice)
  <2>1. current_p \in Pcb
    BY <1>7 DEF TypeOK, CpuTypeOK
  <2>2. SemTypeOK'
    BY <1>1, <1>4, <1>7, <2>1, SemOpType DEF TypeOK, SemTypeOK
  <2>3. CpuTypeOK'
    BY <1>7, SchedulerType DEF TypeOK, CpuTypeOK
  <2> QED
    BY <1>3, <2>2, <2>3 DEF TypeOK
<1>8. CASE /\ value[s] # 1
           /\ SemOp(s, 1, 1)
           /\ soft_count' = soft_count - Len(Woken(s, 1))
           /\ Handback(HighWith(Woken(s, 1)), LowWith(Woken(s, 1)))
  <2>1. SemTypeOK'
    BY <1>1, <1>4, <1>5, <1>8, SemOpType DEF TypeOK, SemTypeOK
  <2>2. HighWith(Woken(s, 1)) \in Seq(Pcb) /\ LowWith(Woken(s, 1)) \in Seq(Pcb)
    BY <1>5, WithType DEF TypeOK
  <2>3. CpuTypeOK'
    BY <1>8, <2>2, HandbackType
  <2> QED
    BY <1>3, <2>1, <2>3 DEF TypeOK
<1> QED
  BY <1>2, <1>6, <1>7, <1>8

\* A tick keeps the types.
LEMMA IntervalTimerType ==
  ASSUME TypeOK, IntervalTimerInterrupt
  PROVE  TypeOK'
<1>1. s_procq[CLOCK] \in Seq(Pcb)
  BY ClockSem DEF TypeOK, SemTypeOK
<1>2. ProcTypeOK'
  BY DEF IntervalTimerInterrupt, TypeOK, ProcTypeOK, procVars
<1>3. SemTypeOK'
  BY <1>1, ClockSem DEF IntervalTimerInterrupt, TypeOK, SemTypeOK
<1>4. HighWith(s_procq[CLOCK]) \in Seq(Pcb) /\ LowWith(s_procq[CLOCK]) \in Seq(Pcb)
  BY <1>1, WithType DEF TypeOK
<1>5. CpuTypeOK'
  BY <1>4, HandbackType DEF IntervalTimerInterrupt
<1> QED
  BY <1>2, <1>3, <1>5 DEF TypeOK

-----------------------------------------------------------------------------
(* Type correctness.                                                       *)

\* The types hold when main() calls the scheduler.
LEMMA InitType == Init => TypeOK
<1> SUFFICES ASSUME Init PROVE TypeOK
  OBVIOUS
<1>1. CpuTypeOK
  <2>1. <<>> \in Seq(Pcb) /\ <<Root>> \in Seq(Pcb)
    BY NullFacts
  <2> QED
    BY <2>1, NullFacts DEF Init, CpuTypeOK
<1>2. ProcTypeOK
  BY NullFacts DEF Init, ProcTypeOK
<1>3. SemTypeOK
  BY DEF Init, SemTypeOK
<1> QED
  BY <1>1, <1>2, <1>3 DEF TypeOK

\* Every action keeps the types.
LEMMA NextType == TypeOK /\ [Next]_vars => TypeOK'
<1> SUFFICES ASSUME TypeOK, [Next]_vars PROVE TypeOK'
  OBVIOUS
<1>1. CASE Boot
  BY <1>1, RescheduleType DEF Boot, TypeOK, CpuTypeOK
<1>2. ASSUME NEW prio \in Prios, NEW supportp \in Supports, CreateProcess(prio, supportp)
      PROVE  TypeOK'
  BY <1>2, CreateType, UseAssumption
<1>3. CASE CreateProcessFails
  BY <1>3, RunningPcb, PassUpOrDieType DEF CreateProcessFails, Running
<1>4. CASE TerminateSelf
  BY <1>4, RunningPcb, DieType DEF TerminateSelf, Running
<1>5. ASSUME NEW t \in Pcb, TerminatePid(t)
      PROVE  TypeOK'
  BY <1>5, TerminatePidType
<1>6. ASSUME NEW s \in UserSem, Passeren(s)
      PROVE  TypeOK'
  BY <1>6, SemCallType DEF Passeren, Running
<1>7. ASSUME NEW s \in UserSem, Verhogen(s)
      PROVE  TypeOK'
  BY <1>7, SemCallType DEF Verhogen, Running
<1>8. ASSUME NEW u \in Unit, DoIO(u)
      PROVE  TypeOK'
  <2>1. status' \in [Unit -> {"READY", "BUSY", "DONE"}]
    BY <1>8 DEF DoIO, TypeOK, SemTypeOK
  <2> QED
    BY <1>8, <2>1, UnitSem, RunningPcb, BlockOnType DEF DoIO, Running
<1>9. CASE WaitForClock
  <2>1. status' \in [Unit -> {"READY", "BUSY", "DONE"}]
    BY <1>9 DEF WaitForClock, TypeOK, SemTypeOK
  <2> QED
    BY <1>9, <2>1, ClockSem, RunningPcb, BlockOnType DEF WaitForClock, Running
<1>10. CASE GetParentId
  BY <1>10, RunningPcb, PassUpOrDieType DEF GetParentId, Running
<1>11. CASE Yield
  BY <1>11, YieldType
<1>12. CASE UnknownSyscall
  BY <1>12, RescheduleType DEF UnknownSyscall, TypeOK, CpuTypeOK
<1>13. CASE ProgramTrap
  BY <1>13, RunningPcb, PassUpOrDieType DEF ProgramTrap, Running
<1>14. ASSUME NEW d \in Device, DeviceInterrupt(d)
       PROVE  TypeOK'
  BY <1>14, DeviceInterruptType
<1>15. CASE IntervalTimerInterrupt
  BY <1>15, IntervalTimerType
<1>16. CASE PLTTimerInterrupt
  <2>1. Append(low_ready_q, current_p) \in Seq(Pcb)
    BY <1>16, RunningPcb DEF PLTTimerInterrupt, TypeOK, CpuTypeOK
  <2> QED
    BY <1>16, <2>1, RescheduleType DEF PLTTimerInterrupt, TypeOK, CpuTypeOK
<1>17. ASSUME NEW u \in Unit, DeviceCompletes(u)
       PROVE  TypeOK'
  BY <1>17 DEF DeviceCompletes, TypeOK, CpuTypeOK, ProcTypeOK, SemTypeOK,
               cpuVars, queues, procVars, semVars
<1>18. CASE UNCHANGED vars
  BY <1>18 DEF vars, TypeOK, CpuTypeOK, ProcTypeOK, SemTypeOK,
               cpuVars, queues, procVars, semVars
<1> QED
  BY <1>1, <1>2, <1>3, <1>4, <1>5, <1>6, <1>7, <1>8, <1>9, <1>10, <1>11, <1>12,
     <1>13, <1>14, <1>15, <1>16, <1>17, <1>18 DEF Next, Syscall, Interrupt

\* In every reachable state every variable has its type: no handler, on any
\* path, puts NULL into a queue, dispatches NULL, or leaves a semaphore with
\* another value than 0 and 1.
THEOREM TypeCorrect == Spec => []TypeOK
<1> QED
  BY InitType, NextType, PTL DEF Spec

-----------------------------------------------------------------------------
(* The kernel's records of its processes: the free list, the process tree, *)
(* the counter and the table stay consistent with each other whatever is   *)
(* created and terminated.                                                 *)

\* Parents and children are alive.
ParentsLive ==
  \A p \in Pcb : p_parent[p] # NULL => p \in Live /\ p_parent[p] \in Live

RootReachesAll == Live \subseteq Subtree(Root)

CountIsLive == proc_count = Cardinality(Live)

\* The table holds the living processes, each of them once.
TableExact ==
  /\ \A i \in Slot : all_processes[i] # NULL => all_processes[i] \in Live
  /\ \A p \in Live : \E i \in Slot : all_processes[i] = p
  /\ \A i, j \in Slot : all_processes[i] = all_processes[j] /\ all_processes[i] # NULL
                          => i = j

\* Inductive.  Exterminate's recursion needs the tree to know that it frees
\* living processes only, find_process needs the table for the same, and
\* Create_Process the counting to find a slot.
Records == TypeOK /\ ParentsLive /\ RootReachesAll /\ CountIsLive /\ TableExact

-----------------------------------------------------------------------------
(* Subtrees.                                                               *)

Closed(S) == S \in SUBSET Pcb /\ \A c \in Pcb : p_parent[c] \in S => c \in S

\* A subtree lies in every closed set that holds its root,
LEMMA SubtreeLeast ==
  ASSUME NEW t, NEW S, Closed(S), t \in S
  PROVE  Subtree(t) \subseteq S
  BY DEF Subtree, Closed

\* and is closed itself.
LEMMA SubtreeClosed ==
  ASSUME NEW t \in Pcb
  PROVE  Closed(Subtree(t)) /\ t \in Subtree(t)
  BY DEF Subtree, Closed

\* The progeny of a living process is alive.
LEMMA SubtreeLive ==
  ASSUME ParentsLive, NEW t \in Live
  PROVE  Subtree(t) \subseteq Live
<1>1. Closed(Live)
  BY NullFacts DEF Closed, ParentsLive, Live
<1> QED
  BY <1>1, SubtreeLeast

-----------------------------------------------------------------------------
(* What handlers do to the records: nothing, a creation, or the            *)
(* termination of the subtree of a living process.                         *)

\* The running process is alive, as long as no freed block is in use.
LEMMA CurrentLive ==
  ASSUME TypeOK, cpu = "RUN", Intact
  PROVE  current_p \in Live
  BY RunningPcb DEF Intact, Holding, Live

\* What find_process returns is alive.
LEMMA FoundLive ==
  ASSUME TypeOK, TableExact, cpu = "RUN", Intact, NEW t \in Pcb, Finds(t)
  PROVE  t \in Live
  BY CurrentLive, NullFacts DEF Finds, TableExact

\* An exception leaves the records alone or terminates a living process.
LEMMA PassUpOrDieSteps ==
  ASSUME TypeOK, cpu = "RUN", Intact, PassUpOrDie
  PROVE  \/ UNCHANGED procVars
         \/ \E t \in Live : Exterminate(Subtree(t))
  BY CurrentLive DEF PassUpOrDie, Die

\* So does every step that is not a creation.
LEMMA RecordSteps ==
  ASSUME TypeOK, TableExact, [Next]_vars
  PROVE  \/ UNCHANGED procVars
         \/ \E prio \in Prios, supportp \in Supports : CreateProcess(prio, supportp)
         \/ \E t \in Live : Exterminate(Subtree(t))
<1>1. CASE Boot \/ WaitForClock \/ Yield \/ UnknownSyscall
  BY <1>1 DEF Boot, WaitForClock, Yield, UnknownSyscall
<1>2. CASE \E s \in UserSem : Passeren(s) \/ Verhogen(s)
  BY <1>2 DEF Passeren, Verhogen
<1>3. CASE \E u \in Unit : DoIO(u) \/ DeviceCompletes(u)
  BY <1>3 DEF DoIO, DeviceCompletes
<1>4. CASE Interrupt
  BY <1>4 DEF Interrupt, DeviceInterrupt, IntervalTimerInterrupt, PLTTimerInterrupt
<1>5. CASE CreateProcessFails \/ GetParentId \/ ProgramTrap
  BY <1>5, PassUpOrDieSteps DEF CreateProcessFails, GetParentId, ProgramTrap, Running
<1>6. CASE TerminateSelf
  BY <1>6, CurrentLive DEF TerminateSelf, Die, Running
<1>7. ASSUME NEW t \in Pcb, TerminatePid(t)
      PROVE  \/ UNCHANGED procVars
             \/ \E q \in Live : Exterminate(Subtree(q))
  BY <1>7, FoundLive, PassUpOrDieSteps DEF TerminatePid, Running
<1>8. CASE UNCHANGED vars
  BY <1>8 DEF vars, procVars
<1> QED
  BY <1>1, <1>2, <1>3, <1>4, <1>5, <1>6, <1>7, <1>8 DEF Next, Syscall

-----------------------------------------------------------------------------
(* Termination.                                                            *)

\* Terminating the subtree of a living process keeps the records consistent.
LEMMA ExterminateRecords ==
  ASSUME Records, NEW t \in Live, Exterminate(Subtree(t))
  PROVE  ParentsLive' /\ RootReachesAll' /\ CountIsLive' /\ TableExact'
<1> DEFINE K == Subtree(t)
<1>1. t \in Pcb
  BY DEF Live
<1>2. K \subseteq Live /\ Closed(K)
  BY <1>1, SubtreeLive, SubtreeClosed DEF Records
<1>3. Exterminate(K)
  OBVIOUS
<1> HIDE DEF K
<1>4. Live' = Live \ K
  BY <1>2, <1>3 DEF Live, Exterminate, FreePcb
<1>5. p_parent' = [p \in Pcb |-> IF p \in K THEN NULL ELSE p_parent[p]]
  BY <1>3 DEF Exterminate, OutChild
<1>6. ParentsLive'
  <2> SUFFICES ASSUME NEW p \in Pcb, p_parent'[p] # NULL
               PROVE  p \in Live' /\ p_parent'[p] \in Live'
    BY DEF ParentsLive
  <2>1. p \notin K /\ p_parent'[p] = p_parent[p]
    BY <1>5
  <2>2. p \in Live /\ p_parent[p] \in Live
    BY <2>1 DEF Records, ParentsLive
  <2>3. p_parent[p] \notin K
    BY <1>2, <2>1 DEF Closed
  <2> QED
    BY <1>4, <2>1, <2>2, <2>3
<1>7. RootReachesAll'
  <2> SUFFICES ASSUME NEW q \in Live \ K, NEW S \in SUBSET Pcb, Root \in S,
                      \A c \in Pcb : p_parent'[c] \in S => c \in S
               PROVE  q \in S
    BY <1>4 DEF RootReachesAll, Subtree, Live
  <2>1. Closed(S \cup K)
    BY <1>2, <1>5 DEF Closed
  <2>2. q \in S \cup K
    BY <2>1, SubtreeLeast DEF Records, RootReachesAll
  <2> QED
    BY <2>2
<1>8. CountIsLive'
  <2>1. IsFiniteSet(Live)
    BY PcbAssumption, FS_Subset DEF Live
  <2>2. Cardinality(Live \ K) = Cardinality(Live) - Cardinality(K)
    <3>1. Live \cap K = K
      BY <1>2
    <3> QED
      BY <2>1, <3>1, FS_Difference
  <2>3. proc_count' = proc_count - Cardinality(K)
    BY <1>3 DEF Exterminate
  <2> QED
    BY <1>4, <2>2, <2>3 DEF Records, CountIsLive
<1>9. TableExact'
  <2>1. all_processes' = [i \in Slot |-> IF all_processes[i] \in K THEN NULL
                                         ELSE all_processes[i]]
    BY <1>3 DEF Exterminate
  <2>2. NULL \notin Live
    BY NullFacts DEF Live
  <2> QED
    BY <1>2, <1>4, <2>1, <2>2 DEF Records, TableExact
<1> QED
  BY <1>6, <1>7, <1>8, <1>9

-----------------------------------------------------------------------------
(* Creation.                                                               *)

\* With a control block to spare the table has an empty slot.
LEMMA EmptySlot ==
  ASSUME Records, NEW child \in pcbFree
  PROVE  \E i \in Slot : all_processes[i] = NULL
<1>1. SUFFICES ASSUME \A i \in Slot : all_processes[i] # NULL PROVE FALSE
  OBVIOUS
<1>2. all_processes \in [Slot -> Live]
  BY <1>1 DEF Records, TypeOK, ProcTypeOK, TableExact
<1>3. IsFiniteSet(Live) /\ Cardinality(Live) < Cardinality(Pcb)
  <2>1. Live \in SUBSET Pcb /\ Live # Pcb
    BY DEF Live, Records, TypeOK, ProcTypeOK
  <2>2. /\ IsFiniteSet(Live) /\ Cardinality(Live) <= Cardinality(Pcb)
        /\ Cardinality(Live) # Cardinality(Pcb)
    BY <2>1, PcbAssumption, FS_Subset
  <2>3. Cardinality(Live) \in Nat /\ Cardinality(Pcb) \in Nat
    BY <2>2, PcbAssumption, FS_CardinalityType
  <2> QED
    BY <2>2, <2>3
<1>4. IsFiniteSet(Slot) /\ Cardinality(Slot) = Cardinality(Pcb)
  <2>1. Cardinality(Pcb) \in Nat
    BY PcbAssumption, FS_CardinalityType
  <2> QED
    BY <2>1, FS_Interval DEF Slot, MAXPROC
<1>5. \E i, j \in Slot : i # j /\ all_processes[i] = all_processes[j]
  BY <1>2, <1>3, <1>4, FS_PigeonHole
<1> QED
  BY <1>1, <1>5 DEF Records, TableExact

\* Creating a process keeps the records consistent.
LEMMA CreateRecords ==
  ASSUME Records, NEW prio \in Prios, NEW supportp \in Supports,
         CreateProcess(prio, supportp)
  PROVE  ParentsLive' /\ RootReachesAll' /\ CountIsLive' /\ TableExact'
<1>1. current_p \in Live
  BY CurrentLive DEF CreateProcess, Running, Records
<1>2. PICK child \in Pcb : AllocPcb(child) /\ InsertChild(child) /\ EnterSlot(child)
  BY DEF CreateProcess
<1>3. child \in pcbFree /\ child \notin Live /\ Live' = Live \cup {child}
  BY <1>2 DEF AllocPcb, Live
<1>4. p_parent' = [p_parent EXCEPT ![child] = current_p]
  BY <1>2 DEF InsertChild
<1>5. /\ p_parent \in [Pcb -> Pcb \cup {NULL}]
      /\ all_processes \in [Slot -> Pcb \cup {NULL}]
  BY DEF Records, TypeOK, ProcTypeOK
<1>6. ParentsLive'
  BY <1>1, <1>3, <1>4, <1>5 DEF Records, ParentsLive
<1>7. RootReachesAll'
  <2> SUFFICES ASSUME NEW q \in Live \cup {child}, NEW S \in SUBSET Pcb, Root \in S,
                      \A c \in Pcb : p_parent'[c] \in S => c \in S
               PROVE  q \in S
    BY <1>3 DEF RootReachesAll, Subtree, Live
  <2>1. p_parent[child] = NULL
    BY <1>3 DEF Records, ParentsLive
  <2>2. Closed(S)
    BY <1>4, <1>5, <2>1, NullFacts DEF Closed
  <2>3. Live \subseteq S
    BY <2>2, SubtreeLeast DEF Records, RootReachesAll
  <2>4. child \in S
    BY <1>1, <1>4, <1>5, <2>3
  <2> QED
    BY <2>3, <2>4
<1>8. CountIsLive'
  <2>1. IsFiniteSet(Live)
    BY PcbAssumption, FS_Subset DEF Live
  <2>2. Cardinality(Live \cup {child}) = Cardinality(Live) + 1
    BY <1>3, <2>1, FS_AddElement
  <2>3. proc_count' = proc_count + 1
    BY DEF CreateProcess
  <2> QED
    BY <1>3, <2>2, <2>3 DEF Records, CountIsLive
<1>9. TableExact'
  <2>1. PICK i \in Slot :
          all_processes[i] = NULL /\ all_processes' = [all_processes EXCEPT ![i] = child]
    BY <1>2, <1>3, EmptySlot DEF EnterSlot
  <2>2. child # NULL /\ NULL \notin Live
    BY NullFacts DEF Live
  <2>3. \A j \in Slot : all_processes'[j] = IF j = i THEN child ELSE all_processes[j]
    BY <1>5, <2>1
  <2> QED
    BY <1>3, <2>1, <2>2, <2>3 DEF Records, TableExact
<1> QED
  BY <1>6, <1>7, <1>8, <1>9

-----------------------------------------------------------------------------
\* The first process alone is a consistent record.
LEMMA InitRecords == Init => Records
<1> SUFFICES ASSUME Init PROVE Records
  OBVIOUS
<1>1. TypeOK
  BY InitType
<1>2. Live = {Root}
  BY NullFacts DEF Init, Live
<1>3. ParentsLive
  BY DEF Init, ParentsLive
<1>4. RootReachesAll
  BY <1>2, NullFacts, SubtreeClosed DEF RootReachesAll
<1>5. CountIsLive
  BY <1>2, FS_Singleton DEF Init, CountIsLive
<1>6. TableExact
  <2>1. 1 \in Slot
    <3>1. Cardinality(Pcb) \in Nat /\ Cardinality(Pcb) # 0
      BY PcbAssumption, FS_CardinalityType, FS_EmptySet
    <3> QED
      BY <3>1 DEF Slot, MAXPROC
  <2> QED
    BY <1>2, <2>1, NullFacts DEF Init, TableExact
<1> QED
  BY <1>1, <1>3, <1>4, <1>5, <1>6 DEF Records

\* Every step keeps the records consistent.
LEMMA NextRecords == Records /\ [Next]_vars => Records'
<1> SUFFICES ASSUME Records, [Next]_vars PROVE Records'
  OBVIOUS
<1>1. TypeOK'
  BY NextType DEF Records
<1>2. CASE UNCHANGED procVars
  <2>1. ParentsLive' /\ RootReachesAll' /\ CountIsLive' /\ TableExact'
    BY <1>2 DEF Records, procVars, Live, Subtree,
                ParentsLive, RootReachesAll, CountIsLive, TableExact
  <2> QED
    BY <1>1, <2>1 DEF Records
<1>3. CASE \E prio \in Prios, supportp \in Supports : CreateProcess(prio, supportp)
  BY <1>1, <1>3, CreateRecords DEF Records
<1>4. CASE \E t \in Live : Exterminate(Subtree(t))
  BY <1>1, <1>4, ExterminateRecords DEF Records
<1> QED
  BY <1>2, <1>3, <1>4, RecordSteps DEF Records

\* The records are consistent in every reachable state.
LEMMA RecordsHold == Spec => []Records
<1> QED
  BY InitRecords, NextRecords, PTL DEF Spec

\* The living processes always form one tree under the first process:
\* Exterminate leaves neither an orphan nor a child of a dead process.
THEOREM TreeCorrect == Spec => []FamilyTree
<1>1. Records => FamilyTree
  BY DEF Records, ParentsLive, RootReachesAll, FamilyTree
<1> QED
  BY <1>1, RecordsHold, PTL

\* proc_count is the number of living processes and all_processes lists each
\* of them once, through any sequence of creations and terminations; HALT is
\* therefore reached only with no process left.
THEOREM CountsCorrect == Spec => []CountsAgree
<1>1. ASSUME Records, NEW p \in Pcb
      PROVE  Cardinality({i \in Slot : all_processes[i] = p}) =
               IF p \in Live THEN 1 ELSE 0
  <2> DEFINE I == {i \in Slot : all_processes[i] = p}
  <2>1. CASE p \in Live
    <3>1. PICK i \in Slot : all_processes[i] = p
      BY <1>1, <2>1 DEF Records, TableExact
    <3>2. I = {i}
      BY <1>1, <3>1, NullFacts DEF Records, TableExact
    <3> QED
      BY <2>1, <3>2, FS_Singleton
  <2>2. CASE p \notin Live
    <3>1. I = {}
      BY <1>1, <2>2, NullFacts DEF Records, TableExact
    <3> QED
      BY <2>2, <3>1, FS_EmptySet
  <2> QED
    BY <2>1, <2>2
<1>2. Records => CountsAgree
  BY <1>1 DEF Records, CountIsLive, CountsAgree
<1> QED
  BY <1>2, RecordsHold, PTL
=============================================================================
