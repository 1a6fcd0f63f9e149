------------------------------- MODULE Kernel -------------------------------
(***************************************************************************)
(* The nucleus of WFos_plus (pandos/phase2, on the process control blocks  *)
(* and the semaphore list of pandos/phase1): scheduler, system calls,      *)
(* exceptions and interrupts of one processor.                             *)
(*                                                                         *)
(* Handlers run with interrupts disabled, so each of them is one action,   *)
(* from the exception to the LDST, WAIT, HALT or PANIC that ends it.  What *)
(* interleaves is the instant at which processes call the kernel, devices  *)
(* complete and timers expire.  A fault inside a handler (an access        *)
(* through NULL, which is 0xFFFFFFFF here and never a valid address) is    *)
(* an exception of its own, served by PassUpOrDie for current_p.           *)
(*                                                                         *)
(* A definition named Fault_X stands before the definition it would        *)
(* replace: a slip of the kind one makes in that code, there to show that  *)
(* the properties notice it.  Nothing refers to it.                        *)
(***************************************************************************)
EXTENDS DevIndex, Queue, FiniteSets

CONSTANTS
  Pcb,        \* the MAXPROC process control blocks of pcbFree_table
  Root,       \* the one main() gives to the first process
  NULL,
  UserSem,    \* semaphores that belong to processes
  Device,     \* the installed devices, pairs <<line, number>>
  Prios,      \* priorities processes ask for; 0 is low, 1 is high
  Supports,   \* whether created processes have a support structure
  Calls,      \* what processes do; a subset of CallNames
  Rules       \* conventions processes keep; a subset of RuleNames

CallNames == {"CREATEPROCESS", "TERMSELF", "TERMPID", "PASSEREN", "VERHOGEN",
              "DOIO", "CLOCKWAIT", "GETPARENT", "YIELD", "UNKNOWN", "TRAP"}

(***************************************************************************)
(* The kernel does not enforce these; a run that needs one names it.       *)
(*   SPARES_ANCESTORS  TERMPROCESS never names the caller or its ancestor  *)
(*   SPARES_IO         nobody is terminated while it awaits a device       *)
(*   LEAVES_ONLY       only a process without children terminates, itself  *)
(*   EXCLUSIVE_DEVICE  DOIO only on a device with no operation in progress *)
(*   ONE_YIELDER       no high process yields while another one's yield is *)
(*                     pending                                             *)
(***************************************************************************)
RuleNames == {"SPARES_ANCESTORS", "SPARES_IO", "LEAVES_ONLY",
              "EXCLUSIVE_DEVICE", "ONE_YIELDER"}

MAXPROC == Cardinality(Pcb)
Slot    == 1..MAXPROC

Unit == UNION {{<<d[1], d[2], u>> : u \in UnitsOf(d[1])} : d \in Device}

\* Indices of device_sem[]: one per unit, and the pseudo-clock's.
SemOf(u) == CommandSem(CommandAddr(u[1], u[2], u[3]))
CLOCK    == 48
DevSem   == {SemOf(u) : u \in Unit} \cup {CLOCK}
Sem      == UserSem \cup DevSem

ASSUME PcbAssumption   == IsFiniteSet(Pcb) /\ Root \in Pcb /\ NULL \notin Pcb
ASSUME SemAssumption   == UserSem \cap Int = {} /\ NULL \notin Sem
ASSUME DeviceAssumption == Device \subseteq Line \X Number
ASSUME UseAssumption   == /\ Prios \subseteq Int /\ Supports \subseteq BOOLEAN
                          /\ Calls \subseteq CallNames /\ Rules \subseteq RuleNames

VARIABLES
  \* the processor
  cpu,              \* BOOT, RUN a process, WAIT, HALT, PANIC; TRAPLOOP and
                    \* ADRIFT when control is lost inside the kernel
  slice,            \* the processor local timer is armed with a time slice
  current_p, yielded,
  high_ready_q, low_ready_q,
  \* the processes
  pcbFree, p_prio, p_parent, p_supportStruct,
  all_processes, proc_count,
  \* the semaphores
  value, s_procq, p_semAdd, soft_count,
  \* the devices
  status            \* READY, BUSY, or DONE: its interrupt is pending

cpuVars  == <<cpu, slice, current_p, yielded>>
queues   == <<high_ready_q, low_ready_q>>
procVars == <<pcbFree, p_prio, p_parent, p_supportStruct, all_processes, proc_count>>
semVars  == <<value, s_procq, p_semAdd>>
vars     == <<cpuVars, queues, procVars, semVars, soft_count, status>>

Live == Pcb \ pcbFree

Holding == ({current_p, yielded} \cap Pcb)
             \cup Entries(high_ready_q) \cup Entries(low_ready_q)
             \cup UNION {Entries(s_procq[s]) : s \in Sem}

\* A control block is linked into pcbFree through the field that links it into
\* a queue: once a freed one is still in use the lists overlap, and the model
\* stops there.
Intact == pcbFree \cap Holding = {}

-----------------------------------------------------------------------------
(* main(): the state in which it calls the scheduler.                      *)

Init ==
  /\ cpu = "BOOT" /\ slice = FALSE
  /\ current_p = NULL /\ yielded = NULL
  /\ high_ready_q = <<>> /\ low_ready_q = <<Root>>
  /\ pcbFree = Pcb \ {Root}
  /\ p_prio = [p \in Pcb |-> 0]
  /\ p_parent = [p \in Pcb |-> NULL]
  /\ p_supportStruct = [p \in Pcb |-> FALSE]
  /\ all_processes = [i \in Slot |-> IF i = 1 THEN Root ELSE NULL]
  /\ proc_count = 1 /\ soft_count = 0
  /\ value \in [Sem -> {0, 1}] /\ \A s \in DevSem : value[s] = 0
  /\ s_procq = [s \in Sem |-> <<>>]
  /\ p_semAdd = [p \in Pcb |-> NULL]
  /\ status = [u \in Unit |-> "READY"]

-----------------------------------------------------------------------------
(* The scheduler, called with the ready queues hq and lq, the pending      *)
(* yielder y and the timer armed or not (t).                               *)

\* Off by one: a single soft-blocked process counts as none.
Fault_IdleOffByOne(procs, soft) ==
  IF procs = 0 THEN "HALT" ELSE IF soft > 1 THEN "WAIT" ELSE "PANIC"

\* With nothing ready the count of soft-blocked processes decides.
Idle(procs, soft) ==
  IF procs = 0 THEN "HALT" ELSE IF soft > 0 THEN "WAIT"
  ELSE IF soft = 0 THEN "PANIC" ELSE "ADRIFT"

\* current_p keeps its old value in HALT, PANIC and ADRIFT, where nothing
\* reads it any more; the model clears it.
Scheduler(hq, lq, y, t) ==
  \/ /\ hq # <<>>
     /\ cpu' = "RUN" /\ slice' = t
     /\ current_p' = Head(hq) /\ high_ready_q' = Tail(hq)
     /\ low_ready_q' = lq /\ yielded' = y
  \/ /\ hq = <<>> /\ lq # <<>>
     /\ cpu' = "RUN" /\ slice' = TRUE
     /\ current_p' = Head(lq) /\ low_ready_q' = Tail(lq)
     /\ high_ready_q' = (IF y # NULL THEN <<y>> ELSE <<>>) /\ yielded' = NULL
  \/ /\ hq = <<>> /\ lq = <<>>
     /\ cpu' = Idle(proc_count', soft_count')
     /\ slice' = (t /\ cpu' # "WAIT")
     /\ current_p' = NULL
     /\ high_ready_q' = hq /\ low_ready_q' = lq /\ yielded' = y

\* The handler ends by resuming the process it interrupted.
Resume == UNCHANGED cpuVars

\* The processor goes back to its WAIT without looking at the queues.
Fault_HandbackOnly(hq, lq) ==
  high_ready_q' = hq /\ low_ready_q' = lq /\ Resume

\* An interrupt handler ends with the ready queues hq and lq.
Handback(hq, lq) ==
  \/ current_p = NULL /\ Scheduler(hq, lq, yielded, slice)
  \/ current_p # NULL /\ high_ready_q' = hq /\ low_ready_q' = lq /\ Resume

Boot ==
  /\ cpu = "BOOT"
  /\ UNCHANGED <<procVars, semVars, soft_count, status>>
  /\ Scheduler(high_ready_q, low_ready_q, yielded, slice)

-----------------------------------------------------------------------------
(* The semaphore list (asl.c).                                             *)

InsertBlocked(s, p) ==
  /\ s_procq' = [s_procq EXCEPT ![s] = Append(@, p)]
  /\ p_semAdd' = [p_semAdd EXCEPT ![p] = s]

\* As removeBlocked was in the first phase.
Fault_RemoveKeepsSemAdd(s) ==
  /\ s_procq' = [s_procq EXCEPT ![s] = Tail(@)]
  /\ UNCHANGED p_semAdd

RemoveBlocked(s) ==
  /\ p_semAdd' = [p_semAdd EXCEPT ![Head(s_procq[s])] = NULL]
  /\ s_procq' = [s_procq EXCEPT ![s] = Tail(@)]

\* The operation takes effect on the value as well as on the waiter.
Fault_SemOpTwice(s, full, next) ==
  \/ /\ value[s] = full
     /\ InsertBlocked(s, current_p) /\ UNCHANGED value
  \/ /\ value[s] # full
     /\ value' = [value EXCEPT ![s] = next]
     /\ IF s_procq[s] # <<>> THEN RemoveBlocked(s) ELSE UNCHANGED <<s_procq, p_semAdd>>

\* V counts up where a binary semaphore blocks.
Fault_SemOpCounts(s, full, next) ==
  \/ /\ value[s] = full
     /\ IF full = 0 THEN InsertBlocked(s, current_p) ELSE UNCHANGED <<s_procq, p_semAdd>>
     /\ value' = [value EXCEPT ![s] = IF full = 0 THEN @ ELSE @ + 1]
  \/ /\ value[s] # full /\ s_procq[s] # <<>>
     /\ RemoveBlocked(s) /\ UNCHANGED value
  \/ /\ value[s] # full /\ s_procq[s] = <<>>
     /\ value' = [value EXCEPT ![s] = next] /\ UNCHANGED <<s_procq, p_semAdd>>

\* Passeren and Verhogen block on one value of the semaphore; on another one
\* they wake the first in the queue, if any, and only else change the value.
SemOp(s, full, next) ==
  \/ /\ value[s] = full
     /\ InsertBlocked(s, current_p) /\ UNCHANGED value
  \/ /\ value[s] # full /\ s_procq[s] # <<>>
     /\ RemoveBlocked(s) /\ UNCHANGED value
  \/ /\ value[s] # full /\ s_procq[s] = <<>>
     /\ value' = [value EXCEPT ![s] = next] /\ UNCHANGED <<s_procq, p_semAdd>>

Woken(s, full) ==
  IF value[s] # full /\ s_procq[s] # <<>> THEN <<Head(s_procq[s])>> ELSE <<>>

\* A low process is made ready twice.
Fault_HighWithAll(w) == high_ready_q \o w

\* A high process is made ready in both queues.
Fault_LowWithAll(w) == low_ready_q \o w

\* The ready queues once the processes of the sequence w have joined them.
HighWith(w) == high_ready_q \o Only(w, {p \in Pcb : p_prio[p] = 1})
LowWith(w)  == low_ready_q  \o Only(w, {p \in Pcb : p_prio[p] # 1})

-----------------------------------------------------------------------------
(* Termination (Exterminate, Terminate_Process(0), PassUpOrDie).           *)

\* Only the children, not theirs.
Fault_Children(p) == {p} \cup {c \in Pcb : p_parent[c] = p}

\* p and its progeny: what Exterminate(p) reaches through the child lists.
Subtree(p) ==
  {q \in Pcb : \A S \in SUBSET Pcb :
      (p \in S /\ \A c \in Pcb : p_parent[c] \in S => c \in S) => q \in S}

Fault_LowKept(K) == low_ready_q

\* outProcQ for every member of K, in the one queue its priority names.
HighWithout(K) == Only(high_ready_q, Pcb \ {p \in K : p_prio[p] # 0})
LowWithout(K)  == Only(low_ready_q, Pcb \ {p \in K : p_prio[p] = 0})

\* Every blocked process, on whatever semaphore.
Fault_Blocked(K) == {p \in K : p_semAdd[p] # NULL}

SoftBlocked(K) == {p \in K : p_semAdd[p] \in DevSem}

\* outBlocked, outChild and freePcb for every member of K.
OutBlocked(K) ==
  s_procq' = [s \in Sem |-> Only(s_procq[s], Pcb \ {p \in K : p_semAdd[p] = s})]
OutChild(K) == p_parent' = [p \in Pcb |-> IF p \in K THEN NULL ELSE p_parent[p]]
FreePcb(K)  == pcbFree' = pcbFree \cup K

\* Exterminate on all of K, but for the ready queues.  p_semAdd, p_prio and
\* yielded are left as they are.
Exterminate(K) ==
  /\ FreePcb(K) /\ OutChild(K) /\ OutBlocked(K)
  /\ all_processes' = [i \in Slot |-> IF all_processes[i] \in K THEN NULL
                                      ELSE all_processes[i]]
  /\ proc_count' = proc_count - Cardinality(K)
  /\ soft_count' = soft_count - Cardinality(SoftBlocked(K))
  /\ UNCHANGED <<value, p_semAdd, p_prio, p_supportStruct>>

\* The conventions processes keep about who may be terminated.
MayTerminate(K) ==
  /\ "SPARES_IO" \in Rules => \A p \in K \cap Live : p_semAdd[p] \notin DevSem \ {CLOCK}
  /\ "LEAVES_ONLY" \in Rules => K = {current_p}

Die ==
  /\ MayTerminate(Subtree(current_p))
  /\ Exterminate(Subtree(current_p))
  /\ Scheduler(HighWithout(Subtree(current_p)), LowWithout(Subtree(current_p)),
               yielded, slice)

\* A process with a support structure goes on in its exception handler; for
\* the kernel nothing changes.
PassUpOrDie ==
  \/ p_supportStruct[current_p] /\ UNCHANGED <<cpuVars, queues, procVars, semVars, soft_count>>
  \/ ~p_supportStruct[current_p] /\ Die

-----------------------------------------------------------------------------
(* System calls.  The processor takes a pending interrupt before it lets   *)
(* the process execute the next instruction.                               *)

Running(call) ==
  /\ cpu = "RUN" /\ Intact /\ \A u \in Unit : status[u] # "DONE"
  /\ call \in Calls

\* The table taken for dense.
Fault_NextSlot(p) ==
  all_processes' = [i \in Slot |-> IF i = proc_count + 1 THEN p ELSE all_processes[i]]

\* The first NULL slot of all_processes, if there is one.
EnterSlot(p) ==
  \/ /\ \A i \in Slot : all_processes[i] # NULL
     /\ UNCHANGED all_processes
  \/ \E i \in Slot :
       /\ all_processes[i] = NULL /\ \A j \in 1..(i - 1) : all_processes[j] # NULL
       /\ all_processes' = [all_processes EXCEPT ![i] = p]

\* allocPcb takes the head of a list of interchangeable blocks: any of them.
\* It resets p_semAdd, which outBlocked leaves in a terminated process.
AllocPcb(child) ==
  /\ child \in pcbFree
  /\ pcbFree' = pcbFree \ {child}
  /\ p_semAdd' = [p_semAdd EXCEPT ![child] = NULL]

InsertChild(child) == p_parent' = [p_parent EXCEPT ![child] = current_p]

CreateProcess(prio, supportp) ==
  /\ Running("CREATEPROCESS")
  /\ \E child \in Pcb :
       /\ AllocPcb(child) /\ InsertChild(child)
       /\ p_prio' = [p_prio EXCEPT ![child] = prio]
       /\ p_supportStruct' = [p_supportStruct EXCEPT ![child] = supportp]
       /\ high_ready_q' = IF prio # 0 THEN Append(high_ready_q, child) ELSE high_ready_q
       /\ low_ready_q' = IF prio # 0 THEN low_ready_q ELSE Append(low_ready_q, child)
       /\ EnterSlot(child)
  /\ proc_count' = proc_count + 1
  /\ UNCHANGED <<value, s_procq, soft_count, status>> /\ Resume

\* With no free block the result register gets NOPROC, and then the pid of
\* the child, read through NULL: an address error in the kernel.
CreateProcessFails ==
  /\ Running("CREATEPROCESS") /\ pcbFree = {}
  /\ PassUpOrDie /\ UNCHANGED status

TerminateSelf == Running("TERMSELF") /\ Die /\ UNCHANGED status

\* find_process reads the pid of every entry up to the one it looks for; the
\* test in front of it is true of NULL.  Root's pid is 0, which names the caller.
Finds(t) ==
  \/ t = current_p
  \/ \E i \in Slot : all_processes[i] = t /\ \A j \in 1..(i - 1) : all_processes[j] # NULL

\* Terminate_Process(pid) for another pid than 0: the handler resumes the
\* caller even when it has just been terminated.
TerminatePid(t) ==
  /\ Running("TERMPID") /\ t # Root
  /\ \/ /\ Finds(t)
        /\ "SPARES_ANCESTORS" \in Rules => current_p \notin Subtree(t)
        /\ MayTerminate(Subtree(t))
        /\ Exterminate(Subtree(t))
        /\ high_ready_q' = HighWithout(Subtree(t))
        /\ low_ready_q' = LowWithout(Subtree(t))
        /\ Resume
     \/ ~Finds(t) /\ PassUpOrDie
  /\ UNCHANGED status

Passeren(s) ==
  /\ Running("PASSEREN")
  /\ SemOp(s, 0, 0)
  /\ UNCHANGED <<procVars, soft_count, status>>
  /\ \/ value[s] = 0 /\ Scheduler(high_ready_q, low_ready_q, yielded, slice)
     \/ /\ value[s] # 0
        /\ high_ready_q' = HighWith(Woken(s, 0)) /\ low_ready_q' = LowWith(Woken(s, 0))
        /\ Resume

Verhogen(s) ==
  /\ Running("VERHOGEN")
  /\ SemOp(s, 1, 1)
  /\ UNCHANGED <<procVars, soft_count, status>>
  /\ \/ value[s] = 1 /\ Scheduler(high_ready_q, low_ready_q, yielded, slice)
     \/ /\ value[s] # 1
        /\ high_ready_q' = HighWith(Woken(s, 1)) /\ low_ready_q' = LowWith(Woken(s, 1))
        /\ Resume

\* The command register is written only when the process is not blocked.
Fault_DoIONoCommand(u) ==
  /\ Running("DOIO")
  /\ SemOp(SemOf(u), 0, 0)
  /\ soft_count' = soft_count + 1
  /\ UNCHANGED <<procVars, status>>
  /\ Scheduler(high_ready_q, low_ready_q, yielded, slice)

\* The handler counts the caller as blocked and calls the scheduler whatever
\* Passeren did.  A busy unit ignores the command.
DoIO(u) ==
  /\ Running("DOIO")
  /\ "EXCLUSIVE_DEVICE" \in Rules =>
       \A v \in Unit : v[1] = u[1] /\ v[2] = u[2] => status[v] = "READY"
  /\ SemOp(SemOf(u), 0, 0)
  /\ status' = [status EXCEPT ![u] = IF @ = "READY" THEN "BUSY" ELSE @]
  /\ soft_count' = soft_count + 1
  /\ UNCHANGED procVars
  /\ Scheduler(HighWith(Woken(SemOf(u), 0)), LowWith(Woken(SemOf(u), 0)), yielded, slice)

\* The caller is not counted.
Fault_ClockNotCounted ==
  /\ Running("CLOCKWAIT")
  /\ SemOp(CLOCK, 0, 0)
  /\ UNCHANGED <<procVars, soft_count, status>>
  /\ Scheduler(HighWith(Woken(CLOCK, 0)), LowWith(Woken(CLOCK, 0)), yielded, slice)

WaitForClock ==
  /\ Running("CLOCKWAIT")
  /\ SemOp(CLOCK, 0, 0)
  /\ soft_count' = soft_count + 1
  /\ UNCHANGED <<procVars, status>>
  /\ Scheduler(HighWith(Woken(CLOCK, 0)), LowWith(Woken(CLOCK, 0)), yielded, slice)

\* Get_Process_Id(1) only reads, except that the first process's p_parent is
\* NULL, which the code takes for a pointer.
GetParentId ==
  /\ Running("GETPARENT") /\ p_parent[current_p] = NULL
  /\ PassUpOrDie /\ UNCHANGED status

Yield ==
  /\ Running("YIELD")
  /\ UNCHANGED <<procVars, semVars, soft_count, status>>
  /\ \/ /\ p_prio[current_p] = 0
        /\ Scheduler(high_ready_q, Append(low_ready_q, current_p), yielded, slice)
     \/ /\ p_prio[current_p] # 0 /\ high_ready_q = <<>>
        /\ "ONE_YIELDER" \in Rules => yielded = NULL
        /\ Scheduler(<<>>, low_ready_q, current_p, slice)
     \/ /\ p_prio[current_p] # 0 /\ high_ready_q # <<>>
        /\ Scheduler(Append(high_ready_q, current_p), low_ready_q, yielded, slice)

\* A negative number no case of the switch names: the scheduler runs and the
\* state of the caller is kept nowhere.
UnknownSyscall ==
  /\ Running("UNKNOWN")
  /\ UNCHANGED <<procVars, semVars, soft_count, status>>
  /\ Scheduler(high_ready_q, low_ready_q, yielded, slice)

\* A program trap, a TLB exception, a system call from user mode or with a
\* number that is not negative.
ProgramTrap == Running("TRAP") /\ PassUpOrDie /\ UNCHANGED status

-----------------------------------------------------------------------------
(* Devices and interrupts.                                                 *)

Interruptible == cpu \in {"RUN", "WAIT"} /\ Intact

\* The operation of a unit ends, well or not, and its interrupt is pending.
DeviceCompletes(u) ==
  /\ Interruptible /\ status[u] = "BUSY"
  /\ status' = [status EXCEPT ![u] = "DONE"]
  /\ UNCHANGED <<cpuVars, queues, procVars, semVars, soft_count>>

Pending(d) == \E u \in UnitsOf(d[1]) : status[<<d[1], d[2], u>>] = "DONE"

Before(d, e) == d[1] < e[1] \/ (d[1] = e[1] /\ d[2] < e[2])

\* The unit deviceInterrupt takes the interrupt for: a terminal's transmitter
\* unless that is READY, which it is not while it is still BUSY.
Served(d) ==
  <<d[1], d[2], IF d[1] # TERMLINE THEN "dtp"
                ELSE IF status[<<d[1], d[2], "transm">>] # "READY" THEN "transm"
                ELSE "recv">>

\* The acknowledgement ends a pending interrupt; a busy unit ignores it.
\* Verhogen on a semaphore that is already 1 blocks the interrupted process,
\* and without one faults for ever, PassUpOrDie reading through NULL in turn.
DeviceInterrupt(d) ==
  LET u == Served(d)
      s == InterruptSem(d[1], d[2], u[3])
  IN
  /\ Interruptible
  /\ Pending(d) /\ \A e \in Device : Before(e, d) => ~Pending(e)
  /\ status' = [status EXCEPT ![u] = IF @ = "DONE" THEN "READY" ELSE @]
  /\ UNCHANGED procVars
  /\ \/ /\ value[s] = 1 /\ current_p = NULL
        /\ cpu' = "TRAPLOOP"
        /\ UNCHANGED <<slice, current_p, yielded, queues, semVars, soft_count>>
     \/ /\ value[s] = 1 /\ current_p # NULL
        /\ SemOp(s, 1, 1) /\ UNCHANGED soft_count
        /\ Scheduler(high_ready_q, low_ready_q, yielded, slice)
     \/ /\ value[s] # 1
        /\ SemOp(s, 1, 1)
        /\ soft_count' = soft_count - Len(Woken(s, 1))
        /\ Handback(HighWith(Woken(s, 1)), LowWith(Woken(s, 1)))

\* Everybody waiting for the pseudo-clock, in order, and its semaphore is 0.
IntervalTimerInterrupt ==
  /\ Interruptible
  /\ s_procq' = [s_procq EXCEPT ![CLOCK] = <<>>]
  /\ p_semAdd' = [p \in Pcb |-> IF p \in Entries(s_procq[CLOCK]) THEN NULL ELSE p_semAdd[p]]
  /\ value' = [value EXCEPT ![CLOCK] = 0]
  /\ soft_count' = soft_count - Len(s_procq[CLOCK])
  /\ UNCHANGED <<procVars, status>>
  /\ Handback(HighWith(s_procq[CLOCK]), LowWith(s_procq[CLOCK]))

\* The preempted process is put back in front.
Fault_PLTInFront ==
  /\ Interruptible /\ cpu = "RUN" /\ slice
  /\ UNCHANGED <<procVars, semVars, soft_count, status>>
  /\ Scheduler(high_ready_q, <<current_p>> \o low_ready_q, yielded, FALSE)

\* The preempted process is not put back.
Fault_PLTDrops ==
  /\ Interruptible /\ cpu = "RUN" /\ slice
  /\ UNCHANGED <<procVars, semVars, soft_count, status>>
  /\ Scheduler(high_ready_q, low_ready_q, yielded, FALSE)

\* The next process of the low queue is loaded directly.
Fault_PLTLoadsLow ==
  /\ Interruptible /\ cpu = "RUN" /\ slice
  /\ low_ready_q' = Tail(Append(low_ready_q, current_p))
  /\ current_p' = Head(Append(low_ready_q, current_p))
  /\ UNCHANGED <<cpu, slice, yielded, high_ready_q, procVars, semVars, soft_count, status>>

\* The process goes to the low queue whatever its priority.
PLTTimerInterrupt ==
  /\ Interruptible /\ cpu = "RUN" /\ slice
  /\ UNCHANGED <<procVars, semVars, soft_count, status>>
  /\ Scheduler(high_ready_q, Append(low_ready_q, current_p), yielded, FALSE)

-----------------------------------------------------------------------------
Syscall ==
  \/ \E prio \in Prios, supportp \in Supports : CreateProcess(prio, supportp)
  \/ CreateProcessFails
  \/ TerminateSelf
  \/ \E t \in Pcb : TerminatePid(t)
  \/ \E s \in UserSem : Passeren(s)
  \/ \E s \in UserSem : Verhogen(s)
  \/ \E u \in Unit : DoIO(u)
  \/ WaitForClock
  \/ GetParentId
  \/ Yield
  \/ UnknownSyscall
  \/ ProgramTrap

Interrupt ==
  \/ \E d \in Device : DeviceInterrupt(d)
  \/ IntervalTimerInterrupt
  \/ PLTTimerInterrupt

Next ==
  \/ Boot
  \/ Syscall
  \/ Interrupt
  \/ \E u \in Unit : DeviceCompletes(u)

Spec == Init /\ [][Next]_vars

\* Timers run and devices finish by themselves, and the processor serves their
\* interrupts; a process may compute for ever without calling the kernel.
Fairness ==
  /\ WF_vars(Boot)
  /\ WF_vars(PLTTimerInterrupt)
  /\ WF_vars(IntervalTimerInterrupt)
  /\ \A d \in Device : WF_vars(DeviceInterrupt(d))
  /\ \A u \in Unit : WF_vars(DeviceCompletes(u))

FairSpec == Spec /\ Fairness
=============================================================================
