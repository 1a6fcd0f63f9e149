----------------------------- MODULE KernelProps ----------------------------
(***************************************************************************)
(* What the nucleus must do: properties of the module Kernel.              *)
(***************************************************************************)
EXTENDS Kernel

\* The processor and the ready queues; somebody is running exactly in RUN.
CpuTypeOK ==
  /\ cpu \in {"BOOT", "RUN", "WAIT", "HALT", "PANIC", "TRAPLOOP", "ADRIFT"}
  /\ slice \in BOOLEAN
  /\ current_p \in Pcb \cup {NULL} /\ yielded \in Pcb \cup {NULL}
  /\ (cpu = "RUN") <=> (current_p # NULL)
  /\ high_ready_q \in Seq(Pcb) /\ low_ready_q \in Seq(Pcb)

ProcTypeOK ==
  /\ pcbFree \subseteq Pcb
  /\ p_prio \in [Pcb -> Int]
  /\ p_parent \in [Pcb -> Pcb \cup {NULL}]
  /\ p_supportStruct \in [Pcb -> BOOLEAN]
  /\ all_processes \in [Slot -> Pcb \cup {NULL}]
  /\ proc_count \in Int

SemTypeOK ==
  /\ value \in [Sem -> {0, 1}]
  /\ s_procq \in [Sem -> Seq(Pcb)]
  /\ p_semAdd \in [Pcb -> Sem \cup {NULL}]
  /\ soft_count \in Int
  /\ status \in [Unit -> {"READY", "BUSY", "DONE"}]

\* Every variable keeps to the values the declarations of main.c, pcb.c and
\* asl.c give it.
TypeOK == CpuTypeOK /\ ProcTypeOK /\ SemTypeOK

-----------------------------------------------------------------------------
(* Where a process is.                                                     *)

\* The places that hold p: the processor, the pending yield, the positions of
\* the ready queues and of the semaphores' queues.
PlacesOf(p) ==
  {<<"cpu">> : x \in {current_p} \cap {p}}
    \cup {<<"yielded">> : x \in {yielded} \cap {p}}
    \cup {<<"high", i>> : i \in {j \in DOMAIN high_ready_q : high_ready_q[j] = p}}
    \cup {<<"low", i>> : i \in {j \in DOMAIN low_ready_q : low_ready_q[j] = p}}
    \cup UNION {{<<"sem", s, i>> : i \in {j \in DOMAIN s_procq[s] : s_procq[s][j] = p}}
                  : s \in Sem}

\* No handler forgets a living process: it runs, is ready, or is queued where
\* a V, an interrupt or the scheduler finds it.
NoLostProcess == \A p \in Live : PlacesOf(p) # {}

\* A terminated process is nowhere: the processor does not resume it and no
\* queue holds its control block, which allocPcb may hand out again.
NoFreedPcbInUse == \A p \in pcbFree : PlacesOf(p) = {}

\* Each process is in exactly one place; the queues share the link p_list, so a
\* second place would splice two of them together.
OnePlace == /\ \A p \in Live : Cardinality(PlacesOf(p)) = 1
            /\ NoFreedPcbInUse

\* A process names a semaphore in p_semAdd exactly while it is in its queue;
\* Exterminate and outBlocked trust that field.
SemAddAgrees ==
  \A p \in Live, s \in Sem : p \in Entries(s_procq[s]) <=> p_semAdd[p] = s

-----------------------------------------------------------------------------
(* What the kernel counts and records.                                     *)

\* proc_count and all_processes follow creation and the termination of whole
\* subtrees: the scheduler halts on the one, TERMPROCESS searches the other.
CountsAgree ==
  /\ proc_count = Cardinality(Live)
  /\ \A p \in Pcb : Cardinality({i \in Slot : all_processes[i] = p}) =
                      IF p \in Live THEN 1 ELSE 0

\* soft_count is the number of processes that wait for a device or the clock,
\* kept by five handlers none of which sees the others' processes.
SoftCountExact ==
  soft_count = Cardinality(UNION {Entries(s_procq[s]) : s \in DevSem})

\* The living processes form one tree under the first one: Exterminate leaves
\* no orphan and no dead child behind.
FamilyTree ==
  /\ \A p \in Pcb : p_parent[p] # NULL => p \in Live /\ p_parent[p] \in Live
  /\ Live \subseteq Subtree(Root)

-----------------------------------------------------------------------------
(* When the machine stops or waits.                                        *)

\* PANIC is for deadlock: every living process waits for a V that only another
\* one of them could make.
PanicOnlyOnDeadlock ==
  cpu = "PANIC" => Live = UNION {Entries(s_procq[s]) : s \in UserSem}

\* The machine waits only for something that will happen: a tick with somebody
\* at the pseudo-clock, or the end of an operation somebody asked for.
WaitHasWakeup ==
  cpu = "WAIT" => \/ s_procq[CLOCK] # <<>>
                  \/ \E u \in Unit : s_procq[SemOf(u)] # <<>> /\ status[u] # "READY"

\* Whoever waits for a device waits alone for an operation under way, and the
\* interrupt that ends it will find its semaphore at 0.
IoWaiterServed ==
  \A u \in Unit : s_procq[SemOf(u)] # <<>> =>
    status[u] # "READY" /\ value[SemOf(u)] = 0 /\ Len(s_procq[SemOf(u)]) = 1

-----------------------------------------------------------------------------
(* What a step may do.                                                     *)

\* A low process is dispatched: nobody is in the high queue but who has just
\* yielded, or whose yield was pending.
Dispatch ==
  current_p' # current_p /\ current_p' # NULL /\ p_prio'[current_p'] = 0
    => Entries(high_ready_q') \subseteq {current_p, yielded}

\* A process of priority 1 gets into the low queue: its time slice has ended.
Demotion ==
  \A p \in Entries(low_ready_q') \ Entries(low_ready_q) :
    p_prio'[p] = 1 => p = current_p /\ slice

\* What a ready process of priority 1 gives way to.  Out of the high queue it
\* lets a low one go first only when it has just yielded or its yield is pending.
\* But it may be in the low queue, behind low ones, whatever main.c:12 says of
\* that queue: it gets there when a time slice ends while it runs, such as the
\* one of a low process that has blocked since, and in no other way.
HighGivesWay == [][Dispatch /\ Demotion]_vars

\* TERMPROCESS with the pid of a living process terminates that process.
KillReachesTarget ==
  [][\A t \in Live : TerminatePid(t) => t \in pcbFree']_vars

\* CREATEPROCESS answers the caller, with a pid or with NOPROC; it does not
\* terminate it.
CreateSparesCaller ==
  [][Running("CREATEPROCESS") /\ (CreateProcessFails \/
       \E prio \in Prios, supportp \in Supports : CreateProcess(prio, supportp))
       => current_p \notin pcbFree']_vars

-----------------------------------------------------------------------------
(* Every semaphore, read as an abstract binary semaphore: its queue holds   *)
(* the Ps at 0 and the Vs at 1.                                             *)

Abstract(s) == INSTANCE BinarySemaphore WITH
  Proc  <- Pcb,
  value <- value[s],
  waitP <- IF value[s] = 0 THEN s_procq[s] ELSE <<>>,
  waitV <- IF value[s] = 1 THEN s_procq[s] ELSE <<>>

\* Whatever processes, interrupts and terminations do, the queue of a semaphore
\* is first come first served and its value never changes over a waiter's head.
\* (Abstract(s)!Spec for all s, with the quantifier inside the box for TLC.)
SemaphoresImplemented ==
  /\ \A s \in Sem : Abstract(s)!Init
  /\ [][\A s \in Sem : [Abstract(s)!Next]_(Abstract(s)!vars)]_vars

-----------------------------------------------------------------------------
(* What must eventually happen.                                            *)

\* Round robin: a process in the low ready queue runs, unless it is terminated.
ReadyEventuallyRuns ==
  \A p \in Pcb : p \in Entries(low_ready_q) ~> (current_p = p \/ p \in pcbFree)

\* A process that waits for the pseudo-clock is woken by a tick and runs again.
ClockWaiterRuns ==
  \A p \in Pcb : p \in Entries(s_procq[CLOCK]) ~> (current_p = p \/ p \in pcbFree)

\* A process that started an operation is woken by its interrupt and runs again.
IoWaiterRuns ==
  \A p \in Pcb : (\E u \in Unit : p \in Entries(s_procq[SemOf(u)]))
                   ~> (current_p = p \/ p \in pcbFree)
=============================================================================
