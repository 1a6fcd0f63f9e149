# Verification of WFos_plus

WFos_plus (`src/pandos`) is a small operating system for the uMPS3 emulator of a
MIPS machine: process control blocks and a semaphore list (phase 1), a nucleus
with scheduler, ten system calls, exceptions and interrupts (phase 2), and a
support level with demand paging for eight user processes (phase 3). It runs on
one processor. This directory holds TLA+ modules that model all three levels and
the programs that run on them, the TLC configurations that check them on small
instances, and proofs, checked by TLAPS, that some of their properties hold for
every number of processes, devices and semaphores.

How to run, in this directory:

    tlc -workers 2 -config kernel_kill.cfg MCKernel
    tlc -workers 2 -config support.cfg MCSupport
    tlapm PlacesProofs.tla

## 1. The system

| Part | Files | State | Operations |
|---|---|---|---|
| Lists | `h/listx.h` | the links `next`, `prev` of every `list_head` | `INIT_LIST_HEAD`, `list_add`, `list_add_tail`, `list_del`, the walks |
| Process control blocks | `phase1/pcb.c` | `pcbFree_table`, the free list, process queues, the process tree (`p_parent`, `p_child`, `p_sib`) | `allocPcb`, `freePcb`, `insertProcQ`, `removeProcQ`, `outProcQ`, `insertChild`, `removeChild`, `outChild` |
| Active semaphore list | `phase1/asl.c` | `semdFree_h`, `semd_h`, for each active semaphore `s_procq`; `p_semAdd` of the blocked process | `insertBlocked`, `removeBlocked`, `outBlocked`, `headBlocked` |
| Initialisation | `phase2/main.c` | the globals below | `main` |
| Scheduler | `phase2/scheduler.c` | `high_ready_q`, `low_ready_q`, `yielded`, `current_p`, `proc_count`, `soft_count`, the processor local timer | `scheduler`, `load_new_proc` |
| System calls | `phase2/SYSCALL.c`, `phase2/helpers.c` | the same, `all_processes`, `device_sem[49]` | CREATEPROCESS, TERMPROCESS, PASSEREN, VERHOGEN, DOIO, GETTIME, CLOCKWAIT, GETSUPPORTPTR, GETPROCESSID, YIELD |
| Exceptions | `phase2/exception.c`, `phase2/helpers.c` | support structures | `exceptionHandler`, `PassUpOrDie`, `uTLB_RefillHandler` |
| Interrupts | `phase2/interrupt.c` | the same, device registers | `PLTTimerInterrupt`, `intervalTimerInterrupt`, `deviceInterrupt` |
| CPU time | `SYSCALL.c`, `helpers.c` | `p_time`, `start`, `finish` | charged at the end of some handlers |
| Support level | `phase3/initProc.c`, `phase3/sysSupport.c` | `printer_sem`, `flash_sem`, `term_w_sem`, `term_r_sem`, `mainSemaphore`, `support_table` | GETTOD, TERMINATE, WRITEPRINTER, WRITETERMINAL, READTERMINAL, trap |
| Virtual memory | `phase3/vmSupport.c` | `swap_pool_table`, `swapSemaphore`, page tables, TLB | page fault, page replacement, refill |
| User programs | `testers/*.c` | none the system knows | requests of services |
| Test of phase 2 | `phase2/p2test.c` | a dozen semaphores, the pids of its processes | `test` (p1) to `p10`, `hp_p1`, `hp_p2` |
| Log | `phase3/klog.c` | a ring of 64 lines | `klog_print`, `klog_print_hex` |

How they interact. Everything enters the nucleus as an exception. A handler runs
with interrupts disabled until it resumes the interrupted process (`load_state`),
dispatches another one (`load_new_proc`), waits (`WAIT`), or stops the machine
(`HALT`, `PANIC`). Handlers share all globals. Processes and devices meet only in
semaphores: DOIO does a P on the semaphore of the device and writes its command
register, the interrupt of the device does the V.

Above the nucleus code runs with interrupts enabled and is preempted between any
two system calls. `test_fase3` creates the U-procs and waits for one V of each on
`mainSemaphore`. A U-proc's exceptions are passed up to handlers that run in its
own context, on stacks in its support structure: the pager, which holds
`swapSemaphore` over two device operations, and the services, which end in
`terminate` for a trap. The test of phase 2 is a different first process on the
same nucleus.

What is hard:

* *Order.* Between two handlers of one process any call of another process, any
  completion and any tick can happen. A termination can hit a process that is
  running, ready, blocked, waiting for a device or remembered in `yielded`.
* *Redundant state.* Whether a process waits is recorded in a queue, in
  `p_semAdd` and, for devices and clock, in `soft_count`; whether it lives in the
  free list, `proc_count`, `all_processes` and the tree. Handlers update these
  one after the other and trust them: the scheduler halts, waits or panics on two
  counters.
* *Faults inside the kernel.* `NULL` is `0xFFFFFFFF` (`h/listx.h:5-7`), so a test
  such as `if (p)` is true of it and an access through it is an address error,
  handled by `PassUpOrDie` for the process that made the call.
* *Links.* The lists are intrusive: a block has one `p_list` for the free list,
  the ready queues and the queues of semaphores, and removing it from one leaves
  its old links behind. `Exterminate` takes a list of children apart while it
  walks it.
* *Shared tables above the nucleus.* The swap pool is used across blocking calls,
  and `terminate` changes it without the semaphore.
* *Progress.* The time slice, the clock and the devices are what keeps anybody
  running.

What makes each part correct:

* scheduler and interrupts: no process is lost or in two places, a process in the
  high queue gives way to a low one only when it has yielded and leaves that queue
  for the low one in one way only, PANIC only in deadlock, WAIT only with
  something to wait for, every ready process runs;
* semaphores: first come first served, value and queue agree, `p_semAdd` agrees;
* creation and termination: one tree, exact counts, nothing freed is in use;
* devices: who is woken is who asked, and is woken;
* lists: every list is a ring both ways, no node is in two, and descriptors are
  neither lost nor short;
* pager: one process at a time in the pool, a frame chosen stays chosen, devices
  idle when commanded, frames of a terminated process returned;
* the test of phase 2: what it prints as an error never happens.

## 2. Modules

| Level | Model | Properties | Instances | Proofs |
|---|---|---|---|---|
| lists, phase 1 | `ListX`, `Phase1` | `Phase1Props` | `MCPhase1` | `ListXProofs`, `Phase1Proofs` |
| nucleus | `DevIndex`, `Queue`, `BinarySemaphore`, `Kernel` | `KernelProps` | `MCKernel` | `QueueProofs`, `KernelProofs`, `SemaphoreProofs`, `PlacesProofs` |
| support level, user programs | `Support`, `Testers` | `SupportProps` | `MCSupport` | `SupportProofs` |
| test of phase 2 | `P2Test` | `P2TestProps` | `MCP2Test` | `P2TestProofs` |

    Phase1 (pointers)  --implements the operators of-->  Kernel
    Kernel             --each semaphore implements---->  BinarySemaphore
    Support, P2Test    --extend, and call actions of-->  Kernel

`Support` and `P2Test` extend `Kernel`: each of their system calls *is* the
action of the nucleus, so that their properties are about the levels composed.

**`DevIndex`**: the index of a device in `device_sem[]`, as `Do_IO_Device`
computes it from a register address (`CommandSem`) and as `deviceInterrupt`
computes it from line, device and unit (`InterruptSem`).

**`Queue`**: a list of control blocks as a sequence. `Only(q, S)` is what several
`outProcQ` leave.

**`BinarySemaphore`**: what a semaphore promises, without kernel: P waits at 0, V
waits at 1, the other operation lets the first waiter go and keeps the value.

**`Kernel`**: the nucleus, one action per handler.

| Code | Model |
|---|---|
| `current_p`, `yielded`, `high_ready_q`, `low_ready_q`, `proc_count`, `soft_count`, `all_processes` | variables of the same names |
| `pcbFree` list | the set `pcbFree` |
| `p_prio`, `p_parent`, `p_supportStruct`, `p_semAdd` | functions on `Pcb` |
| `*semaddr`, the queue of its `semd_t` | `value[s]`, `s_procq[s]` |
| processor state | `cpu`; `slice`: the processor local timer holds a time slice |
| device status registers | `status[u]`: READY, BUSY, DONE (interrupt pending) |
| `main` | `Init`, `Boot` |
| `scheduler`, `load_new_proc` | `Scheduler`, `Idle` |
| `Passeren`, `Verhogen`, `insertBlocked`, `removeBlocked` | `SemOp`, `InsertBlocked`, `RemoveBlocked`, `Woken` |
| `Exterminate` and what it calls | `Subtree`, `Exterminate`, `HighWithout`, `LowWithout`, `OutBlocked` |
| system calls | `CreateProcess`, `CreateProcessFails`, `TerminateSelf`, `TerminatePid`, `Passeren`, `Verhogen`, `DoIO`, `WaitForClock`, `GetParentId`, `Yield`, `UnknownSyscall` |
| `PassUpOrDie` | `PassUpOrDie`, `ProgramTrap` |
| interrupts | `PLTTimerInterrupt`, `IntervalTimerInterrupt`, `DeviceInterrupt` |
| the devices themselves (external) | `DeviceCompletes` |

A handler is one action because nothing can interrupt it; the exception is a
fault inside the handler, which ends it, and the action then continues with
`PassUpOrDie` as the code does.

Points where the code is not what one would guess, all of them in the model:

* Passeren at value 1 wakes a process blocked by a V, if there is one, and leaves
  the value; Verhogen at value 1 blocks the caller.
* DOIO and CLOCKWAIT count the caller in `soft_count` and call the scheduler
  whatever Passeren did (`helpers.c:133`, `:149`).
* A process of high priority that yields with no other high one is put in
  `yielded`, and goes back to the high queue at the next dispatch of a low one.
* The timer is set at a dispatch from the low queue and in WAIT only; a dispatch
  from the high queue leaves whatever slice is running.
* `PLTTimerInterrupt` always inserts in the low queue: a process of high priority
  preempted by a slice that was armed for another is ready behind low ones,
  although `main.c:12` calls that queue the low processes'. `Exterminate` will not
  find it there.
* TERMPROCESS by pid resumes the caller, alive or not; with a free slot in front
  of its target it faults and terminates the caller.
* CREATEPROCESS without a free control block faults after setting NOPROC.
* A P or V on a priority other than 0 and 1 makes the process low when woken.
* `deviceInterrupt` takes an interrupt of a terminal for the transmitter's unless
  the transmitter is READY, and the transmitter is not READY while BUSY.
* A V of an interrupt on a semaphore at 1 blocks the interrupted process; in WAIT
  there is none and the kernel faults without end (`TRAPLOOP`).
* With `soft_count < 0` the scheduler falls through (`ADRIFT`).

Abstractions:

* `allocPcb` takes any free control block: the blocks of the list are alike.
* A pid is the control block itself; the first process's is 0, which to
  TERMPROCESS means the caller.
* `semd_t` do not appear in `Kernel`: `Phase1` has them, and it is proved that
  `insertBlocked` never runs out of them (`SemdsSuffice`) and that all the calls
  of phase 1 do what `Kernel` says (`KernelListsImplemented`).
* The model ends when a freed control block is still running or queued
  (`Intact`): from there the free list and a queue share links, and the outcome
  is decided by the pointers. There are two ways there, and the code has both: a
  process terminates its own parent and runs on in a freed block
  (`kernel_deadcaller`), and a termination overlooks a process of its subtree.
  `Phase1` takes that step on the pointers, and ends there too.
* In HALT, PANIC and ADRIFT `current_p` is NULL; the code keeps a value nobody
  reads.
* Passing an exception up to a process's handler is no change of the nucleus.
* GETTIME, GETSUPPORTPTR and GETPROCESSID of oneself only read. Register
  contents, saved states, `p_time`, messages and the log are left out.
* A command to a BUSY unit, and the acknowledgement of a BUSY unit, are ignored
  by the device (hardware, taken from how the code uses it).

Definitions named `Fault_X` are seeded faults. Each stands before the definition
it would replace and nothing refers to it; replaced in, it must make a property
fail (`mutants` in `PROJECT.json`). They guard against properties that hold
whatever the code does.

**`KernelProps`**: the properties. **`MCKernel`**: instances for TLC.

**`ListX`**: the operations of `listx.h` on a memory `m` with the links of all
nodes, `m.next` and `m.prev`, assignment by assignment.

**`Phase1`**: every function of `pcb.c` and `asl.c`, and `Exterminate`, as maps of
that memory. A node is the field of a structure (`PList(p)` is `&p->p_list`);
`First` is `container_of` of the first node. Static storage starts with links 0,
so that an uninitialised list would show. A walk (`ListForEach`) follows the links
as they are, for at most as many steps as there are nodes, so that a broken list
gives a wrong answer instead of none. The loop of `Exterminate` and its recursion
are steps on a stack of the calls that have not returned (`ExterminateStep`): the
innermost takes its first child and calls, or frees its process and returns.

The actions are the calls the nucleus makes, in every order in which somebody is
there to make them: `CreateProcess`, `Dispatch`, `Preempt` (the slice timer, which
always inserts in the low queue, and the yield of a low process), `Yield` (of a
high one), `Block`, `Wake`, `TerminateSelf`, `TerminatePid`. A clock tick is
several `Wake`s of one semaphore. A process of high priority remembered in
`yielded` is in no queue: like the one that runs, it is `Loose`, and `Dispatch`
may find it so. The code chooses a ready queue by two tests that differ, `p_prio != 0` where it creates and
terminates and `p_prio == 1` where it wakes, and so do `ReadyQueue` and `WakeQueue`.

No convention is assumed: a termination is of any living process, as
`Terminate_Process` allows. `Exterminate` frees every process of the subtree, but
takes it only out of the queue of its semaphore and the ready queue of its
priority. Whoever is somewhere else is overlooked (`Overlooked`): a process in the
low queue whose priority is not 0 (`Misplaced`), put there by the slice timer or
by a wakeup with a priority above 1; and one in no queue, the caller of a
TERMPROCESS by pid or the process in `yielded`. The history variable `astray`
collects those; with somebody in it the model ends, like `Kernel` where `Intact`
does, because free list and ready queue then share links and every later call
works on whatever the two lists have become. What is claimed of the lists is
claimed while `astray` is empty, and `OverlookedStaysReady` says what the step
that ends it has done: the process is in the free list and in the low queue at
once, although `helpers.c:45` says that it is taken out "da qualunque coda
possa trovarsi".

**`Phase1Props`** maps the memory to the sets and sequences of `Kernel` and
requires of each step the operators the nucleus model uses for that call
(`AllocPcb`, `InsertChild`, `InsertBlocked`, `RemoveBlocked`, `FreePcb`,
`OutChild`, `OutBlocked`, `Subtree`, `HighWithout`, `LowWithout`).

**`Support`**: phase 3 on the actions of `Kernel`.

| Code | Model |
|---|---|
| where a process is between two calls | `step[p]`, a label and a number |
| `sup_asid` | `asid[p]`; 0 for the first process |
| a U-proc's program | `program[a]`: the services it still asks for |
| `swap_pool_table[i].sw_asid`, the static `i` of the replacement algorithm | `sw_asid[i]`, `victim` |
| the locals of a page fault | `frame[p]`; `owner[p]`: the frame's asid when chosen |
| valid entries of a page table | `inMemory[a]` |
| support structures a transfer ran into | `overrun` |
| the status DOIO returns | `result[u]` |
| `test_fase3`, `initSwapStructs` | `SetSwapSemaphore` to `AwaitUProcs` |
| `TLB_ExcHandler` | `PageFault`, `LockPool`, `ChooseFrame`, `WriteBack`, `Written`, `ReadPage`, `EnterFrame`, `UnlockPool`, `Retry` |
| `generalExcHandler`, `syscallExcHandler`, `trapExcHandler`, `terminate`, the services | `UserCall`, `GetTod`, `DeviceCall`, `TrapExcHandler`, `ReleaseFrames`, `Unblock` |

What is in it that one would not guess:

* The page table entry made valid is the one whose number is the asid, not the
  missing page's. Page 0, where programs start, is never valid, and the access
  faults again, each time in a new frame. `Loads = {{}}` is the code as it is;
  a run adds the case of a U-proc that is in memory already, so that the
  services are reached.
* Half of `swap_pool_table` keeps asid 0 and looks occupied. The flash device
  computed for asid 0 is disk 7, which is not installed and never answers: the
  process waits for it with the pool locked.
* The command registers of the pager get the address of a local variable on
  `sup_stackTLB`. A page is 4096 bytes, a support structure 4564: a read runs
  over what is left of the own structure, not in use then, and 1896 bytes into
  the next (`overrun`): its asid, states, contexts and page table. Whoever returns
  or is passed up through such a structure is lost (`Lost`). The last U-proc's
  read runs into the variables of the nucleus, where the model ends.
* The services pass the value of a semaphore, 1, for its address. The nucleus
  reads through address 1, and the address error comes back as a trap.
* `terminate` does its Vs on semaphores at 1, so that the first one blocks.

**`Testers`**: the user programs as what they ask for. **`SupportProps`**,
**`MCSupport`**: properties and instances.

**`P2Test`**: the processes of `p2test.c`, each a sequence of operations;
`at[p]` is a program and a position in it, `pid` the variables `p2pid` to
`p9pid`. A message is one character. The step of an operation is the action of
`Kernel` (`Call`, `CreateProgram`), a comparison or an assignment (`Compute`,
`Refill`, `Delay`, `Reset`); a comparison that fails goes to the error that ends every
program. The handlers of p5's five traps are part of its sequence. `p1` may be
built with parts of its program (`Tests`), because the whole would not fit.

Two steps of p5 have an outcome the code does not decide. It leaves its delay
after a wait for the clock that took half an interval, whatever p4 does
meanwhile: `Delay` ends after any wait, and `hasty` remembers that p4 or one of
its offspring was still alive, so that `V(sem_blkp4)` is exposed to that schedule
too. And p5a's store is to a page without an entry: `uTLB_RefillHandler` writes
the `pteEntry_t` it has not initialised. `Refill` is every outcome but one: the
store is tried again, is a TLB exception (p5mm), or is a bus error (p5gen). Left
out is the entry that happens to allow a store into some frame of memory.

**`P2TestProps`**, **`MCP2Test`**: properties and instances.

## 3. Runs

The nucleus does not protect itself from its processes. `Rules` names the
conventions a run assumes of them; the weakest set under which the properties
hold is part of the result.

| Rule | Meaning |
|---|---|
| SPARES_ANCESTORS | nobody terminates itself by pid or one of its ancestors |
| SPARES_IO | nobody is terminated while it waits for a device |
| LEAVES_ONLY | only a process without children terminates, and itself |
| EXCLUSIVE_DEVICE | DOIO only on a device with no operation in progress |
| ONE_YIELDER | no high process yields while another one's yield is pending |

Passing runs:

| Run | Bounds | Shows |
|---|---|---|
| `kernel_kill` | 4 control blocks, 1 user semaphore, clock, low priority; SPARES_ANCESTORS | a process is in exactly one place and a freed one nowhere (`OnePlace`); `SemAddAgrees`, `CountsAgree`, `SoftCountExact`, `FamilyTree`; PANIC only when everybody waits for a V (`PanicOnlyOnDeadlock`); `SemaphoresImplemented` |
| `kernel_io` | 3 control blocks, a printer and a terminal (3 units), clock, 1 user semaphore; SPARES_ANCESTORS, SPARES_IO, EXCLUSIVE_DEVICE; fair | `OnePlace`, `SoftCountExact`, `PanicOnlyOnDeadlock`; WAIT only with a wakeup to come (`WaitHasWakeup`); whoever waits for a device waits alone for an operation under way, its semaphore at 0 (`IoWaiterServed`); ready, clock and device waiters run (`ReadyEventuallyRuns`, `ClockWaiterRuns`, `IoWaiterRuns`) |
| `kernel_prio` | 4 control blocks, both priorities, clock, 1 user semaphore; LEAVES_ONLY, ONE_YIELDER | `OnePlace` with yields, slices and ticks that wake several; what a ready process of high priority gives way to, in either queue (`HighGivesWay`) |
| `kernel_any` | 3 control blocks, a terminal, both priorities, no rule | `TypeOK`, `CountsAgree`, `FamilyTree`, `SemaphoresImplemented` hold even without conventions |
| `lists` | 3 control blocks and descriptors, a mutex and the clock, priorities 0 and 2 | lists are rings and share no node (`ListsIntact`); descriptors (`SemdsAccounted`, `SemdsSuffice`); `ChildListsAgree`; every call implements `Kernel`'s operators (`KernelListsImplemented`); all these up to a termination that overlooks somebody, after which a process is free and ready at once (`OverlookedStaysReady`) |
| `support` | 3 U-procs and the first process, 6 frames, 3 flash devices and the disk; transfers succeed or fail | `SupportTypeOK`; the pool: `PoolExclusive`, `PoolWaiterHasHolder`, `ChosenFrameStable`, `FramesReturned`, `FlashIdle` |
| `p2test` | 6 control blocks, terminal 0, clock; five parts of p1's program | `NoErrorReported`, `TerminalExclusive`, `NoneDiesPrinting`; the machine panics in one case only, p5's V on `sem_blkp4` before p4 and its offspring are dead (`NeverStuck`) |

Why the bounds are enough. Four control blocks give a tree with a grandchild and
a sibling, a queue of three behind the running process, a full table (the NOPROC
path) and a table with holes. Three are enough where the tree does not matter:
one runs, one waits for a device and one for the clock or the same device. One
user semaphore suffices because operations touch one semaphore and a process
waits on one; a device's and the clock's are there besides. A printer and a
terminal cover a line with one semaphore per device and the line with two, and
two interrupts pending at once. `kernel_any` bounds `soft_count` to -2..2 by a
constraint, since DOIO on a shared device can count a caller it did not block
without limit; everything else is finite by itself. Control blocks other than
the first are symmetric in the runs without liveness.

`lists`: three control blocks make a parent with two children and a chain of
three, queues and child lists with a first, a middle and a last node, a free list
with no block left, and two active descriptors, of which the first or the last
goes. A process of priority 2 is sought in the high queue, as one of priority 1
is, and gets into the low one both by the slice timer and by a wakeup, where one
of priority 1 gets by the timer only. For any number of blocks and any length of lists it is proved.

`support`: one U-proc has the pool, one waits for it and a third faults or
terminates meanwhile; two would not show a hand-over to the wrong one. With six
frames of which three are free both branches of the replacement are taken, the
one for entries of asid 0 included. Control blocks but the first are symmetric,
asids are not. The run has no rules: `FlashIdle` shows that the pager keeps EXCLUSIVE_DEVICE by
itself, which `kernel_io` assumes.

`p2test`: the parts are the meetings of p1 with p2 and p3 (`pairs`); p3, p4, its
offspring and p5 (`offspring`); p6 and p7 (`traps`); two incarnations of p8's
tree (`tree`), so that p1 resets semaphores the first tree is still using; p9,
p10 and the processes of high priority (`high`). p1 waits between the parts for
what the next ones need: for p2 to p5 and p8's tree by their semaphores, up to the
last steps of a process that has done its last V. It does not wait for p6 and p7,
which end in a trap, for p9 and p10, or for the processes of high priority, which
in the machine run beside p4, p5 and p8's tree. As parts of their own (`traps`,
`high`) they are checked against p1 and each other only. There are two leaves instead of four, one for each child (with fewer a
child is not kept alive by what p8root waits for), one semaphore in `s` instead
of 21, two yields for a hundred, one clock wait for ten: the rounds are alike. Six
control blocks hold p1 and a whole tree; a creation that finds none waits, which
the 20 of the code never make it do. `NeverStuck` allows the
one panic the run reaches: p5 is through with its delay while p4 or its offspring
lives, one of these takes the V on `sem_blkp4`, and p1 waits in vain; the comment at
`p2test.c:592` says "reasonably sure", so that it is no finding. `NoErrorReported`
and `NeverStuck` are not claimed for `high`: there p10 runs on after its parent's termination
(`kernel_deadcaller`), and hp_p1's yields make the nucleus panic
(`kernel_yieldpanic`). `TerminalExclusive` and `NoneDiesPrinting` show that the
test keeps EXCLUSIVE_DEVICE and SPARES_IO by itself.

Deadlock is not checked in any run: HALT and PANIC stop the machine, and so does
the end of the model at a freed control block in use; in `lists` all processes
may block.

Fairness. `FairSpec`, of `kernel_io`: boot, the slice timer, the interval
timer, the completion of a started operation and the service of its interrupt
are weakly fair: they are hardware, and interrupts are enabled whenever a process
runs or the machine waits. System calls are not fair: a process may compute for
ever. That the interval timer's interrupt keeps coming is what `LDIT(PSECOND)` in
its handler provides. No liveness is claimed for a high-priority process that
waits behind another: nothing preempts one. `FairSupportSpec`, of
`support_terminate`, adds that handlers of the support level and U-procs in
memory get on when they run: their code has no loops that wait.

Runs that must fail, each for one statement of the sources (`findings` in
`PROJECT.json`):

| Run | Property | What happens |
|---|---|---|
| `kernel_deadcaller` | `NoFreedPcbInUse` | a process terminates its parent and runs on in a freed control block; `p2test.c:753` calls this an error |
| `kernel_killmiss` | `KillReachesTarget` | with a hole in `all_processes` TERMPROCESS kills the caller, not the process of that pid (`SYSCALL.h:33`) |
| `kernel_stalev` | `NoLostProcess` | the owner of an operation is terminated, its interrupt leaves a 1, the next DOIO passes the P and its caller is in no queue (`helpers.c:134`) |
| `kernel_yieldpanic` | `PanicOnlyOnDeadlock` | a high process yields alone and the machine panics as if in deadlock (`scheduler.c:43`) |
| `support_terminate` | `TerminateTerminates` | a U-proc with a device error or a trap is to be terminated: `terminate` does a V on a semaphore at 1 and blocks for ever, and with it the first process (`sysSupport.h:51`); 2 U-procs |

The first three show why `kernel_kill` and `kernel_io` assume SPARES_ANCESTORS
and SPARES_IO. `kernel_kill` keeps the second one's behaviour: it allows the
wrong process to die and shows that the records survive it.

## 4. Proofs

| Theorem | Module | Says |
|---|---|---|
| `SemNumbersAgree`, `SemNumbersDistinct` | `KernelProofs` | both computations of a semaphore's index agree; no two units share one, and none has the clock's |
| `OnlyType`, `OnlyEntries` | `QueueProofs` | `Only` returns a list of the same kind with exactly the entries asked for, none of them doubled |
| `ListInitCorrect`, `ListAddCorrect`, `ListDelCorrect`, `ListMoveCorrect` | `ListXProofs` | the operations of `listx.h` keep closed rings, and add and remove exactly their node |
| `ListsStayIntact`, `SemdsStayAccounted`, `ChildListsStayRight`, `SemdsAlwaysSuffice` | `Phase1Proofs` | `Spec => []I` of `Phase1` for `ListsIntact`, `SemdsAccounted`, `ChildListsAgree`, `SemdsSuffice`: all the invariants of the run `lists`, each up to a termination that overlooks somebody (`astray = {}`) |
| `ListsImplementKernel` | `Phase1Proofs` | `Spec => KernelListsImplemented`, the refinement: every step but a termination that overlooks somebody |
| `TypeCorrect` | `KernelProofs` | `Spec => []TypeOK` |
| `TreeCorrect` | `KernelProofs` | `Spec => []FamilyTree` |
| `CountsCorrect` | `KernelProofs` | `Spec => []CountsAgree` |
| `SemaphoresCorrect` | `SemaphoreProofs` | `Spec => SemaphoresImplemented`, the refinement |
| `HighGivesWayCorrect` | `PlacesProofs` | `Spec => HighGivesWay`, for any set of priorities |
| `OnePlaceCorrect`, `SemAddCorrect`, `SoftCountCorrect`, `IoWaiterCorrect`, `WakeupCorrect` | `PlacesProofs` | `Disciplined /\ Spec => []I` for `OnePlace`, `SemAddAgrees`, `SoftCountExact`, `IoWaiterServed`, `WaitHasWakeup` |
| `PanicCorrect` | `PlacesProofs` | the same for `PanicOnlyOnDeadlock`, low priority only |
| `ControlKept` | `PlacesProofs` | the same for: no freed control block is in use, and `cpu` is never `TRAPLOOP` or `ADRIFT` |
| `SupportTypeCorrect`, `PoolExclusiveCorrect`, `PoolWaiterCorrect`, `ChosenFrameCorrect`, `FramesReturnedCorrect`, `FlashIdleCorrect` | `SupportProofs` | `SupportSpec => []I` for the six invariants of the run `support` |
| `NobodyTerminates` | `SupportProofs` | in the support level no step gives a control block back |
| `TerminalStaysExclusive` | `P2TestProofs` | `TestSpec => []TerminalExclusive` |

They hold for every value of the constants that satisfies the assumptions in
`Kernel`: finitely many control blocks, the first process among them; `NULL` is
no block and no semaphore; user semaphores are not numbers (device semaphores
are); devices are on lines 3 to 7, numbered 0 to 7; `Rules` is any set. Those of
`SupportProofs` assume besides what `Support` does of the globals of phase 3:
`UProcAssumption` (less than 8 U-procs and more control blocks than those; each
has a flash device; every semaphore is one of the nucleus') and
`CellsAssumption` (the semaphores are different variables, as C declares them).
`P2TestProofs` assumes what `P2Test` does: at most four leaves, as many as the
code has programs for, and sequences of semaphores and parts of p1 of any kind
(`TestAssumption`); that the terminal's semaphore is none of the others, terminal
0 exists, and so do both priorities (`SemsAssumption`).
Those about `listx.h` are lemmas about its operators, for any set of nodes and
any memory. Those of `Phase1` assume a positive number of blocks
(`TableAssumption`), that `NULL` and address 0 are neither a block nor a
semaphore (`KeyAssumption`), and that the clock's semaphore is one of those in use
(`ClockAssumption`).

All but those with `Disciplined` rely on no convention of the processes. Those
about `Kernel` speak of all steps up to the one after which a freed control block
runs or is queued (`Intact`), that step included; those about `Phase1`, up to the
termination that overlooks a process of its subtree, that step excluded: there
the lists do break.
`Disciplined` says which calls are made under which rules:

| Hypothesis | Without it |
|---|---|
| nobody makes a call with an unknown negative number | the scheduler runs and the caller, alive, is in no queue (`UnknownSyscall`) |
| TERMPROCESS by pid spares the caller and its ancestors | `kernel_deadcaller` |
| if DOIO is used, devices have one user at a time and nobody is terminated while waiting for one | `kernel_stalev` |
| all processes are low, or yields do not overlap and only leaves terminate | `Exterminate` leaves `yielded` alone and looks for a process in the ready queue of its own priority only, while a preempted high process is in the low one; a second yield overwrites the first |

`kernel_kill`, `kernel_io` and `kernel_prio` are instances of it, so that the
hypotheses are those of states the runs visit. `PanicCorrect` needs low priority
besides: `kernel_yieldpanic` shows why. `KillReachesTarget` is no consequence:
`kernel_killmiss` is disciplined, the wrong process dies, and the invariant
holds on.

The arguments.

*Types.* `TypeOK` is inductive as it stands. Its parts follow three layers:
what the scheduler makes of two sequences of control blocks (`SchedulerType`),
what P and V make of a semaphore (`SemOpType`), what a termination makes of the
rest (`ExterminateType`). That an interrupt's V is on an existing semaphore is
`SemNumbersAgree`. It contains that exactly in RUN somebody is running, which is
what lets every handler of a call use `current_p`.

*Lists.* `Only` is a recursive function. That its definition has a solution, and
the type of its stages, go by induction in the form "the least counterexample",
a set of naturals (`LeastNat`), because the library's induction principles take
an operator. What entries remain goes the same way (`OnlyEntries`); appending,
taking the head and removing are then equations about sets of entries and
`NoRepeats`, which is all later proofs use of queues.

*Rings.* A set of nodes forms rings when from each node both links stay in the
set and one leads back what the other leads forth (`Rings`): that says of all
lists at once that they are circular both ways, without a walk, and needs no
induction. `AddLinks` and `DelLinks` give the links after the assignments, which
go wrong where nodes coincide: adding to an empty list, where `prv` and `nxt` are
the head, and deleting the last entry. From them each operation keeps `Rings` for
the set with or without its node.

*Chains.* What a list contains, in order, needs the walk. `Chain` says of a head
and a sequence of nodes that the links lead from the head through the sequence
and back, both ways. `WalkMeets` is the one place where the recursive function of
the walk is opened: on a chain without repetitions it returns the sequence
(`ChainRead`). From there `PutIn` and `TakeOut` say what `list_add`,
`list_add_tail` and `list_del` do to the chains of a set of heads, if the node is
new to all of them, or in one of them: that chain gains or loses the node, all
others are kept. After that no proof mentions a link.

*Phase 1.* The inductive invariant is `IInv`. Its parts: `Intact`, each list in
use is a chain of its kind of node, and no two share one; `TreeInv`, the lists of
children and `p_parent` agree, parents live, and free blocks are in no tree;
`SemdInv`, which is `SemdsAccounted`; `QueueInv`, a process in the high queue has
a priority other than 0, so that whoever `Exterminate` misses is `Misplaced` or in
no queue. It is inductive while `astray` is empty: a termination that overlooks
nobody finds each process of the subtree where it looks
(`TerminationTakesAll`), and from one that does no step follows. And there is an order: some function ranks each process above
its parent, so that no process is its own ancestor. Each operation has a lemma
that it keeps the parts and what else it does (`AllocKeeps`, `OutBlockedKeeps`,
...). That descriptors suffice is not inductive: it follows by counting
(`SpareSemd`), as each active descriptor has a waiter of its own, no two share
one, and the process about to block waits nowhere.

*Exterminate.* `Unwinding` is the invariant of its stages. The whole of `IInv`
holds at each of them, since a child is taken out of its parent's list and loses
its `p_parent` before the call for it. The open calls are for living processes,
ordered by rank, all of them of the subtree; those called for have left their
parents; those freed are in no queue. The number of stages is twice the number of
processes freed, plus the open calls, minus one (`Counted`), so that with `2 *
MaxProc` stages no call is open (`AllReturned`): a process is called for once and
freed once. Then nobody of the subtree is left, as its processes are the smallest
set that has `p` and, with a process, its children (`ExterminateKeeps`); and the
queues are the old ones without it, in their order, which is `Only` of `Kernel`.

*Lists implement Kernel.* For each action one lemma (`CreateImplemented` and so
on) turns what the operations did to chains into the operators of `Kernel` on the
mapped sets and sequences (`KernelTerms` opens the mapping once). `allocPcb` takes
the first of the free list, `Kernel` any free block: the witness is the first.
`DescriptorOf` is the first that matches, the mapping takes any: `SemdInv` makes
it the same.

*Records.* `CountsAgree` is not inductive: to know that `Exterminate` frees
living processes only, so that subtracting their number is right, one needs that
a child of a living process lives; to know that TERMPROCESS finds a living one,
that the table lists no others; to know that CREATEPROCESS finds a slot, that
the table has no duplicates and the free list is not empty (pigeonhole).
`Records` is the conjunction of these. `RecordSteps` shows that for the records
every action is nothing, a creation, or the termination of the subtree of a
living process, which leaves two cases to prove.

*Semaphores.* For a semaphore every action is nothing, one P or V, the removal
of some waiters, or a tick (`SemSteps`). The mapping reads the queue as that of
waiting Ps at 0 and of waiting Vs at 1. A tick sets the clock's value to 0, which
is a step of the abstract semaphore only if it was 0 before; `ClockAtZero` is
the invariant for that, and needs that no device has the clock's number.

*Places.* None of the invariants of `kernel_kill` and `kernel_io` is inductive,
and they need each other. A termination finds the processes it removes through
`p_semAdd` and `p_prio`, so that `OnePlace` needs `SemAddAgrees`; it subtracts
from `soft_count` by what `p_semAdd` says; the scheduler halts, waits or falls
through on `soft_count`; an interrupt takes the value and the queue of its unit's
semaphore for the process that asked. `Accounted` is their conjunction, in terms
of sets: each semaphore's queue has exactly the living processes whose `p_semAdd`
names it (`QueuesAgree`); the processor, `yielded` and the ready queues have
exactly the others (`ReadyAgree`, through `Hold`); a unit is at work or done
exactly while one process waits for it, and its semaphore is 0 (`UnitsAgree`);
`soft_count` is the number of those waiting for a device or the clock
(`CountIsSoft`); with it the processor stands still for a reason
(`StandsStill`). `Hold` has the contents of the queues as parameters: one lemma
says what the scheduler makes of any two queues, and each handler only
shows that the queues it leaves hold the right set. `OnePlace` counts positions,
`Accounted` does not: `PlacesCounted` leads from the one to the other. TLC
checked `Accounted` on the three runs before it was proved.

*Dispatch.* `HighGivesWay` is about steps and has two parts. That a low process is
dispatched over nobody but yielders (`Dispatch`) needs that the high queue and
`yielded` hold high processes only (`HighIsHigh`): a block gets its priority when
it is allocated, and no handler puts a low one there. That a process of priority 1
enters the low queue only at the end of a time slice (`Demotion`) is shown along
the handlers. The scheduler only takes from that queue (`SchedulerLow`), a wakeup
puts nobody of priority 1 there (`WakeLow`), a termination only removes
(`DieLow`); a call that blocks, creates or yields adds low ones at most. This
takes no convention, since a freed block in a queue ends the model before it is
allocated again.

*Pool.* `SupportInv` is `Accounted` and what the support level adds: the labels
at which the first process and the U-procs can be (`RootPhase`, `UProcPhase`), `swapSemaphore`
as a lock (`SwapLock`), the table and the locals of those in the pool
(`FramesAgree`), and that whoever queues at a flash device is in the pool
(`FlashQueues`). Two of the conventions become conclusions. That a device has one
user follows from the lock; that nobody is terminated, from the first V of
`terminate`, which is on a semaphore at 1 and blocks (`NobodyTerminates`). So
`ChosenFrameStable` and `FramesReturned` also rest on that fault of `terminate`:
mended, it would free frames and control blocks while others are in the pool, and
the runs would have to be looked at again before the proof. The part about the
nucleus ends when a transfer runs into its variables (`ADRIFT`).

*Terminal.* `TestInv` rests on no convention, as the test keeps few: p10 runs on
after its own termination, and hp_p1 and p1's resets do as they please. What is
left of `Accounted` without them is `Apart`: whoever runs, is ready or waits is
in one place only, and `Records`. A termination may look in the wrong queue or
overlook the pending yield, but it only ever takes processes away. About the
programs two facts are enough: an operation on the terminal comes right after a P
on its semaphore, and a V on that semaphore right after an operation (`InStep`).
Sequences with that property are closed under concatenation, and `FlattenSeq`
preserves what concatenation does (`FlattenCloses`), so that nobody has to count
positions (`ProgFacts`). `Printing` is the invariant proper. While the semaphore
is 1, nobody prints, its queue is empty and the terminal idle (`TerminalFree`); a
process woken from the queue has not written yet (`WaitersFirst`); and while the
terminal is at work, the process that started it waits for it and is in no other
place (`BusyWaited`), which is what makes a V find it idle. Of the steps, three
are about the terminal (`TakeTerminal`, `UseTerminal`, `GiveTerminal`) and one
ends its work (`DeviceStep`). All others leave its semaphore alone, but for dead
waiters (`Calm`), and move a process at most between places that are not the
terminal's (`Aside`); `PrintingKept` says once that this is enough. When the
process that has the terminal dies, nobody gets it any more, and the invariant
holds: that this does not happen is `NoneDiesPrinting`.

Only model-checked: all liveness (`ReadyEventuallyRuns`, `ClockWaiterRuns`,
`IoWaiterRuns`), which is out of the prover's reach together with ENABLED; and
of the properties of `P2Test` `NoErrorReported`, `NeverStuck` and
`NoneDiesPrinting`, which depend on which process of the test waits for which, in
all its programs at once. Induction over data that needs the library's operator-valued
principles is out of reach too; recursive functions (the walks, `Only`,
`Exterminate`) are reasoned about by a least counterexample instead.

## 5. Not modelled, and what is left

Not modelled:

* CPU time (`p_time`, `start`, `finish`): written at the end of some handlers and
  read by GETTIME only. A process preempted by the slice timer, or one that
  yields, is not charged for the time it ran; no state depends on it.
* The log (`klog.c`): nothing in the system reads it. Its indices are changed
  with interrupts enabled (`klog.c:54-56`), so that two processes that print can
  write behind a line; it prints hexadecimal digits in reverse order.
* `p1test.c`: one fixed sequence of calls of phase 1, where `Phase1` makes them in
  every order.
* In the support level the TLB, the contents of pages and pages other than 0, on
  which the control flow does not depend; in the test of phase 2 GETTIME and the
  time of day.
* The headers and libraries of uMPS3 beyond the register addresses and lines;
  saving and copying of processor states.

A process of high priority that is preempted by a slice armed for another
process ends in the low queue, although `main.c:12` calls it the queue of
processes of low priority. `Kernel` does what the code does
(`PLTTimerInterrupt`); `HighGivesWay` says that it is the only way there, and
`OverlookedStaysReady` what its termination does. No run that must fail is spent
on the comment.

Left to prove: `NoneDiesPrinting`, by an invariant that says what each process of
a tree has still to do when the one that ends the tree goes on.
