------------------------------- MODULE Support ------------------------------
(***************************************************************************)
(* The support level of pandos/phase3 on the nucleus: the test that starts *)
(* the U-procs (initProc.c), the pager (vmSupport.c) and the handlers of   *)
(* their system calls and traps (sysSupport.c).                            *)
(*                                                                         *)
(* What a process does between two system calls is a step of its own: the  *)
(* support level runs with interrupts enabled.  A system call is the       *)
(* action of the module Kernel, with everything the nucleus does for it.   *)
(*                                                                         *)
(* The handler of a page fault gives the flash device, which transfers     *)
(* 4096 bytes, the address of a local variable on sup_stackTLB.  A read    *)
(* runs over the rest of the U-proc's own support structure, which is not  *)
(* in use then, and 1896 bytes into the next one: its asid, its saved      *)
(* states, its contexts and its page table, but not the used part of its   *)
(* stack.  Behind the last one lie the variables of the nucleus.           *)
(***************************************************************************)
EXTENDS Kernel, SequencesExt

CONSTANTS
  UPROCMAX,                                           \* number of U-procs
  printer_sem, flash_sem, term_w_sem, term_r_sem,     \* arrays of UPROCMAX
  mainSemaphore, swapSemaphore,
  Programs,   \* programs U-procs may run: sequences of what they ask for
  Loads       \* which U-procs may be in memory when they start; {{}}, as the code is

POOLSIZE == 2 * UPROCMAX
Frame    == 0..(POOLSIZE - 1)
Asid     == 1..UPROCMAX
NOPROC   == -1

\* The flash device a U-proc is loaded from.  The address computed for asid 0 is
\* that of disk 7, which is not installed: it never answers.
FLASHINT == 4
NoDisk   == <<3, 7, "dtp">>
FlashOf(a) == IF a = 0 THEN NoDisk ELSE <<FLASHINT, a - 1, "dtp">>

\* The semaphores as the compiler lays them out: what lies behind the end of an
\* array is the beginning of the next.
Cells == printer_sem \o flash_sem \o term_w_sem \o term_r_sem \o <<mainSemaphore>>

\* array[index], of the array that begins at offset * UPROCMAX.
Cell(offset, index) == Cells[offset * UPROCMAX + index + 1]

SupportCalls == {"GETTOD", "TERMINATE", "WRITEPRINTER", "WRITETERMINAL", "READTERMINAL",
                 "BADARGS", "TRAP"}

ASSUME UProcAssumption ==
  /\ UPROCMAX \in Nat \ {0} /\ UPROCMAX < 8 /\ MAXPROC > UPROCMAX
  /\ \A a \in {printer_sem, flash_sem, term_w_sem, term_r_sem} : a \in [Asid -> UserSem]
  /\ mainSemaphore \in UserSem /\ swapSemaphore \in UserSem
  /\ Device = {<<FLASHINT, a - 1>> : a \in Asid} \cup {<<3, 7>>}
  /\ Programs \subseteq Seq(SupportCalls) /\ Loads \subseteq SUBSET Asid

\* They are different variables.
ASSUME CellsAssumption ==
  /\ \A i, j \in DOMAIN Cells : Cells[i] = Cells[j] => i = j
  /\ \A i \in DOMAIN Cells : Cells[i] # swapSemaphore

VARIABLES
  step,       \* where a process is: a label and a number
  asid,       \* of each process; 0 for one that is no U-proc
  program,    \* what each U-proc still has to ask for
  sw_asid,    \* swap_pool_table
  victim,     \* the static variable of pandosPageReplacementAlgorithm
  frame,      \* of a page fault: the frame chosen,
  owner,      \* and its sw_asid before
  inMemory,   \* the pages each U-proc's page table has as valid
  overrun,    \* U-procs whose support structures were overwritten
  result      \* READY or an error: how the last operation of a unit ended

table    == <<sw_asid, victim, frame, owner>>
supVars  == <<step, asid, program, table, inMemory, overrun, result>>
restVars == <<procVars, semVars, soft_count, status>>

Goto(label, n) == step' = [step EXCEPT ![current_p] = <<label, n>>]

\* The process that runs is at a label, and no interrupt is pending.
At(label) ==
  /\ cpu = "RUN" /\ Intact /\ \A u \in Unit : status[u] # "DONE"
  /\ step[current_p][1] = label

OnlySupport == UNCHANGED vars

\* Control is lost for good: the model stops.
Lost ==
  /\ cpu' = "ADRIFT"
  /\ UNCHANGED <<slice, current_p, yielded, queues, restVars>>

me == asid[current_p]

\* sup_asid as the code reads it.
sup_asid == IF me \in overrun THEN 0 ELSE me

\* The nucleus passes an exception up (PassUpOrDie), or a handler returns with
\* LDST: the context and the state come from the support structure.
PassUp(label) ==
  IF me \in overrun THEN Lost /\ UNCHANGED step ELSE OnlySupport /\ Goto(label, 0)

-----------------------------------------------------------------------------
(* initProc.c and initSwapStructs: the first process.                      *)

SupportInit ==
  /\ Init /\ \A s \in Sem : value[s] = 0
  /\ step = [p \in Pcb |-> IF p = Root THEN <<"start", 0>> ELSE <<"none", 0>>]
  /\ asid = [p \in Pcb |-> 0]
  /\ \E loaded \in Loads, choice \in [Asid -> Programs \cup {<<>>}] :
       /\ \A a \in Asid : choice[a] # <<>> <=> a \in loaded
       /\ program = choice
       /\ inMemory = [a \in Asid |-> IF a \in loaded THEN {0} ELSE {}]
  /\ sw_asid = [i \in Frame |-> 0] /\ victim = -1
  /\ frame = [p \in Pcb |-> 0] /\ owner = [p \in Pcb |-> 0]
  /\ overrun = {} /\ result = [u \in Unit |-> "READY"]

\* The first process makes a semaphore available without having taken it.
SetSwapSemaphore ==
  /\ At("start")
  /\ value' = [value EXCEPT ![swapSemaphore] = 1]
  /\ Goto("lockTable", 0)
  /\ UNCHANGED <<cpuVars, queues, procVars, s_procq, p_semAdd, soft_count, status,
                 asid, program, table, inMemory, overrun, result>>

LockTable ==
  /\ At("lockTable")
  /\ Passeren(swapSemaphore) /\ Goto("markFree", 0)
  /\ UNCHANGED <<asid, program, table, inMemory, overrun, result>>

\* Half of the table: the other half keeps asid 0 and looks occupied.
MarkFree ==
  /\ At("markFree")
  /\ sw_asid' = [i \in Frame |-> IF i < UPROCMAX THEN NOPROC ELSE sw_asid[i]]
  /\ OnlySupport /\ Goto("unlockTable", 0)
  /\ UNCHANGED <<asid, program, victim, frame, owner, inMemory, overrun, result>>

UnlockTable ==
  /\ At("unlockTable")
  /\ Verhogen(swapSemaphore) /\ Goto("setSems", 0)
  /\ UNCHANGED <<asid, program, table, inMemory, overrun, result>>

SetSemaphores ==
  /\ At("setSems")
  /\ value' = [s \in Sem |-> IF s = mainSemaphore THEN 0
                             ELSE IF s \in Range(Cells) THEN 1 ELSE value[s]]
  /\ Goto("create", 1)
  /\ UNCHANGED <<cpuVars, queues, procVars, s_procq, p_semAdd, soft_count, status,
                 asid, program, table, inMemory, overrun, result>>

\* The asid is the index of the support structure.
Fault_CreateUProc ==
  /\ At("create")
  /\ CreateProcess(0, TRUE)
  /\ LET a == step[current_p][2]
         new == pcbFree \ pcbFree'
     IN  /\ asid' = [p \in Pcb |-> IF p \in new THEN a - 1 ELSE asid[p]]
         /\ step' = [p \in Pcb |->
              IF p \in new THEN <<"user", 0>>
              ELSE IF p = current_p THEN (IF a = UPROCMAX THEN <<"wait", 1>> ELSE <<"create", a + 1>>)
              ELSE step[p]]
  /\ UNCHANGED <<program, table, inMemory, overrun, result>>

CreateUProc ==
  /\ At("create")
  /\ CreateProcess(0, TRUE)
  /\ LET a == step[current_p][2]
         new == pcbFree \ pcbFree'
     IN  /\ asid' = [p \in Pcb |-> IF p \in new THEN a ELSE asid[p]]
         /\ step' = [p \in Pcb |->
              IF p \in new THEN <<"user", 0>>
              ELSE IF p = current_p THEN (IF a = UPROCMAX THEN <<"wait", 1>> ELSE <<"create", a + 1>>)
              ELSE step[p]]
  /\ UNCHANGED <<program, table, inMemory, overrun, result>>

\* One P on mainSemaphore for each U-proc, and then the end.
AwaitUProcs ==
  /\ At("wait")
  /\ IF step[current_p][2] <= UPROCMAX THEN Passeren(mainSemaphore) ELSE TerminateSelf
  /\ Goto("wait", step[current_p][2] + 1)
  /\ UNCHANGED <<asid, program, table, inMemory, overrun, result>>

-----------------------------------------------------------------------------
(* vmSupport.c.                                                            *)

\* The instructions of a program are in page 0.  uTLB_RefillHandler enters its
\* invalid page table entry in the TLB, and the access faults.  No page is ever
\* valid and clean, so the exception is never a TLB modification.
PageFault ==
  /\ At("user") /\ me # 0 /\ 0 \notin inMemory[me]
  /\ PassUp("fault")
  /\ UNCHANGED <<asid, program, table, inMemory, overrun, result>>

\* The handler goes on without its P.
Fault_LockPool ==
  /\ At("fault")
  /\ OnlySupport /\ Goto("choose", 0)
  /\ UNCHANGED <<asid, program, table, inMemory, overrun, result>>

LockPool ==
  /\ At("fault")
  /\ Passeren(swapSemaphore) /\ Goto("choose", 0)
  /\ UNCHANGED <<asid, program, table, inMemory, overrun, result>>

\* pandosPageReplacementAlgorithm: the first free frame, or the next in turn.
Free == {i \in Frame : sw_asid[i] = NOPROC}
Replaced ==
  IF Free # {} THEN CHOOSE i \in Free : \A j \in Free : i <= j
  ELSE (victim + 1) % POOLSIZE

\* For an occupied frame i the code unmaps the page number i of the process
\* that faults, not the page of the frame's owner.
ChooseFrame ==
  /\ At("choose")
  /\ frame' = [frame EXCEPT ![current_p] = Replaced]
  /\ owner' = [owner EXCEPT ![current_p] = sw_asid[Replaced]]
  /\ victim' = IF Free # {} THEN victim ELSE Replaced
  /\ inMemory' = [inMemory EXCEPT ![me] = IF Free # {} THEN @ ELSE @ \ {Replaced}]
  /\ OnlySupport /\ Goto(IF Free # {} THEN "read" ELSE "write", 0)
  /\ UNCHANGED <<asid, program, sw_asid, overrun, result>>

\* DOIO on the flash device of the frame's owner, and on the process's own.
WriteBack ==
  /\ At("write")
  /\ DoIO(FlashOf(owner[current_p])) /\ Goto("written", 0)
  /\ UNCHANGED <<asid, program, table, inMemory, overrun, result>>

ReadPage ==
  /\ At("read")
  /\ DoIO(FlashOf(sup_asid)) /\ Goto("loaded", 0)
  /\ UNCHANGED <<asid, program, table, inMemory, overrun, result>>

\* An error is a trap, which the handler raises as it is, with the pool locked.
Written ==
  /\ At("written")
  /\ IF result[FlashOf(owner[current_p])] = "READY"
     THEN OnlySupport /\ Goto("read", 0) ELSE PassUp("TERMINATE")
  /\ UNCHANGED <<asid, program, table, inMemory, overrun, result>>

EnterFrame ==
  /\ At("loaded")
  /\ \/ /\ result[FlashOf(sup_asid)] # "READY"
        /\ PassUp("TERMINATE") /\ UNCHANGED sw_asid
     \/ /\ result[FlashOf(sup_asid)] = "READY"
        /\ OnlySupport /\ Goto("map", 0)
        /\ sw_asid' = [sw_asid EXCEPT ![frame[current_p]] = sup_asid]
  /\ UNCHANGED <<asid, program, victim, frame, owner, inMemory, overrun, result>>

\* The pool stays locked.
Fault_UnlockPool ==
  /\ At("map")
  /\ OnlySupport /\ Goto("return", 0)
  /\ UNCHANGED <<asid, program, table, inMemory, overrun, result>>

\* With interrupts disabled.  The entry made valid is the one whose number is
\* the asid, whatever page was missing.
UnlockPool ==
  /\ At("map")
  /\ inMemory' = [inMemory EXCEPT ![me] = @ \cup {sup_asid}]
  /\ Verhogen(swapSemaphore) /\ Goto("return", 0)
  /\ UNCHANGED <<asid, program, table, overrun, result>>

\* LDST of the state saved at the fault.
Retry ==
  /\ At("return")
  /\ PassUp("user")
  /\ UNCHANGED <<asid, program, table, inMemory, overrun, result>>

-----------------------------------------------------------------------------
(* sysSupport.c.                                                           *)

\* A U-proc in memory executes: it asks for the next service of its program, or
\* does something that is a trap.
UserCall ==
  /\ At("user") /\ me # 0 /\ 0 \in inMemory[me] /\ program[me] # <<>>
  /\ program' = [program EXCEPT ![me] = Tail(@)]
  /\ PassUp(Head(program[me]))
  /\ UNCHANGED <<asid, table, inMemory, overrun, result>>

\* An overwritten support structure no longer says what was asked for.
GetTod ==
  /\ At("GETTOD")
  /\ PassUp("user")
  /\ UNCHANGED <<asid, program, table, inMemory, overrun, result>>

\* trapExcHandler: system call 2, made from the handler.
TrapExcHandler ==
  /\ \E cause \in {"TRAP", "BADARGS"} : At(cause)
  /\ PassUp("TERMINATE")
  /\ UNCHANGED <<asid, program, table, inMemory, overrun, result>>

\* writeToPrinter, writeToTerminal and readFromTerminal pass the value of the
\* semaphore for its address.  The value is 1, the nucleus reads through it, and
\* the address error is passed up as a trap; the device is never reached.
DeviceCall ==
  \E call \in {"WRITEPRINTER", "WRITETERMINAL", "READTERMINAL"} :
    /\ At(call)
    /\ value[CASE call = "WRITEPRINTER"  -> Cell(0, me - 1)
               [] call = "WRITETERMINAL" -> Cell(2, me - 1)
               [] call = "READTERMINAL"  -> Cell(3, me - 1)] = 1
    /\ PassUp("TRAP")
    /\ UNCHANGED <<asid, program, table, inMemory, overrun, result>>

\* Only the first frame the table says is the U-proc's.
Fault_ReleaseFrames ==
  /\ At("TERMINATE")
  /\ IF me \in overrun THEN Lost /\ UNCHANGED <<step, sw_asid>>
     ELSE /\ sw_asid' = [i \in Frame |->
               IF sw_asid[i] = me /\ \A j \in Frame : j < i => sw_asid[j] # me THEN NOPROC
               ELSE sw_asid[i]]
          /\ OnlySupport /\ Goto("V", 1)
  /\ UNCHANGED <<asid, program, victim, frame, owner, inMemory, overrun, result>>

\* terminate: the frames are given back without the semaphore of the pool.
ReleaseFrames ==
  /\ At("TERMINATE")
  /\ IF me \in overrun THEN Lost /\ UNCHANGED <<step, sw_asid>>
     ELSE /\ sw_asid' = [i \in Frame |-> IF sw_asid[i] = me THEN NOPROC ELSE sw_asid[i]]
          /\ OnlySupport /\ Goto("V", 1)
  /\ UNCHANGED <<asid, program, victim, frame, owner, inMemory, overrun, result>>

\* The arrays are indexed with the asid, which counts from 1.
Released(a) ==
  <<Cell(0, a), Cell(1, a), Cell(2, a), Cell(3, a), swapSemaphore, mainSemaphore>>

\* The Vs of terminate, and TERMPROCESS.
Unblock ==
  /\ At("V")
  /\ LET n == step[current_p][2]
     IN  /\ IF n <= 6 THEN Verhogen(Released(me)[n]) ELSE TerminateSelf
         /\ Goto("V", n + 1)
  /\ UNCHANGED <<asid, program, table, inMemory, overrun, result>>

-----------------------------------------------------------------------------
(* The devices, and the whole.                                             *)

\* The U-proc whose read of a page a unit is busy with, if it is.
Reader(u) == {asid[p] : p \in {q \in Entries(s_procq[SemOf(u)]) : step[q][1] = "loaded"}}

\* A transfer that succeeds overwrites the next support structure.
Completes(u, res) ==
  LET hit == IF res = "READY" THEN {a + 1 : a \in Reader(u)} ELSE {}
  IN  /\ u # NoDisk /\ DeviceCompletes(u)
      /\ UPROCMAX + 1 \notin hit
      /\ result' = [result EXCEPT ![u] = res]
      /\ overrun' = overrun \cup hit
      /\ inMemory' = [a \in Asid |-> IF a \in hit THEN {} ELSE inMemory[a]]
      /\ UNCHANGED <<step, asid, program, table>>

\* The last U-proc's overwrites the variables of the nucleus.
CompletesLast(u) ==
  /\ Interruptible /\ status[u] = "BUSY" /\ UPROCMAX \in Reader(u)
  /\ Lost /\ UNCHANGED supVars

Process ==
  \/ SetSwapSemaphore \/ LockTable \/ MarkFree \/ UnlockTable \/ SetSemaphores
  \/ CreateUProc \/ AwaitUProcs
  \/ PageFault \/ LockPool \/ ChooseFrame \/ WriteBack \/ ReadPage \/ Written
  \/ EnterFrame \/ UnlockPool \/ Retry
  \/ UserCall \/ GetTod \/ TrapExcHandler \/ DeviceCall \/ ReleaseFrames \/ Unblock

Machine ==
  \/ (Boot \/ Interrupt) /\ UNCHANGED supVars
  \/ \E u \in Unit, res \in {"READY", "ERROR"} : Completes(u, res)
  \/ \E u \in Unit : CompletesLast(u)

SupportNext == Process \/ Machine

allVars == <<vars, supVars>>

SupportSpec == SupportInit /\ [][SupportNext]_allVars

\* Handlers do not stop between two system calls, and a U-proc in memory gets
\* to the next service of its program.
SupportFairness ==
  /\ WF_allVars(Process)
  /\ WF_allVars(Boot /\ UNCHANGED supVars)
  /\ WF_allVars(PLTTimerInterrupt /\ UNCHANGED supVars)
  /\ \A d \in Device : WF_allVars(DeviceInterrupt(d) /\ UNCHANGED supVars)
  /\ \A u \in Unit : WF_allVars(\E res \in {"READY", "ERROR"} : Completes(u, res))

FairSupportSpec == SupportSpec /\ SupportFairness
=============================================================================
