---------------------------- MODULE SupportProofs ---------------------------
(***************************************************************************)
(* The swap pool of the support level and the flash devices behind it, for *)
(* any number of U-procs.                                                  *)
(*                                                                         *)
(* The nucleus' side of the argument is the invariant Accounted of the     *)
(* module PlacesProofs, and here no convention has to be assumed for it:   *)
(* that a device has one user at a time follows from the semaphore of the  *)
(* pool, and nobody is terminated, since a U-proc that terminates blocks   *)
(* for ever in the first V of terminate.                                   *)
(***************************************************************************)
EXTENDS SupportProps, PlacesProofs

-----------------------------------------------------------------------------
(* The inductive invariant.                                                *)

\* What a process does, by the labels of its steps.
Preparing  == {"start", "lockTable", "markFree", "unlockTable", "setSems"}
RootLabels == Preparing \cup {"create", "wait"}
Chosen     == {"write", "written", "read", "loaded"}
Pager      == {"fault", "choose", "map", "return"} \cup Chosen
Services   == SupportCalls \ {"TERMINATE"}
Leaving    == {"TERMINATE", "V"}
UserLabels == {"user"} \cup Pager \cup Services \cup Leaving
Labels     == {"none"} \cup RootLabels \cup UserLabels
InPool     == {"markFree", "unlockTable", "choose", "map"} \cup Chosen

\* The table and its entries keep to their types, and it names living U-procs.
TablesAgree ==
  /\ SupportTypeOK
  /\ step \in [Pcb -> Labels \X Nat] /\ program \in [Asid -> Seq(SupportCalls)]
  /\ \A i \in Frame : sw_asid[i] = NOPROC \/ \E p \in Live : asid[p] = sw_asid[i]

\* The first process is alone until it starts the U-procs, which it numbers in
\* order; then it waits for ever, since nobody gets to V on mainSemaphore.
RootPhase ==
  /\ Root \in Live /\ Label(Root) \in RootLabels
  /\ Label(Root) \in Preparing => Live = {Root}
  /\ Label(Root) = "create" =>
       step[Root][2] \in Asid /\ \A p \in Live : asid[p] < step[Root][2]
  /\ Label(Root) = "wait" =>
       \/ step[Root][2] = 1
       \/ step[Root][2] = 2 /\ p_semAdd[Root] = mainSemaphore
  /\ Label(Root) \in {"create", "wait"} =>
       value[mainSemaphore] = 0 /\ \A a \in Asid : value[Cell(0, a)] = 1

\* A U-proc that terminates stays in the first V, on a semaphore that is 1.
UProcPhase ==
  \A p \in Live \ {Root} :
    /\ Label(p) \in UserLabels
    /\ Label(p) = "V" => \/ step[p][2] = 1
                         \/ step[p][2] = 2 /\ p_semAdd[p] = Cell(0, asid[p])

\* swapSemaphore is a lock: it is 0 while a process is inside or left without
\* giving it back, and who waits for it is about to go inside.
SwapLock ==
  /\ \A p \in Entries(s_procq[swapSemaphore]) : p \in Live /\ Label(p) \in {"markFree", "choose"}
  /\ PoolExclusive
  /\ value[swapSemaphore] = 1 => s_procq[swapSemaphore] = <<>>
  /\ value[swapSemaphore] = 0 /\ Label(Root) # "start" =>
       \E p \in Live : Inside(p) \/ Label(p) \in Leaving
  /\ Label(Root) = "start" => s_procq[swapSemaphore] = <<>>

Owns(p) == \E i \in Frame : sw_asid[i] = asid[p]

\* The pool was locked by somebody who will not unlock it.
PoolDead == value[swapSemaphore] = 0 /\ \A p \in Live : ~Inside(p)

\* A U-proc in memory without a page fault has no frame, so it has none to give
\* back when it terminates, unless it does so in the pager; then the pool stays
\* locked and nobody has a frame chosen.
FrameOf(p) ==
  /\ Label(p) \in Services \cup {"V"} => ~Owns(p)
  /\ Label(p) = "TERMINATE" => ~Owns(p) \/ PoolDead
  /\ Label(p) = "user" /\ 0 \in inMemory[asid[p]] /\ asid[p] \notin overrun => ~Owns(p)
  /\ Label(p) \in Pager => 0 \notin inMemory[asid[p]] \/ asid[p] \in overrun
  /\ Label(p) \in Chosen => sw_asid[frame[p]] = owner[p]
  /\ Label(p) \in {"write", "written"} => owner[p] # NOPROC

FramesAgree == \A p \in Live \ {Root} : FrameOf(p)

\* Who waits for a device is in the pager.
FlashQueues ==
  \A u \in Unit, p \in Pcb : p \in Entries(s_procq[SemOf(u)]) =>
    p \in Live /\ Label(p) \in {"written", "loaded"}

\* Inductive.  The nucleus is in order as long as it is in control, and when it
\* is not, nothing moves any more.
SupportInv ==
  /\ cpu # "ADRIFT" => TypeOK /\ Accounted
  /\ SemTypeOK /\ UnitsAgree
  /\ TablesAgree /\ RootPhase /\ UProcPhase /\ SwapLock /\ FramesAgree /\ FlashQueues

-----------------------------------------------------------------------------
(* The semaphores and the devices of the support level.                    *)

\* The arrays lie one behind the other, mainSemaphore behind them.
LEMMA CellsType ==
  /\ UPROCMAX \in Nat \ {0} /\ Cells \in Seq(UserSem) /\ Len(Cells) = 4 * UPROCMAX + 1
  /\ Cells[4 * UPROCMAX + 1] = mainSemaphore
<1>1. UPROCMAX \in Nat \ {0} /\ mainSemaphore \in UserSem
  BY UProcAssumption
<1>2. /\ printer_sem \in Seq(UserSem) /\ Len(printer_sem) = UPROCMAX
      /\ flash_sem \in Seq(UserSem) /\ Len(flash_sem) = UPROCMAX
      /\ term_w_sem \in Seq(UserSem) /\ Len(term_w_sem) = UPROCMAX
      /\ term_r_sem \in Seq(UserSem) /\ Len(term_r_sem) = UPROCMAX
  <2>1. ASSUME NEW q \in [Asid -> UserSem]
        PROVE  q \in Seq(UserSem) /\ Len(q) = UPROCMAX
    BY <1>1 DEF Asid
  <2> QED
    BY UProcAssumption, <2>1
<1>0. ASSUME NEW q \in Seq(UserSem), NEW w \in Seq(UserSem)
      PROVE  q \o w \in Seq(UserSem) /\ Len(q \o w) = Len(q) + Len(w)
  OBVIOUS
<1> DEFINE a == printer_sem \o flash_sem
           b == a \o term_w_sem
           c == b \o term_r_sem
<1>3. a \in Seq(UserSem) /\ Len(a) = 2 * UPROCMAX
  BY <1>0, <1>1, <1>2
<1> HIDE DEF a
<1>4. b \in Seq(UserSem) /\ Len(b) = 3 * UPROCMAX
  BY <1>0, <1>1, <1>2, <1>3, SMTT(30)
<1> HIDE DEF b
<1>5. c \in Seq(UserSem) /\ Len(c) = 4 * UPROCMAX
  <2>1. c \in Seq(UserSem) /\ Len(c) = Len(b) + Len(term_r_sem)
    BY <1>0, <1>2, <1>4
  <2> QED
    BY <1>1, <1>2, <1>4, <2>1
<1> HIDE DEF c
<1>6. Cells = c \o <<mainSemaphore>>
  BY DEF Cells, c, b, a
<1> QED
  BY <1>1, <1>5, <1>6

\* The semaphores of the pool, of the first process and of a U-proc's first V
\* are three.
LEMMA SemsDiffer ==
  /\ swapSemaphore \in UserSem /\ swapSemaphore \in Sem /\ swapSemaphore \notin DevSem
  /\ mainSemaphore \in UserSem /\ mainSemaphore \in Sem /\ mainSemaphore \notin DevSem
  /\ mainSemaphore # swapSemaphore
  /\ \A a \in Asid : /\ Cell(0, a) \in UserSem /\ Cell(0, a) \in Sem /\ Cell(0, a) \notin DevSem
                     /\ Cell(0, a) \in Range(Cells)
                     /\ Cell(0, a) # swapSemaphore /\ Cell(0, a) # mainSemaphore
<1>1. swapSemaphore \in UserSem /\ mainSemaphore \in UserSem
  BY UProcAssumption
<1>2. \A s \in UserSem : s \in Sem /\ s \notin DevSem
  BY UnitSemNumbers DEF Sem
<1>3. DOMAIN Cells = 1..(4 * UPROCMAX + 1) /\ \A i \in DOMAIN Cells : Cells[i] \in UserSem
  BY CellsType
<1>4. ASSUME NEW a \in Asid
      PROVE  /\ Cell(0, a) \in UserSem /\ Cell(0, a) \in Range(Cells)
             /\ Cell(0, a) # swapSemaphore /\ Cell(0, a) # mainSemaphore
  <2>1. /\ 0 * UPROCMAX + a + 1 = a + 1 /\ a + 1 \in DOMAIN Cells
        /\ 4 * UPROCMAX + 1 \in DOMAIN Cells /\ a + 1 # 4 * UPROCMAX + 1
    BY <1>3, CellsType DEF Asid
  <2>2. Cell(0, a) = Cells[a + 1]
    BY <2>1 DEF Cell
  <2> QED
    BY <1>3, <2>1, <2>2, CellsType, CellsAssumption DEF Range
<1>5. mainSemaphore # swapSemaphore
  BY <1>3, CellsType, CellsAssumption
<1> QED
  BY <1>1, <1>2, <1>4, <1>5

\* What is set to 1 with the arrays is a semaphore of processes.
LEMMA CellsSems == \A s \in Range(Cells) : s \in UserSem /\ s # swapSemaphore
  BY CellsType, CellsAssumption DEF Range

\* The flash devices and the disk are installed.
LEMMA FlashUnit == \A a \in 0..UPROCMAX : FlashOf(a) \in Unit
<1> SUFFICES ASSUME NEW a \in 0..UPROCMAX PROVE FlashOf(a) \in Unit
  OBVIOUS
<1> DEFINE d == IF a = 0 THEN <<3, 7>> ELSE <<FLASHINT, a - 1>>
<1>1. d \in Device /\ FlashOf(a) = <<d[1], d[2], "dtp">> /\ d[1] # 7
  BY UProcAssumption DEF FlashOf, NoDisk, FLASHINT, Asid
<1> HIDE DEF d
<1>2. "dtp" \in UnitsOf(d[1])
  BY <1>1 DEF UnitsOf, TERMLINE
<1> QED
  BY <1>1, <1>2 DEF Unit

-----------------------------------------------------------------------------
(* Steps in general.                                                       *)

\* All processes but the first are U-procs.
LEMMA UProcAsid == TablesAgree => \A p \in Live \ {Root} : asid[p] \in Asid
<1> SUFFICES ASSUME TablesAgree, NEW p \in Live \ {Root} PROVE asid[p] \in Asid
  OBVIOUS
<1>1. p \in Pcb /\ asid[p] # 0 /\ asid[p] \in 0..UPROCMAX
  BY DEF TablesAgree, SupportTypeOK, Live
<1> QED
  BY <1>1, CellsType DEF Asid

\* The process that runs is alive, waits nowhere, and is the first process or
\* the only one with its asid.
LEMMA RunningFacts ==
  ASSUME SupportInv, cpu = "RUN"
  PROVE  /\ TypeOK /\ Accounted
         /\ current_p \in Live /\ current_p \in Pcb /\ p_semAdd[current_p] = NULL
         /\ \A s \in Sem : current_p \notin Entries(s_procq[s])
         /\ me \in 0..UPROCMAX /\ sup_asid \in {0, me}
         /\ me = 0 <=> current_p = Root
         /\ me # 0 => me \in Asid
         /\ \A p \in Live : asid[p] = me => p = current_p
<1>1. TypeOK /\ Accounted
  BY DEF SupportInv
<1>2. current_p \in Unblocked /\ current_p \in Live /\ current_p \in Pcb
  BY <1>1, CurrentUnblocked DEF Accounted
<1>3. \A s \in Sem : current_p \notin Entries(s_procq[s])
  BY <1>1, <1>2, NullFacts DEF Accounted, QueuesAgree, Blocked, Unblocked
<1>4. /\ asid \in [Pcb -> 0..UPROCMAX]
      /\ \A p \in Live : asid[p] = 0 <=> p = Root
      /\ \A p, q \in Live : asid[p] = asid[q] => p = q
  BY DEF SupportInv, TablesAgree, SupportTypeOK
<1> QED
  BY <1>1, <1>2, <1>3, <1>4, CellsType DEF me, sup_asid, Unblocked, Asid

\* A label and a number of the process that runs.
LEMMA Moved ==
  ASSUME step \in [Pcb -> Labels \X Nat], current_p \in Pcb,
         NEW m \in Labels, NEW n \in Nat, Goto(m, n)
  PROVE  /\ step' \in [Pcb -> Labels \X Nat]
         /\ step'[current_p] = <<m, n>> /\ step'[current_p][1] = m /\ step'[current_p][2] = n
         /\ \A p \in Pcb : p # current_p => step'[p] = step[p]
  BY DEF Goto

\* The nucleus stands still when only the support level moves.
LEMMA StillAccounted ==
  ASSUME TypeOK, Accounted, UNCHANGED vars
  PROVE  TypeOK' /\ Accounted'
<1>1. TypeOK'
  BY NextType
<1>2. UNCHANGED <<cpuVars, queues, procVars, semVars, soft_count, status>>
  BY DEF vars
<1>3. /\ QueuesAgree' /\ LowPrios' /\ ClockAtZero' /\ UnitsAgree' /\ CountIsSoft'
      /\ Unblocked' = Unblocked
  BY <1>2, SemsKept
<1> QED
  BY <1>1, <1>2, <1>3 DEF Accounted, ReadyAgree, StandsStill, cpuVars, queues

\* Control is lost with everything in its place.
LEMMA LostKeeps ==
  ASSUME SupportInv, cpu' = "ADRIFT",
         UNCHANGED <<procVars, semVars, status, step, asid, table, inMemory, overrun, result>>,
         program' \in [Asid -> Seq(SupportCalls)], soft_count' = soft_count
  PROVE  SupportInv'
<1>1. Live' = Live /\ \A p : Label(p)' = Label(p)
  BY DEF Live, procVars, Label
<1>2. (\A p : Inside(p)' <=> Inside(p)) /\ (\A p : Owns(p)' <=> Owns(p))
  BY <1>1 DEF Inside, semVars, Owns, table
<1>3. SemTypeOK' /\ UnitsAgree'
  BY DEF SupportInv, SemTypeOK, UnitsAgree, semVars
<1>4. TablesAgree'
  BY <1>1 DEF SupportInv, TablesAgree, SupportTypeOK, table
<1>5. RootPhase' /\ UProcPhase'
  BY <1>1 DEF SupportInv, RootPhase, UProcPhase, semVars
<1>7. SwapLock'
  BY <1>1, <1>2 DEF SupportInv, SwapLock, PoolExclusive, semVars
<1>8. FramesAgree'
  BY <1>1, <1>2 DEF SupportInv, FramesAgree, FrameOf, PoolDead, semVars, table
<1>9. FlashQueues'
  BY <1>1 DEF SupportInv, FlashQueues, semVars
<1> QED
  BY <1>3, <1>4, <1>5, <1>7, <1>8, <1>9 DEF SupportInv

\* A step that leaves the semaphore of the pool alone and takes nobody inside
\* leaves the pool locked or unlocked, as it was.
LEMMA LockKept ==
  ASSUME SupportInv, cpu = "RUN", NEW m \in Labels, NEW n \in Nat, Goto(m, n), Live' = Live,
         value'[swapSemaphore] = value[swapSemaphore],
         s_procq'[swapSemaphore] = s_procq[swapSemaphore],
         m \in InPool => Label(current_p) \in InPool,
         Label(current_p) \in InPool => m \in InPool \cup Leaving,
         Label(current_p) \in Leaving => m \in Leaving,
         m # "start", Label(current_p) # "start"
  PROVE  /\ SwapLock' /\ (PoolDead => PoolDead')
         /\ \A p \in Live : Inside(p)' => Inside(p)
         /\ Inside(current_p) <=> Label(current_p) \in InPool
         /\ \A p \in Live : p = current_p => (Inside(p)' <=> m \in InPool)
<1> DEFINE Q == Entries(s_procq[swapSemaphore])
<1>1. /\ current_p \in Live /\ current_p \in Pcb /\ current_p \notin Q
      /\ step \in [Pcb -> Labels \X Nat] /\ SwapLock /\ Live \subseteq Pcb /\ Root \in Pcb
  BY RunningFacts, SemsDiffer, NullFacts DEF SupportInv, TablesAgree, Live
<1>2. /\ \A p \in Live : Label(p)' = IF p = current_p THEN m ELSE Label(p)
      /\ Label(Root)' = IF Root = current_p THEN m ELSE Label(Root)
  BY <1>1, Moved DEF Label
<1>3. \A p \in Live : Inside(p) <=> Label(p) \in InPool /\ p \notin Q
  BY DEF Inside, InPool, Chosen
<1>4. \A p \in Live : Inside(p)' <=> Label(p)' \in InPool /\ p \notin Q
  BY DEF Inside, InPool, Chosen
<1> HIDE DEF Q
<1>5. \A p \in Live : Inside(p)' => Inside(p)
  BY <1>1, <1>2, <1>3, <1>4
<1>6. PoolExclusive' /\ (PoolDead => PoolDead')
  BY <1>1, <1>5 DEF SwapLock, PoolExclusive, PoolDead
<1>7. \A p \in Live : Inside(p) \/ Label(p) \in Leaving => Inside(p)' \/ Label(p)' \in Leaving
  BY <1>1, <1>2, <1>3, <1>4
<1>8. \A p \in Q : p \in Live' /\ Label(p)' \in {"markFree", "choose"}
  BY <1>1, <1>2 DEF SwapLock, Q
<1>9. \/ Label(Root) # "start" /\ Label(Root)' # "start"
      \/ Label(Root)' = Label(Root)
  BY <1>1, <1>2
<1>10. SwapLock'
  BY <1>1, <1>6, <1>7, <1>8, <1>9 DEF SwapLock, Q
<1> QED
  BY <1>1, <1>2, <1>3, <1>4, <1>5, <1>6, <1>10

\* A process is at the steps of the first process or at those of a U-proc.
LEMMA WhoRuns ==
  ASSUME SupportInv, NEW l, At(l)
  PROVE  /\ cpu = "RUN" /\ Label(current_p) = l
         /\ l \in RootLabels => current_p = Root
         /\ l \in UserLabels => current_p # Root /\ me \in Asid
<1>1. cpu = "RUN" /\ Label(current_p) = l
  BY DEF At, Label
<1>2. /\ current_p \in Live /\ Label(Root) \in RootLabels
      /\ me = 0 <=> current_p = Root
      /\ me # 0 => me \in Asid
      /\ \A p \in Live \ {Root} : Label(p) \in UserLabels
  BY <1>1, RunningFacts DEF SupportInv, RootPhase, UProcPhase
<1>3. RootLabels \cap UserLabels = {}
  BY DEF RootLabels, UserLabels, Preparing, Pager, Chosen, Services, SupportCalls, Leaving
<1> QED
  BY <1>1, <1>2, <1>3

\* Steps in which nobody moves: an interrupt wakes whom it finds in a device's
\* queue, and the end of a transfer may overwrite a U-proc.
LEMMA QuietKeeps ==
  ASSUME SupportInv, TypeOK', Accounted', TablesAgree', Live' = Live,
         UNCHANGED <<step, asid, table>>,
         \A s \in UserSem : value'[s] = value[s] /\ s_procq'[s] = s_procq[s],
         \A p \in Live : p_semAdd[p] \in UserSem => p_semAdd'[p] = p_semAdd[p],
         \A u \in Unit : Entries(s_procq'[SemOf(u)]) \subseteq Entries(s_procq[SemOf(u)]),
         overrun \subseteq overrun',
         \A a \in Asid : inMemory'[a] \subseteq inMemory[a]
  PROVE  SupportInv'
<1>1. (\A p : Label(p)' = Label(p)) /\ (\A p : Owns(p)' <=> Owns(p))
  BY DEF Label, Owns, table
<1>2. \A p : Inside(p)' <=> Inside(p)
  BY <1>1, SemsDiffer DEF Inside
<1>3. RootPhase' /\ UProcPhase'
  <2>1. RootPhase /\ UProcPhase
    BY DEF SupportInv
  <2>2. \A p \in Live \ {Root} : asid[p] \in Asid
    BY UProcAsid DEF SupportInv
  <2> QED
    BY <1>1, <2>1, <2>2, SemsDiffer DEF RootPhase, UProcPhase
<1>4. SwapLock' /\ (PoolDead' <=> PoolDead)
  BY <1>1, <1>2, SemsDiffer DEF SupportInv, SwapLock, PoolExclusive, PoolDead
<1>5. FramesAgree'
  <2>1. \A p \in Live \ {Root} : asid[p] \in Asid
    BY UProcAsid DEF SupportInv
  <2> QED
    BY <1>1, <1>4, <2>1 DEF SupportInv, FramesAgree, FrameOf, table
<1>6. FlashQueues'
  BY <1>1 DEF SupportInv, FlashQueues
<1> QED
  BY <1>3, <1>4, <1>5, <1>6 DEF SupportInv, TypeOK, Accounted

\* Nobody touches what the first process relies on.
LEMMA RootKept ==
  ASSUME RootPhase, Live' = Live, asid' = asid, step'[Root] = step[Root],
         value'[mainSemaphore] = value[mainSemaphore],
         \A a \in Asid : value'[Cell(0, a)] = value[Cell(0, a)],
         p_semAdd[Root] = mainSemaphore => p_semAdd'[Root] = mainSemaphore
  PROVE  RootPhase'
<1>1. Label(Root)' = Label(Root)
  BY DEF Label
<1> QED
  BY <1>1 DEF RootPhase

\* Steps of a U-proc, but for what they do to the pool and its table.
LEMMA UProcKeeps ==
  ASSUME SupportInv, TypeOK', Accounted', TablesAgree', SwapLock', FramesAgree', Live' = Live,
         cpu = "RUN", current_p # Root, asid' = asid,
         NEW m \in UserLabels, NEW n \in Nat, Goto(m, n),
         \A s \in UserSem : s # swapSemaphore => value'[s] = value[s],
         \A p \in Live : p # current_p /\ p_semAdd[p] \in UserSem /\ p_semAdd[p] # swapSemaphore
                           => p_semAdd'[p] = p_semAdd[p],
         m = "V" => n = 1 \/ (n = 2 /\ p_semAdd'[current_p] = Cell(0, me)),
         \A u \in Unit, p \in Pcb : p \in Entries(s_procq'[SemOf(u)]) =>
           \/ p \in Entries(s_procq[SemOf(u)])
           \/ p = current_p /\ m \in {"written", "loaded"}
  PROVE  SupportInv'
<1>1. /\ current_p \in Live /\ current_p \in Pcb /\ Live \subseteq Pcb /\ me \in Asid
      /\ step \in [Pcb -> Labels \X Nat] /\ m \in Labels
      /\ \A u \in Unit : current_p \notin Entries(s_procq[SemOf(u)])
      /\ RootPhase /\ UProcPhase /\ FlashQueues
  BY RunningFacts, UnitSem DEF SupportInv, TablesAgree, Live, Labels
<1>2. \A p \in Live : step'[p] = IF p = current_p THEN <<m, n>> ELSE step[p]
  BY <1>1, Moved
<1>3. RootPhase'
  <2>1. step'[Root] = step[Root] /\ Root \in Live
    BY <1>1, <1>2 DEF RootPhase
  <2>2. p_semAdd[Root] = mainSemaphore => p_semAdd'[Root] = mainSemaphore
    BY <2>1, SemsDiffer
  <2> QED
    BY <1>1, <2>1, <2>2, SemsDiffer, RootKept
<1>4. UProcPhase'
  <2>1. \A p \in Live \ {Root} : asid[p] \in Asid
    BY UProcAsid DEF SupportInv
  <2>2. ASSUME NEW p \in Live \ {Root}, p # current_p
        PROVE  /\ Label(p)' \in UserLabels
               /\ Label(p)' = "V" => \/ step'[p][2] = 1
                                     \/ step'[p][2] = 2 /\ p_semAdd'[p] = Cell(0, asid'[p])
    <3>1. step'[p] = step[p] /\ Label(p)' = Label(p)
      BY <1>2, <2>2 DEF Label
    <3>2. /\ Cell(0, asid[p]) \in UserSem /\ Cell(0, asid[p]) # swapSemaphore
      BY <2>1, SemsDiffer
    <3> QED
      BY <1>1, <2>2, <3>1, <3>2 DEF UProcPhase
  <2>3. step'[current_p] = <<m, n>> /\ asid'[current_p] = me
    BY <1>1, <1>2 DEF me
  <2> QED
    BY <1>1, <2>2, <2>3 DEF UProcPhase, Label
<1>5. FlashQueues'
  BY <1>1, <1>2 DEF FlashQueues, Label
<1> QED
  BY <1>3, <1>4, <1>5 DEF SupportInv, TypeOK, Accounted

\* Steps of the first process while it is alone.
LEMMA PreparingKeeps ==
  ASSUME SupportInv, TypeOK', Accounted', TablesAgree', SwapLock', Live' = Live,
         current_p = Root, cpu = "RUN", Label(Root) \in Preparing,
         NEW m \in RootLabels, NEW n \in Nat, Goto(m, n), asid' = asid,
         \/ m \in Preparing
         \/ /\ m = "create" /\ n = 1
            /\ value'[mainSemaphore] = 0 /\ \A a \in Asid : value'[Cell(0, a)] = 1,
         \A u \in Unit : Entries(s_procq'[SemOf(u)]) \subseteq Entries(s_procq[SemOf(u)])
  PROVE  SupportInv'
<1>1. /\ Live = {Root} /\ Root \in Pcb /\ step \in [Pcb -> Labels \X Nat] /\ m \in Labels
      /\ Label(Root) \notin {"written", "loaded"} /\ FlashQueues /\ asid[Root] = 0
  BY NullFacts DEF SupportInv, RootPhase, TablesAgree, SupportTypeOK, Labels, Preparing
<1>2. step'[Root] = <<m, n>> /\ Label(Root)' = m
  BY <1>1, Moved DEF Label
<1>3. RootPhase'
  BY <1>1, <1>2, CellsType DEF RootPhase, Preparing, RootLabels, Asid
<1>4. UProcPhase' /\ FramesAgree'
  BY <1>1 DEF UProcPhase, FramesAgree
<1>5. FlashQueues'
  BY <1>1 DEF FlashQueues
<1> QED
  BY <1>3, <1>4, <1>5 DEF SupportInv, TypeOK, Accounted

-----------------------------------------------------------------------------
(* What the nucleus does for the support level.                            *)

\* P and V on a semaphore of processes.
LEMMA SemCallEffect ==
  ASSUME SupportInv, NEW s \in UserSem, NEW full \in {0, 1},
         \/ full = 0 /\ Passeren(s)
         \/ full = 1 /\ Verhogen(s)
  PROVE  /\ TypeOK' /\ Accounted' /\ Live' = Live /\ status' = status
         /\ \A r \in Sem : r # s => value'[r] = value[r] /\ s_procq'[r] = s_procq[r]
         /\ \/ /\ value[s] = full /\ value'[s] = full
               /\ s_procq'[s] = Append(s_procq[s], current_p)
               /\ p_semAdd' = [p_semAdd EXCEPT ![current_p] = s]
            \/ /\ value[s] # full /\ s_procq[s] # <<>> /\ value'[s] = value[s]
               /\ s_procq'[s] = Tail(s_procq[s])
               /\ p_semAdd' = [p_semAdd EXCEPT ![Head(s_procq[s])] = NULL]
            \/ /\ value[s] # full /\ s_procq[s] = <<>> /\ value'[s] = full
               /\ s_procq'[s] = <<>> /\ p_semAdd' = p_semAdd
<1>1. cpu = "RUN"
  BY DEF Passeren, Verhogen, Running
<1>2. TypeOK /\ Accounted /\ s \in Sem
  BY <1>1, RunningFacts DEF Sem
<1>3. /\ SemOp(s, full, full) /\ UNCHANGED <<procVars, soft_count, status>>
      /\ \/ value[s] = full /\ Scheduler(high_ready_q, low_ready_q, yielded, slice)
         \/ /\ value[s] # full
            /\ high_ready_q' = HighWith(Woken(s, full))
            /\ low_ready_q' = LowWith(Woken(s, full)) /\ Resume
  BY DEF Passeren, Verhogen
<1>4. TypeOK' /\ Accounted'
  BY <1>1, <1>2, <1>3, SemCallType, SemCallAccounted
<1>5. Live' = Live
  BY <1>3 DEF Live, procVars
<1>6. value \in [Sem -> {0, 1}] /\ s_procq \in [Sem -> Seq(Pcb)]
  BY <1>2 DEF TypeOK, SemTypeOK
<1> QED
  BY <1>2, <1>3, <1>4, <1>5, <1>6 DEF SemOp, InsertBlocked, RemoveBlocked

\* A semaphore set by an assignment.
LEMMA ValueSet ==
  ASSUME TypeOK, Accounted, value' \in [Sem -> {0, 1}],
         \A s \in DevSem : value'[s] = value[s],
         UNCHANGED <<cpuVars, queues, procVars, s_procq, p_semAdd, soft_count, status>>
  PROVE  TypeOK' /\ Accounted' /\ Live' = Live
<1>1. Live' = Live
  BY DEF Live, procVars
<1>2. TypeOK'
  BY DEF TypeOK, CpuTypeOK, ProcTypeOK, SemTypeOK, cpuVars, queues, procVars
<1>3. QueuesAgree' /\ Unblocked' = Unblocked /\ Soft' = Soft
  BY <1>1 DEF Accounted, QueuesAgree, Blocked, Unblocked, Soft
<1>4. ReadyAgree' /\ CountIsSoft' /\ LowPrios' /\ StandsStill'
  BY <1>3 DEF Accounted, ReadyAgree, CountIsSoft, LowPrios, StandsStill, cpuVars, queues, procVars
<1>5. ClockAtZero' /\ UnitsAgree'
  BY UnitSemNumbers DEF Accounted, ClockAtZero, UnitsAgree, DevSem
<1> QED
  BY <1>1, <1>2, <1>3, <1>4, <1>5 DEF Accounted

\* While somebody is in the pager and waits for no device, nobody does, and no
\* device is at work: who waits for one is in the pager, too.
LEMMA DevicesIdle ==
  ASSUME SupportInv, NEW p \in Live, Inside(p), Label(p) \notin {"written", "loaded"}
  PROVE  \A u \in Unit : status[u] = "READY"
<1> SUFFICES ASSUME NEW u \in Unit, status[u] # "READY" PROVE FALSE
  OBVIOUS
<1>1. s_procq[SemOf(u)] \in Seq(Pcb) /\ Len(s_procq[SemOf(u)]) = 1
  BY UnitSem DEF SupportInv, SemTypeOK, UnitsAgree
<1>2. PICK q \in Pcb : q \in Entries(s_procq[SemOf(u)])
  <2>1. s_procq[SemOf(u)] # <<>>
    BY <1>1
  <2> QED
    BY <1>1, <2>1, EntriesType
<1>3. q \in Live /\ Label(q) \in {"written", "loaded"}
  BY <1>2 DEF SupportInv, FlashQueues
<1>4. Inside(q)
  BY <1>3 DEF SupportInv, SwapLock, Inside
<1> QED
  BY <1>3, <1>4 DEF SupportInv, SwapLock, PoolExclusive

\* DOIO in the pager.
LEMMA DoIOEffect ==
  ASSUME SupportInv, NEW u \in Unit, DoIO(u), \A v \in Unit : status[v] = "READY"
  PROVE  /\ TypeOK' /\ Accounted' /\ Live' = Live /\ value' = value
         /\ s_procq' = [s_procq EXCEPT ![SemOf(u)] = Append(@, current_p)]
         /\ p_semAdd' = [p_semAdd EXCEPT ![current_p] = SemOf(u)]
<1>1. cpu = "RUN"
  BY DEF DoIO, Running
<1>2. TypeOK /\ Accounted
  BY <1>1, RunningFacts
<1>3. TypeOK'
  BY <1>2, NextType DEF Next, Syscall
<1>4. Accounted'
  BY <1>2, DoIOAccounted
<1>5. value[SemOf(u)] = 0
  BY <1>2 DEF Accounted, UnitsAgree
<1>6. Live' = Live
  BY DEF DoIO, Live, procVars
<1> QED
  BY <1>3, <1>4, <1>5, <1>6 DEF DoIO, SemOp, InsertBlocked

-----------------------------------------------------------------------------
(* The steps of U-procs that leave the semaphore of the pool alone.        *)

\* The tables after a step of one process.
LEMMA TablesKept ==
  ASSUME TablesAgree, current_p \in Pcb, Live' = Live, UNCHANGED <<asid, overrun, result>>,
         NEW m \in Labels, NEW n \in Nat, Goto(m, n),
         program' \in [Asid -> Seq(SupportCalls)],
         sw_asid' \in [Frame -> -1..UPROCMAX],
         \A i \in Frame : sw_asid'[i] = NOPROC \/ \E p \in Live : asid[p] = sw_asid'[i],
         victim' \in -1..(POOLSIZE - 1),
         frame' \in [Pcb -> Frame], owner' \in [Pcb -> -1..UPROCMAX],
         inMemory' \in [Asid -> SUBSET (0..(POOLSIZE - 1))]
  PROVE  TablesAgree'
<1>1. step' \in [Pcb -> Labels \X Nat]
  BY Moved DEF TablesAgree
<1>2. SupportTypeOK'
  BY DEF TablesAgree, SupportTypeOK
<1> QED
  BY <1>1, <1>2 DEF TablesAgree

\* The same, when it writes none of them.
LEMMA TablesStill ==
  ASSUME TablesAgree, current_p \in Pcb, Live' = Live,
         UNCHANGED <<asid, table, inMemory, overrun, result>>,
         NEW m \in Labels, NEW n \in Nat, Goto(m, n),
         program' \in [Asid -> Seq(SupportCalls)]
  PROVE  TablesAgree'
<1>1. SupportTypeOK /\ \A i \in Frame : sw_asid[i] = NOPROC \/ \E p \in Live : asid[p] = sw_asid[i]
  BY DEF TablesAgree
<1>2. UNCHANGED <<asid, sw_asid, victim, frame, owner, inMemory, overrun, result>>
  BY DEF table
<1> QED
  BY <1>1, <1>2, TablesKept DEF SupportTypeOK

\* The frames of the others do not depend on the one that moves.
LEMMA FramesKept ==
  ASSUME SupportInv, cpu = "RUN", Live' = Live, UNCHANGED <<asid, overrun>>,
         NEW m \in Labels, NEW n \in Nat, Goto(m, n), PoolDead => PoolDead',
         \A p \in Pcb : p # current_p => frame'[p] = frame[p] /\ owner'[p] = owner[p],
         \A a \in Asid : a # me => inMemory'[a] = inMemory[a],
         \A p \in Live \ {Root} : p # current_p =>
           /\ Owns(p)' => Owns(p)
           /\ Label(p) \in Chosen => sw_asid'[frame[p]] = owner[p],
         \A p \in Live \ {Root} : p = current_p => FrameOf(p)'
  PROVE  FramesAgree'
<1>1. /\ step \in [Pcb -> Labels \X Nat] /\ current_p \in Pcb /\ FramesAgree
      /\ \A p \in Live : asid[p] = me => p = current_p
      /\ \A p \in Live \ {Root} : asid[p] \in Asid
      /\ Live \subseteq Pcb
  BY RunningFacts, UProcAsid DEF SupportInv, TablesAgree, Live
<1>2. ASSUME NEW p \in Live \ {Root}, p # current_p
      PROVE  FrameOf(p)'
  <2>1. Label(p)' = Label(p)
    BY <1>1, <1>2, Moved DEF Label
  <2>2. asid'[p] = asid[p] /\ inMemory'[asid[p]] = inMemory[asid[p]]
    BY <1>1, <1>2
  <2>3. frame'[p] = frame[p] /\ owner'[p] = owner[p] /\ FrameOf(p)
    BY <1>1, <1>2 DEF FramesAgree
  <2>4. (Owns(p)' => Owns(p)) /\ (Label(p) \in Chosen => sw_asid'[frame[p]] = owner[p])
    BY <1>2
  <2> QED
    BY <2>1, <2>2, <2>3, <2>4 DEF FrameOf
<1> QED
  BY <1>2 DEF FramesAgree

\* A U-proc moves and the nucleus stands still.
LEMMA UProcMoves ==
  ASSUME SupportInv, cpu = "RUN", current_p # Root, OnlySupport, asid' = asid,
         NEW m \in UserLabels, NEW n \in Nat, Goto(m, n), TablesAgree', FramesAgree',
         m \in InPool => Label(current_p) \in InPool,
         Label(current_p) \in InPool => m \in InPool \cup Leaving,
         Label(current_p) \in Leaving => m \in Leaving,
         m = "V" => n = 1
  PROVE  SupportInv'
<1>1. TypeOK /\ Accounted /\ current_p \in Live /\ UNCHANGED vars
  BY RunningFacts DEF OnlySupport
<1>2. TypeOK' /\ Accounted'
  BY <1>1, StillAccounted
<1>3. /\ UNCHANGED <<value, s_procq, p_semAdd>> /\ Live' = Live
  BY <1>1 DEF vars, semVars, Live, procVars
<1>4. Label(current_p) \in UserLabels
  BY <1>1 DEF SupportInv, UProcPhase
<1>5. m \in Labels /\ m # "start" /\ Label(current_p) # "start"
  BY <1>4 DEF Labels, UserLabels, Pager, Chosen, Services, SupportCalls, Leaving
<1>6. SwapLock'
  BY <1>3, <1>5, LockKept
<1> QED
  BY <1>2, <1>3, <1>6, UProcKeeps

\* It does so without touching the tables.
LEMMA UProcGoes ==
  ASSUME SupportInv, cpu = "RUN", current_p # Root, OnlySupport,
         UNCHANGED <<asid, table, inMemory, overrun, result>>,
         program' \in [Asid -> Seq(SupportCalls)],
         NEW m \in UserLabels, NEW n \in Nat, Goto(m, n),
         m \in InPool => Label(current_p) \in InPool,
         Label(current_p) \in InPool => m \in InPool \cup Leaving,
         Label(current_p) \in Leaving => m \in Leaving,
         m = "V" => n = 1,
         m \in Services \cup {"V"} => ~Owns(current_p),
         m = "TERMINATE" => ~Owns(current_p) \/ PoolDead \/ Inside(current_p),
         m = "user" => 0 \notin inMemory[me] \/ me \in overrun \/ ~Owns(current_p),
         m \in Pager => 0 \notin inMemory[me] \/ me \in overrun,
         m \in Chosen => sw_asid[frame[current_p]] = owner[current_p],
         m \in {"write", "written"} => owner[current_p] # NOPROC
  PROVE  SupportInv'
<1>1. current_p \in Live /\ current_p \in Pcb /\ Live' = Live
      /\ UNCHANGED <<value, s_procq>> /\ TablesAgree /\ step \in [Pcb -> Labels \X Nat]
      /\ SwapLock
  BY RunningFacts DEF OnlySupport, vars, semVars, Live, procVars, SupportInv, TablesAgree
<1>2. Label(current_p) \in UserLabels
  BY <1>1 DEF SupportInv, UProcPhase
<1>3. m \in Labels /\ m # "start" /\ Label(current_p) # "start"
  BY <1>2 DEF Labels, UserLabels, Pager, Chosen, Services, SupportCalls, Leaving
<1>4. TablesAgree'
  BY <1>1, <1>3, TablesStill
<1>5. /\ PoolDead => PoolDead'
      /\ \A p \in Live : Inside(p)' => Inside(p)
      /\ \A p \in Live : p = current_p => (Inside(p)' <=> m \in InPool)
  BY <1>1, <1>3, LockKept
<1>6. UNCHANGED <<sw_asid, frame, owner>>
  BY DEF table
<1>7. \A p \in Live \ {Root} : /\ Owns(p)' <=> Owns(p)
                               /\ Label(p) \in Chosen => sw_asid'[frame[p]] = owner[p]
  BY <1>6 DEF SupportInv, FramesAgree, FrameOf, Owns
<1>8. m = "TERMINATE" /\ Inside(current_p) => PoolDead'
  <2>1. m = "TERMINATE" => m \notin InPool
    BY DEF InPool, Chosen
  <2> QED
    BY <1>1, <1>5, <2>1 DEF SwapLock, PoolExclusive, PoolDead
<1>9. ASSUME NEW p \in Live \ {Root}, p = current_p
      PROVE  FrameOf(p)'
  <2>1. Label(p)' = m
    BY <1>1, <1>3, <1>9, Moved DEF Label
  <2>2. /\ asid'[p] = me /\ inMemory' = inMemory /\ overrun' = overrun
        /\ frame'[p] = frame[current_p] /\ owner'[p] = owner[current_p]
        /\ sw_asid' = sw_asid /\ (Owns(p)' <=> Owns(current_p))
    BY <1>6, <1>7, <1>9 DEF me
  <2> QED
    BY <1>5, <1>8, <2>1, <2>2 DEF FrameOf
<1>10. FramesAgree'
  BY <1>1, <1>3, <1>5, <1>6, <1>7, <1>9, FramesKept
<1> QED
  BY <1>4, <1>10, UProcMoves

\* The same for a step that loses control when the support structure was
\* overwritten.
LEMMA PassUpKeeps ==
  ASSUME SupportInv, cpu = "RUN", current_p # Root,
         UNCHANGED <<asid, table, inMemory, overrun, result>>,
         program' \in [Asid -> Seq(SupportCalls)],
         NEW m \in UserLabels \ (InPool \cup {"V"}), PassUp(m),
         Label(current_p) \notin Leaving,
         Label(current_p) \in InPool => m = "TERMINATE",
         m \in Services => ~Owns(current_p),
         m = "TERMINATE" => ~Owns(current_p) \/ PoolDead \/ Inside(current_p),
         m = "user" => 0 \notin inMemory[me] \/ me \in overrun \/ ~Owns(current_p),
         m \in Pager => 0 \notin inMemory[me] \/ me \in overrun
  PROVE  SupportInv'
<1>1. CASE Lost /\ UNCHANGED step
  BY <1>1, LostKeeps DEF Lost, restVars
<1>2. CASE OnlySupport /\ Goto(m, 0)
  <2>1. /\ m \notin Chosen /\ m # "V" /\ m \notin {"write", "written"}
        /\ m = "TERMINATE" => m \in Leaving
    BY DEF InPool, Chosen, Leaving
  <2> QED
    BY <1>2, <2>1, UProcGoes
<1> QED
  BY <1>1, <1>2 DEF PassUp

\* What is known of the frames of the process that runs.
LEMMA RunningFrame ==
  ASSUME SupportInv, cpu = "RUN", current_p # Root
  PROVE  /\ current_p \in Live /\ me \in Asid /\ FrameOf(current_p)
         /\ program \in [Asid -> Seq(SupportCalls)]
         /\ Inside(current_p) <=> Label(current_p) \in InPool
<1>1. /\ current_p \in Live /\ current_p \notin Entries(s_procq[swapSemaphore])
      /\ (me = 0 <=> current_p = Root) /\ (me # 0 => me \in Asid)
  BY RunningFacts, SemsDiffer
<1>2. Inside(current_p) <=> Label(current_p) \in InPool
  BY <1>1 DEF Inside, InPool, Chosen
<1> QED
  BY <1>1, <1>2 DEF SupportInv, FramesAgree, TablesAgree

\* A page fault is passed up to the pager.
LEMMA PageFaultKeeps ==
  ASSUME SupportInv, PageFault
  PROVE  SupportInv'
<1>1. /\ cpu = "RUN" /\ Label(current_p) = "user" /\ current_p # Root
      /\ 0 \notin inMemory[me] /\ PassUp("fault")
      /\ UNCHANGED <<asid, program, table, inMemory, overrun, result>>
  BY WhoRuns DEF PageFault, UserLabels
<1>2. /\ "fault" \in UserLabels \ (InPool \cup {"V"}) /\ "user" \notin Leaving /\ "user" \notin InPool
      /\ "fault" \notin Services
  BY DEF UserLabels, Pager, Chosen, InPool, Services, SupportCalls, Leaving
<1> QED
  BY <1>1, <1>2, RunningFrame, PassUpKeeps

\* The pager returns to the instruction that faulted.
LEMMA RetryKeeps ==
  ASSUME SupportInv, Retry
  PROVE  SupportInv'
<1>1. /\ cpu = "RUN" /\ Label(current_p) = "return" /\ current_p # Root
      /\ PassUp("user")
      /\ UNCHANGED <<asid, program, table, inMemory, overrun, result>>
  BY WhoRuns DEF Retry, UserLabels, Pager
<1>2. /\ "user" \in UserLabels \ (InPool \cup {"V"}) /\ "return" \notin Leaving
      /\ "return" \notin InPool /\ "user" \notin Services /\ "user" \notin Pager
      /\ "return" \in Pager
  BY DEF UserLabels, Pager, Chosen, InPool, Services, SupportCalls, Leaving
<1>3. 0 \notin inMemory[me] \/ me \in overrun
  BY <1>1, <1>2, RunningFrame DEF FrameOf, me
<1> QED
  BY <1>1, <1>2, <1>3, RunningFrame, PassUpKeeps

\* A U-proc in memory asks for a service, and has no frame.
LEMMA UserCallKeeps ==
  ASSUME SupportInv, UserCall
  PROVE  SupportInv'
<1>1. /\ cpu = "RUN" /\ Label(current_p) = "user" /\ current_p # Root
      /\ 0 \in inMemory[me] /\ program[me] # <<>>
      /\ program' = [program EXCEPT ![me] = Tail(@)]
      /\ PassUp(Head(program[me]))
      /\ UNCHANGED <<asid, table, inMemory, overrun, result>>
  BY WhoRuns DEF UserCall, UserLabels
<1>2. /\ "user" \notin Leaving /\ "user" \notin InPool
      /\ \A c \in SupportCalls : c \in UserLabels \ (InPool \cup {"V"}) /\ c \notin Pager /\ c # "user"
  BY DEF UserLabels, Pager, Chosen, InPool, Services, SupportCalls, Leaving
<1>3. /\ program[me] \in Seq(SupportCalls) /\ me \in Asid /\ FrameOf(current_p)
      /\ program \in [Asid -> Seq(SupportCalls)]
  BY <1>1, RunningFrame
<1>4. Head(program[me]) \in SupportCalls /\ Tail(program[me]) \in Seq(SupportCalls)
  BY <1>1, <1>3
<1>5. program' \in [Asid -> Seq(SupportCalls)]
  BY <1>1, <1>3, <1>4
<1>6. CASE me \in overrun
  BY <1>1, <1>5, <1>6, LostKeeps DEF PassUp, Lost, restVars
<1>7. CASE me \notin overrun
  <2>1. ~Owns(current_p)
    BY <1>1, <1>3, <1>7 DEF FrameOf, me
  <2> DEFINE c == Head(program[me])
  <2>2. c \in UserLabels \ (InPool \cup {"V"}) /\ PassUp(c) /\ c \notin Pager /\ c # "user"
    BY <1>1, <1>2, <1>4
  <2> HIDE DEF c
  <2> QED
    BY <1>1, <1>2, <1>5, <2>1, <2>2, PassUpKeeps
<1> QED
  BY <1>6, <1>7

\* The services, and the traps they end in: the U-proc has no frame.
LEMMA ServiceKeeps ==
  ASSUME SupportInv, GetTod \/ TrapExcHandler \/ DeviceCall
  PROVE  SupportInv'
<1>1. PICK m \in {"user", "TRAP", "TERMINATE"} :
        /\ cpu = "RUN" /\ Label(current_p) \in Services /\ current_p # Root
        /\ PassUp(m) /\ UNCHANGED <<asid, program, table, inMemory, overrun, result>>
  <2>1. PICK l \in Services, m \in {"user", "TRAP", "TERMINATE"} :
          At(l) /\ PassUp(m) /\ UNCHANGED <<asid, program, table, inMemory, overrun, result>>
    BY DEF GetTod, TrapExcHandler, DeviceCall, Services, SupportCalls
  <2>2. l \in UserLabels
    BY DEF UserLabels
  <2> QED
    BY <2>1, <2>2, WhoRuns
<1>2. /\ \A l \in Services : l \notin Leaving /\ l \notin InPool
      /\ m \in UserLabels \ (InPool \cup {"V"}) /\ m \notin Pager
  BY DEF UserLabels, Pager, Chosen, InPool, Services, SupportCalls, Leaving
<1>3. ~Owns(current_p) /\ program \in [Asid -> Seq(SupportCalls)]
  BY <1>1, RunningFrame DEF FrameOf
<1> QED
  BY <1>1, <1>2, <1>3, PassUpKeeps

\* After an error the pager terminates its U-proc, with the pool locked.
LEMMA WrittenKeeps ==
  ASSUME SupportInv, Written
  PROVE  SupportInv'
<1>1. /\ cpu = "RUN" /\ Label(current_p) = "written" /\ current_p # Root
      /\ (OnlySupport /\ Goto("read", 0)) \/ PassUp("TERMINATE")
      /\ UNCHANGED <<asid, program, table, inMemory, overrun, result>>
  BY WhoRuns DEF Written, UserLabels, Pager, Chosen
<1>2. /\ "written" \in InPool /\ "written" \notin Leaving /\ "written" \in Chosen
      /\ "written" \in Pager /\ "read" \in InPool /\ "read" \in UserLabels /\ "read" \notin Services
      /\ "TERMINATE" \in UserLabels \ (InPool \cup {"V"}) /\ "TERMINATE" \notin Pager
  BY DEF UserLabels, Pager, Chosen, InPool, Services, SupportCalls, Leaving
<1>3. /\ program \in [Asid -> Seq(SupportCalls)] /\ Inside(current_p)
      /\ 0 \notin inMemory[me] \/ me \in overrun
      /\ sw_asid[frame[current_p]] = owner[current_p]
  BY <1>1, <1>2, RunningFrame DEF FrameOf, me
<1>4. CASE OnlySupport /\ Goto("read", 0)
  BY <1>1, <1>2, <1>3, <1>4, UProcGoes
<1>5. CASE PassUp("TERMINATE")
  BY <1>1, <1>2, <1>3, <1>5, PassUpKeeps DEF Services
<1> QED
  BY <1>1, <1>4, <1>5

\* Who has a frame chosen is inside.
LEMMA ChosenInside ==
  ASSUME SwapLock, NEW p \in Live, Label(p) \in Chosen
  PROVE  Inside(p)
<1>1. p \notin Entries(s_procq[swapSemaphore])
  BY DEF SwapLock, Chosen
<1> QED
  BY <1>1 DEF Inside, Chosen

\* The page replaced is always one of the table's frames.
LEMMA ReplacedFrame ==
  ASSUME TablesAgree
  PROVE  Replaced \in Frame /\ (Free # {} => Replaced \in Free)
<1>1. CASE Free # {}
  <2>1. Free \in SUBSET Nat /\ Free \subseteq Frame
    BY CellsType DEF Free, Frame, POOLSIZE
  <2>2. \E i \in Free : \A j \in Free : i <= j
    BY <1>1, <2>1, LeastNat
  <2>3. Replaced \in Free
    BY <1>1, <2>2 DEF Replaced
  <2> QED
    BY <2>1, <2>3
<1>2. CASE Free = {}
  <2>1. POOLSIZE \in Nat /\ POOLSIZE > 0 /\ victim + 1 \in Int
    BY CellsType DEF TablesAgree, SupportTypeOK, POOLSIZE
  <2>2. (victim + 1) % POOLSIZE \in 0..(POOLSIZE - 1)
    BY <2>1
  <2> QED
    BY <1>2, <2>2 DEF Replaced, Frame
<1> QED
  BY <1>1, <1>2

\* The pager chooses a frame, and remembers whose it was.
LEMMA ChooseFrameKeeps ==
  ASSUME SupportInv, ChooseFrame
  PROVE  SupportInv'
<1> DEFINE m == IF Free # {} THEN "read" ELSE "write"
<1>1. /\ cpu = "RUN" /\ Label(current_p) = "choose" /\ current_p # Root
      /\ frame' = [frame EXCEPT ![current_p] = Replaced]
      /\ owner' = [owner EXCEPT ![current_p] = sw_asid[Replaced]]
      /\ victim' = IF Free # {} THEN victim ELSE Replaced
      /\ inMemory' = [inMemory EXCEPT ![me] = IF Free # {} THEN @ ELSE @ \ {Replaced}]
      /\ OnlySupport /\ Goto(m, 0)
      /\ UNCHANGED <<asid, program, sw_asid, overrun, result>>
  BY WhoRuns DEF ChooseFrame, UserLabels, Pager
<1>2. /\ "choose" \in InPool /\ "choose" \notin Leaving /\ "choose" \in Pager
      /\ m \in UserLabels /\ m \in Labels /\ m \in InPool /\ m \in Chosen /\ m \in Pager
      /\ m \notin Services /\ m # "V" /\ m # "TERMINATE" /\ m # "user" /\ m # "start"
      /\ m = "write" => Free = {} 
      /\ m # "written"
  BY DEF Labels, UserLabels, Pager, Chosen, InPool, Services, SupportCalls, Leaving
<1> HIDE DEF m
<1>3. /\ current_p \in Live /\ current_p \in Pcb /\ Live' = Live /\ me \in Asid
      /\ UNCHANGED <<value, s_procq>> /\ TablesAgree /\ FramesAgree
      /\ 0 \notin inMemory[me] \/ me \in overrun
  BY <1>1, <1>2, RunningFacts, RunningFrame
     DEF OnlySupport, vars, semVars, Live, procVars, SupportInv, FrameOf, me
<1>4. /\ sw_asid \in [Frame -> -1..UPROCMAX] /\ frame \in [Pcb -> Frame]
      /\ owner \in [Pcb -> -1..UPROCMAX] /\ victim \in -1..(POOLSIZE - 1)
      /\ inMemory \in [Asid -> SUBSET (0..(POOLSIZE - 1))]
      /\ \A i \in Frame : sw_asid[i] = NOPROC \/ \E p \in Live : asid[p] = sw_asid[i]
      /\ step \in [Pcb -> Labels \X Nat] /\ program \in [Asid -> Seq(SupportCalls)]
  BY <1>3 DEF TablesAgree, SupportTypeOK
<1>5. Replaced \in Frame /\ sw_asid[Replaced] \in -1..UPROCMAX
  BY <1>3, <1>4, ReplacedFrame
<1>6. TablesAgree'
  <2>1. victim' \in -1..(POOLSIZE - 1)
    BY <1>1, <1>4, <1>5, CellsType DEF Frame, POOLSIZE
  <2>2. inMemory' \in [Asid -> SUBSET (0..(POOLSIZE - 1))]
    BY <1>1, <1>4
  <2>3. frame' \in [Pcb -> Frame] /\ owner' \in [Pcb -> -1..UPROCMAX]
    BY <1>1, <1>4, <1>5
  <2> QED
    BY <1>1, <1>2, <1>3, <1>4, <2>1, <2>2, <2>3, TablesKept
<1>7. PoolDead => PoolDead'
  BY <1>1, <1>2, <1>3, LockKept
<1>8. /\ \A p \in Pcb : p # current_p => frame'[p] = frame[p] /\ owner'[p] = owner[p]
      /\ \A a \in Asid : a # me => inMemory'[a] = inMemory[a]
      /\ inMemory'[me] \subseteq inMemory[me]
      /\ frame'[current_p] = Replaced /\ owner'[current_p] = sw_asid[Replaced]
  BY <1>1, <1>3, <1>4
<1>9. \A p \in Live \ {Root} : /\ Owns(p)' => Owns(p)
                               /\ Label(p) \in Chosen => sw_asid'[frame[p]] = owner[p]
  BY <1>1, <1>3 DEF FramesAgree, FrameOf, Owns
<1>10. Free = {} => sw_asid[Replaced] # NOPROC
  BY <1>5 DEF Free
<1>11. ASSUME NEW p \in Live \ {Root}, p = current_p
       PROVE  FrameOf(p)'
  <2>1. Label(p)' = m
    BY <1>1, <1>2, <1>3, <1>4, <1>11, Moved DEF Label
  <2>2. /\ asid'[p] = me /\ overrun' = overrun /\ sw_asid' = sw_asid
        /\ frame'[p] = Replaced /\ owner'[p] = sw_asid[Replaced]
        /\ inMemory'[me] \subseteq inMemory[me]
    BY <1>1, <1>8, <1>11 DEF me
  <2> QED
    BY <1>2, <1>3, <1>10, <2>1, <2>2 DEF FrameOf
<1>12. FramesAgree'
  BY <1>1, <1>2, <1>3, <1>7, <1>8, <1>9, <1>11, FramesKept
<1> QED
  BY <1>1, <1>2, <1>6, <1>12, UProcMoves

\* The pager enters its U-proc, or asid 0, in the frame it has chosen.
LEMMA EnterFrameKeeps ==
  ASSUME SupportInv, EnterFrame
  PROVE  SupportInv'
<1>1. /\ cpu = "RUN" /\ Label(current_p) = "loaded" /\ current_p # Root
      /\ \/ PassUp("TERMINATE") /\ UNCHANGED sw_asid
         \/ /\ OnlySupport /\ Goto("map", 0)
            /\ sw_asid' = [sw_asid EXCEPT ![frame[current_p]] = sup_asid]
      /\ UNCHANGED <<asid, program, victim, frame, owner, inMemory, overrun, result>>
  BY WhoRuns DEF EnterFrame, UserLabels, Pager, Chosen
<1>2. /\ "loaded" \in InPool /\ "loaded" \notin Leaving /\ "loaded" \in Chosen
      /\ "loaded" \in Pager
      /\ "map" \in InPool /\ "map" \in UserLabels /\ "map" \in Labels /\ "map" \notin Services
      /\ "map" \notin Chosen /\ "map" \in Pager
      /\ "TERMINATE" \in UserLabels \ (InPool \cup {"V"}) /\ "TERMINATE" \notin Pager
      /\ "TERMINATE" \notin Services
  BY DEF Labels, UserLabels, Pager, Chosen, InPool, Services, SupportCalls, Leaving
<1>3. /\ program \in [Asid -> Seq(SupportCalls)] /\ Inside(current_p)
      /\ 0 \notin inMemory[me] \/ me \in overrun
      /\ current_p \in Live /\ current_p \in Pcb /\ me \in Asid /\ sup_asid \in {0, me}
      /\ TablesAgree /\ SwapLock /\ RootPhase
  BY <1>1, <1>2, RunningFrame, RunningFacts DEF FrameOf, me, SupportInv
<1>4. CASE PassUp("TERMINATE") /\ UNCHANGED sw_asid
  BY <1>1, <1>2, <1>3, <1>4, PassUpKeeps DEF table
<1>5. CASE /\ OnlySupport /\ Goto("map", 0)
           /\ sw_asid' = [sw_asid EXCEPT ![frame[current_p]] = sup_asid]
  <2>1. /\ sw_asid \in [Frame -> -1..UPROCMAX] /\ frame[current_p] \in Frame
        /\ \A i \in Frame : sw_asid[i] = NOPROC \/ \E p \in Live : asid[p] = sw_asid[i]
        /\ step \in [Pcb -> Labels \X Nat] /\ Root \in Live /\ asid[Root] = 0
        /\ asid[current_p] = me /\ UNCHANGED <<victim, frame, owner, inMemory>>
    BY <1>1, <1>3 DEF TablesAgree, SupportTypeOK, RootPhase, me
  <2>2. Live' = Live /\ UNCHANGED <<value, s_procq>>
    BY <1>5 DEF OnlySupport, vars, semVars, Live, procVars
  <2>3. \A i \in Frame : sw_asid'[i] = IF i = frame[current_p] THEN sup_asid ELSE sw_asid[i]
    BY <1>5, <2>1
  <2>4. sw_asid' \in [Frame -> -1..UPROCMAX]
    BY <1>3, <1>5, <2>1, CellsType DEF Asid
  <2>5. TablesAgree'
    <3>1. \A i \in Frame : sw_asid'[i] = NOPROC \/ \E p \in Live : asid[p] = sw_asid'[i]
      BY <1>3, <2>1, <2>3
    <3>2. UNCHANGED <<asid, overrun, result>> /\ program' = program
      BY <1>1
    <3>3. /\ victim' \in -1..(POOLSIZE - 1)
          /\ frame' \in [Pcb -> Frame] /\ owner' \in [Pcb -> -1..UPROCMAX]
          /\ inMemory' \in [Asid -> SUBSET (0..(POOLSIZE - 1))]
      BY <1>3, <2>1 DEF TablesAgree, SupportTypeOK
    <3> QED
      BY <1>2, <1>3, <1>5, <2>2, <2>4, <3>1, <3>2, <3>3, TablesKept
  <2>6. PoolDead => PoolDead'
    BY <1>3 DEF PoolDead
  <2>7. ASSUME NEW p \in Live \ {Root}, p # current_p
        PROVE  /\ Owns(p)' => Owns(p)
               /\ Label(p) \in Chosen => sw_asid'[frame[p]] = owner[p]
    <3>1. asid[p] # 0 /\ asid[p] # me /\ asid'[p] = asid[p]
      BY <1>1, <1>3, <2>7, RunningFacts DEF TablesAgree, SupportTypeOK
    <3>2. Owns(p)' => Owns(p)
      BY <1>3, <2>3, <3>1 DEF Owns
    <3>3. Label(p) \notin Chosen
      BY <1>3, <2>7, ChosenInside DEF SwapLock, PoolExclusive
    <3> QED
      BY <3>2, <3>3
  <2>8. ASSUME NEW p \in Live \ {Root}, p = current_p
        PROVE  FrameOf(p)'
    <3>1. Label(p)' = "map"
      BY <1>2, <1>3, <1>5, <2>1, <2>8, Moved DEF Label
    <3>2. asid'[p] = me /\ overrun' = overrun /\ inMemory' = inMemory
      BY <1>1, <2>1, <2>8
    <3> QED
      BY <1>2, <1>3, <3>1, <3>2 DEF FrameOf
  <2>9. FramesAgree'
    <3>1. /\ UNCHANGED <<asid, overrun>>
          /\ \A p \in Pcb : p # current_p => frame'[p] = frame[p] /\ owner'[p] = owner[p]
          /\ \A a \in Asid : a # me => inMemory'[a] = inMemory[a]
      BY <1>1
    <3> QED
      BY <1>1, <1>2, <1>5, <2>2, <2>6, <2>7, <2>8, <3>1, FramesKept
  <2> QED
    BY <1>1, <1>2, <1>5, <2>5, <2>9, UProcMoves
<1> QED
  BY <1>1, <1>4, <1>5

\* terminate gives the frames of one U-proc back, without the semaphore of the
\* pool; it has none while somebody else has a frame chosen.
LEMMA ReleaseFramesKeeps ==
  ASSUME SupportInv, ReleaseFrames
  PROVE  SupportInv'
<1>1. /\ cpu = "RUN" /\ Label(current_p) = "TERMINATE" /\ current_p # Root
      /\ \/ Lost /\ UNCHANGED <<step, sw_asid>>
         \/ /\ sw_asid' = [i \in Frame |-> IF sw_asid[i] = me THEN NOPROC ELSE sw_asid[i]]
            /\ OnlySupport /\ Goto("V", 1)
      /\ UNCHANGED <<asid, program, victim, frame, owner, inMemory, overrun, result>>
  BY WhoRuns DEF ReleaseFrames, UserLabels, Leaving
<1>2. /\ "TERMINATE" \notin InPool /\ "TERMINATE" \in Leaving
      /\ "V" \notin InPool /\ "V" \in UserLabels /\ "V" \in Labels /\ "V" \in Leaving
      /\ "V" \notin Pager /\ "V" \notin Chosen /\ "V" # "start"
  BY DEF Labels, UserLabels, Pager, Chosen, InPool, Services, SupportCalls, Leaving
<1>3. /\ program \in [Asid -> Seq(SupportCalls)]
      /\ ~Owns(current_p) \/ PoolDead
      /\ current_p \in Live /\ current_p \in Pcb /\ me \in Asid
      /\ TablesAgree /\ SwapLock /\ FramesAgree /\ asid[current_p] = me
  BY <1>1, <1>2, RunningFrame, RunningFacts DEF FrameOf, me, SupportInv
<1>4. CASE Lost /\ UNCHANGED <<step, sw_asid>>
  BY <1>1, <1>3, <1>4, LostKeeps DEF Lost, restVars, table
<1>5. CASE /\ OnlySupport /\ Goto("V", 1)
           /\ sw_asid' = [i \in Frame |-> IF sw_asid[i] = me THEN NOPROC ELSE sw_asid[i]]
  <2>1. /\ sw_asid \in [Frame -> -1..UPROCMAX]
        /\ \A i \in Frame : sw_asid[i] = NOPROC \/ \E p \in Live : asid[p] = sw_asid[i]
        /\ step \in [Pcb -> Labels \X Nat] /\ frame \in [Pcb -> Frame]
        /\ UNCHANGED <<victim, frame, owner, inMemory>>
    BY <1>1, <1>3 DEF TablesAgree, SupportTypeOK
  <2>2. Live' = Live /\ UNCHANGED <<value, s_procq>>
    BY <1>5 DEF OnlySupport, vars, semVars, Live, procVars
  <2>3. /\ sw_asid' \in [Frame -> -1..UPROCMAX]
        /\ \A i \in Frame : sw_asid'[i] = IF sw_asid[i] = me THEN NOPROC ELSE sw_asid[i]
    BY <1>5, <2>1, CellsType DEF NOPROC
  <2>4. TablesAgree'
    <3>1. \A i \in Frame : sw_asid'[i] = NOPROC \/ \E p \in Live : asid[p] = sw_asid'[i]
      BY <2>1, <2>3
    <3>2. UNCHANGED <<asid, overrun, result>> /\ program' = program
      BY <1>1
    <3>3. /\ victim' \in -1..(POOLSIZE - 1)
          /\ frame' \in [Pcb -> Frame] /\ owner' \in [Pcb -> -1..UPROCMAX]
          /\ inMemory' \in [Asid -> SUBSET (0..(POOLSIZE - 1))]
      BY <1>3, <2>1 DEF TablesAgree, SupportTypeOK
    <3> QED
      BY <1>2, <1>3, <1>5, <2>2, <2>3, <3>1, <3>2, <3>3, TablesKept
  <2>5. PoolDead => PoolDead'
    BY <1>1, <1>2, <1>5, <2>2, LockKept
  <2>6. ASSUME NEW p \in Live \ {Root}, p # current_p
        PROVE  /\ Owns(p)' => Owns(p)
               /\ Label(p) \in Chosen => sw_asid'[frame[p]] = owner[p]
    <3>1. asid[p] \in Asid /\ asid'[p] = asid[p] /\ NOPROC \notin Asid
      BY <1>1, <1>3, <2>6, UProcAsid, CellsType DEF NOPROC, Asid
    <3>2. Owns(p)' => Owns(p)
      BY <2>3, <3>1 DEF Owns
    <3>3. ASSUME Label(p) \in Chosen
          PROVE  sw_asid'[frame[p]] = owner[p]
      <4>1. Inside(p) /\ sw_asid[frame[p]] = owner[p] /\ p \in Pcb
        BY <1>3, <3>3, ChosenInside DEF FramesAgree, FrameOf, Live
      <4>2. ~Owns(current_p)
        BY <1>3, <4>1 DEF PoolDead
      <4>3. sw_asid'[frame[p]] = sw_asid[frame[p]]
        BY <1>3, <2>1, <2>3, <4>1, <4>2 DEF Owns
      <4> QED
        BY <4>1, <4>3
    <3> QED
      BY <3>2, <3>3
  <2>7. ASSUME NEW p \in Live \ {Root}, p = current_p
        PROVE  FrameOf(p)'
    <3>1. Label(p)' = "V"
      BY <1>2, <1>3, <1>5, <2>1, <2>7, Moved DEF Label
    <3>2. asid'[p] = me /\ NOPROC # me
      BY <1>1, <1>3, <2>7, CellsType DEF NOPROC, Asid
    <3>3. ~Owns(p)'
      BY <2>3, <3>2 DEF Owns
    <3> QED
      BY <1>2, <3>1, <3>3 DEF FrameOf
  <2>8. FramesAgree'
    <3>1. /\ UNCHANGED <<asid, overrun>>
          /\ \A p \in Pcb : p # current_p => frame'[p] = frame[p] /\ owner'[p] = owner[p]
          /\ \A a \in Asid : a # me => inMemory'[a] = inMemory[a]
      BY <1>1
    <3> QED
      BY <1>1, <1>2, <1>5, <2>2, <2>5, <2>6, <2>7, <3>1, FramesKept
  <2> QED
    BY <1>1, <1>2, <1>5, <2>4, <2>8, UProcMoves
<1> QED
  BY <1>1, <1>4, <1>5

-----------------------------------------------------------------------------
(* The system calls of U-procs.                                            *)

\* A U-proc blocks on a semaphore that is not the pool's: in the pager it waits
\* for a device, and in terminate for ever.
LEMMA UProcBlocks ==
  ASSUME SupportInv, cpu = "RUN", current_p # Root, TypeOK', Accounted', Live' = Live,
         NEW s \in Sem, s # swapSemaphore, \A r \in Sem : value'[r] = value[r],
         \A r \in Sem : r # s => s_procq'[r] = s_procq[r],
         s_procq'[s] = Append(s_procq[s], current_p),
         p_semAdd' = [p_semAdd EXCEPT ![current_p] = s],
         UNCHANGED <<asid, program, table, inMemory, overrun, result>>,
         NEW m, NEW n \in Nat, Goto(m, n),
         \/ <<Label(current_p), m>> \in {<<"write", "written">>, <<"read", "loaded">>}
         \/ Label(current_p) = "V" /\ m = "V" /\ n = 2 /\ s = Cell(0, me)
  PROVE  SupportInv'
<1> DEFINE l == Label(current_p)
<1>1. \/ l = "write" /\ m = "written"
      \/ l = "read" /\ m = "loaded"
      \/ l = "V" /\ m = "V" /\ n = 2 /\ s = Cell(0, me)
  OBVIOUS
<1>2. /\ m \in UserLabels /\ m \in Labels /\ m # "start" /\ l # "start"
      /\ m \in InPool => l \in InPool /\ m \in Pager /\ m \in Chosen /\ l \in Pager /\ l \in Chosen
      /\ l \in InPool => m \in InPool
      /\ l \in Leaving => m \in Leaving
      /\ m \in {"written", "loaded"} \/ m = "V"
      /\ m \in {"written", "loaded"} => m \notin Services /\ m \in InPool
      /\ "V" \notin Pager /\ "V" \notin Chosen /\ "V" \notin InPool
      /\ m # "TERMINATE" /\ m # "user"
  BY <1>1 DEF Labels, UserLabels, Pager, Chosen, InPool, Services, SupportCalls, Leaving
<1> HIDE DEF l
<1>3. /\ current_p \in Live /\ current_p \in Pcb /\ me \in Asid /\ FrameOf(current_p)
      /\ TablesAgree /\ FramesAgree /\ step \in [Pcb -> Labels \X Nat]
      /\ program \in [Asid -> Seq(SupportCalls)] /\ SemTypeOK
      /\ asid[current_p] = me /\ swapSemaphore \in Sem
  BY RunningFrame, RunningFacts, SemsDiffer DEF SupportInv, TablesAgree, me
<1>4. TablesAgree'
  BY <1>2, <1>3, TablesStill
<1>5. SwapLock' /\ (PoolDead => PoolDead')
  <2>1. value'[swapSemaphore] = value[swapSemaphore] /\ s_procq'[swapSemaphore] = s_procq[swapSemaphore]
    BY <1>3
  <2>2. /\ m \in InPool => Label(current_p) \in InPool
        /\ Label(current_p) \in InPool => m \in InPool \cup Leaving
        /\ Label(current_p) \in Leaving => m \in Leaving
        /\ m # "start" /\ Label(current_p) # "start"
    BY <1>2 DEF l
  <2> QED
    BY <1>2, <2>1, <2>2, LockKept
<1>6. UNCHANGED <<sw_asid, frame, owner>>
  BY DEF table
<1>7. \A p \in Live \ {Root} : /\ Owns(p)' <=> Owns(p)
                               /\ Label(p) \in Chosen => sw_asid'[frame[p]] = owner[p]
  BY <1>3, <1>6 DEF FramesAgree, FrameOf, Owns
<1>8. ASSUME NEW p \in Live \ {Root}, p = current_p
      PROVE  FrameOf(p)'
  <2>1. Label(p)' = m
    BY <1>2, <1>3, <1>8, Moved DEF Label
  <2>2. /\ asid'[p] = asid[p] /\ overrun' = overrun /\ sw_asid' = sw_asid
        /\ inMemory' = inMemory /\ frame' = frame /\ owner' = owner
        /\ Owns(p)' <=> Owns(p)
    BY <1>6, <1>7, <1>8
  <2>3. m = "V" => ~Owns(p)
    BY <1>1, <1>3, <1>8 DEF FrameOf, l
  <2>4. m # "V" => /\ 0 \notin inMemory[asid[p]] \/ asid[p] \in overrun
                   /\ sw_asid[frame[p]] = owner[p]
    BY <1>2, <1>3, <1>8 DEF FrameOf, l
  <2>5. m = "written" => owner[p] # NOPROC
    BY <1>1, <1>3, <1>8 DEF FrameOf, l
  <2> QED
    BY <1>2, <2>1, <2>2, <2>3, <2>4, <2>5 DEF FrameOf
<1>9. FramesAgree'
  BY <1>2, <1>3, <1>5, <1>6, <1>7, <1>8, FramesKept
<1>10. \A r \in UserSem : r # swapSemaphore => value'[r] = value[r]
  BY DEF Sem
<1>11. p_semAdd \in [Pcb -> Sem \cup {NULL}]
  BY <1>3 DEF SemTypeOK
<1>12. /\ \A p \in Live : p # current_p => p_semAdd'[p] = p_semAdd[p]
       /\ p_semAdd'[current_p] = s
  BY <1>3, <1>11 DEF Live
<1>13. ASSUME NEW u \in Unit, NEW p \in Pcb, p \in Entries(s_procq'[SemOf(u)])
       PROVE  \/ p \in Entries(s_procq[SemOf(u)])
              \/ p = current_p /\ m \in {"written", "loaded"}
  <2>1. CASE SemOf(u) # s
    BY <1>13, <2>1, UnitSem
  <2>2. CASE SemOf(u) = s
    <3>1. s_procq[s] \in Seq(Pcb)
      BY <1>3 DEF SemTypeOK
    <3>2. Entries(s_procq'[s]) = Entries(s_procq[s]) \cup {current_p}
      BY <1>3, <3>1, EntriesAppend
    <3>3. m # "V"
      BY <1>1, <1>3, <2>2, SemsDiffer, UnitSemNumbers
    <3> QED
      BY <1>2, <1>13, <2>2, <3>2, <3>3
  <2> QED
    BY <2>1, <2>2
<1>14. m = "V" => n = 1 \/ (n = 2 /\ p_semAdd'[current_p] = Cell(0, me))
  BY <1>1, <1>12
<1> QED
  BY <1>2, <1>3, <1>4, <1>5, <1>9, <1>10, <1>12, <1>13, <1>14, UProcKeeps

\* The pager gives the flash device of the frame's owner, or its own, a command.
LEMMA FlashCommandKeeps ==
  ASSUME SupportInv, WriteBack \/ ReadPage
  PROVE  SupportInv'
<1>1. PICK m \in {"written", "loaded"}, u \in Unit :
        /\ cpu = "RUN" /\ current_p # Root /\ Inside(current_p)
        /\ <<Label(current_p), m>> \in {<<"write", "written">>, <<"read", "loaded">>}
        /\ DoIO(u) /\ Goto(m, 0)
        /\ UNCHANGED <<asid, program, table, inMemory, overrun, result>>
  <2>1. CASE WriteBack
    <3>1. /\ cpu = "RUN" /\ Label(current_p) = "write" /\ current_p # Root
          /\ DoIO(FlashOf(owner[current_p])) /\ Goto("written", 0)
          /\ UNCHANGED <<asid, program, table, inMemory, overrun, result>>
      BY <2>1, WhoRuns DEF WriteBack, UserLabels, Pager, Chosen
    <3>2. Inside(current_p) /\ owner[current_p] # NOPROC
      BY <3>1, RunningFrame DEF InPool, Chosen, FrameOf
    <3>3. owner[current_p] \in -1..UPROCMAX
      BY <3>1, RunningFacts DEF SupportInv, TablesAgree, SupportTypeOK
    <3>4. FlashOf(owner[current_p]) \in Unit
      BY <3>2, <3>3, FlashUnit, CellsType DEF NOPROC
    <3> QED
      BY <3>1, <3>2, <3>4
  <2>2. CASE ReadPage
    <3>1. /\ cpu = "RUN" /\ Label(current_p) = "read" /\ current_p # Root
          /\ DoIO(FlashOf(sup_asid)) /\ Goto("loaded", 0)
          /\ UNCHANGED <<asid, program, table, inMemory, overrun, result>>
      BY <2>2, WhoRuns DEF ReadPage, UserLabels, Pager, Chosen
    <3>2. Inside(current_p)
      BY <3>1, RunningFrame DEF InPool, Chosen
    <3>3. FlashOf(sup_asid) \in Unit
      BY <3>1, RunningFacts, FlashUnit, CellsType
    <3> QED
      BY <3>1, <3>2, <3>3
  <2> QED
    BY <2>1, <2>2
<1>2. \A v \in Unit : status[v] = "READY"
  BY <1>1, RunningFacts, DevicesIdle
<1>3. /\ TypeOK' /\ Accounted' /\ Live' = Live /\ value' = value
      /\ s_procq' = [s_procq EXCEPT ![SemOf(u)] = Append(@, current_p)]
      /\ p_semAdd' = [p_semAdd EXCEPT ![current_p] = SemOf(u)]
  BY <1>1, <1>2, DoIOEffect
<1>4. SemOf(u) \in Sem /\ SemOf(u) # swapSemaphore /\ s_procq \in [Sem -> Seq(Pcb)]
  BY UnitSem, UnitSemNumbers, SemsDiffer DEF SupportInv, SemTypeOK
<1> QED
  BY <1>1, <1>3, <1>4, UProcBlocks

\* A U-proc never gets past the first V of terminate,
LEMMA FirstV ==
  ASSUME SupportInv, Unblock
  PROVE  /\ cpu = "RUN" /\ Label(current_p) = "V" /\ current_p # Root /\ me \in Asid
         /\ current_p \in Live /\ Verhogen(Cell(0, me)) /\ Goto("V", 2)
         /\ UNCHANGED <<asid, program, table, inMemory, overrun, result>>
<1>1. /\ cpu = "RUN" /\ Label(current_p) = "V" /\ current_p # Root /\ me \in Asid
      /\ UNCHANGED <<asid, program, table, inMemory, overrun, result>>
  BY WhoRuns DEF Unblock, UserLabels, Leaving
<1>2. current_p \in Live /\ p_semAdd[current_p] = NULL /\ asid[current_p] = me
  BY <1>1, RunningFacts DEF me
<1>3. step[current_p][2] = 1
  BY <1>1, <1>2, SemsDiffer, NullFacts DEF SupportInv, UProcPhase
<1>4. Verhogen(Cell(0, me)) /\ Goto("V", 2)
  BY <1>3 DEF Unblock, Released
<1> QED
  BY <1>1, <1>2, <1>4

\* which is on a semaphore that is 1, and blocks.
LEMMA UnblockKeeps ==
  ASSUME SupportInv, Unblock
  PROVE  SupportInv'
<1>1. /\ cpu = "RUN" /\ Label(current_p) = "V" /\ current_p # Root /\ me \in Asid
      /\ current_p \in Live
      /\ UNCHANGED <<asid, program, table, inMemory, overrun, result>>
  BY FirstV
<1>4. Verhogen(Cell(0, me)) /\ Goto("V", 2)
  BY FirstV
<1>5. value[Cell(0, me)] = 1
  <2>1. Label(Root) \in {"create", "wait"}
    BY <1>1 DEF SupportInv, RootPhase, RootLabels
  <2> QED
    BY <1>1, <2>1 DEF SupportInv, RootPhase
<1>6. /\ Cell(0, me) \in UserSem /\ Cell(0, me) \in Sem /\ Cell(0, me) # swapSemaphore
  BY <1>1, SemsDiffer
<1>7. /\ TypeOK' /\ Accounted' /\ Live' = Live
      /\ \A r \in Sem : r # Cell(0, me) => value'[r] = value[r] /\ s_procq'[r] = s_procq[r]
      /\ value'[Cell(0, me)] = 1
      /\ s_procq'[Cell(0, me)] = Append(s_procq[Cell(0, me)], current_p)
      /\ p_semAdd' = [p_semAdd EXCEPT ![current_p] = Cell(0, me)]
  BY <1>4, <1>5, <1>6, SemCallEffect
<1>8. \A r \in Sem : value'[r] = value[r]
  BY <1>5, <1>7
<1> QED
  BY <1>1, <1>4, <1>6, <1>7, <1>8, UProcBlocks

-----------------------------------------------------------------------------
(* The semaphore of the pool.                                              *)

\* Who takes part in a P or a V on the pool.
LEMMA LockFacts ==
  ASSUME SupportInv, cpu = "RUN"
  PROVE  /\ swapSemaphore \in Sem /\ s_procq[swapSemaphore] \in Seq(Pcb)
         /\ value[swapSemaphore] \in {0, 1} /\ NoRepeats(s_procq[swapSemaphore])
         /\ current_p \in Live /\ current_p \in Pcb /\ Root \in Live
         /\ current_p \notin Entries(s_procq[swapSemaphore])
         /\ step \in [Pcb -> Labels \X Nat] /\ SwapLock
         /\ \A p \in Entries(s_procq[swapSemaphore]) : p_semAdd[p] = swapSemaphore
         /\ Label(Root) = "start" => current_p = Root
BY RunningFacts, SemsDiffer
   DEF SupportInv, SemTypeOK, TablesAgree, Accounted, QueuesAgree, Blocked, RootPhase, Preparing

\* P on the pool: the process gets inside, or joins those who wait.
LEMMA Locks ==
  ASSUME SupportInv, Passeren(swapSemaphore),
         NEW m \in {"markFree", "choose"}, NEW n \in Nat, Goto(m, n),
         Label(current_p) \in {"lockTable", "fault"}
  PROVE  /\ TypeOK' /\ Accounted' /\ Live' = Live
         /\ \A r \in Sem : r # swapSemaphore => value'[r] = value[r] /\ s_procq'[r] = s_procq[r]
         /\ \A p \in Live : p # current_p => p_semAdd'[p] = p_semAdd[p]
         /\ SwapLock' /\ (PoolDead => PoolDead')
<1> DEFINE Q == s_procq[swapSemaphore]
           N == s_procq'[swapSemaphore]
<1>0. cpu = "RUN"
  BY DEF Passeren, Running
<1>1. /\ swapSemaphore \in Sem /\ Q \in Seq(Pcb)
      /\ value[swapSemaphore] \in {0, 1}
      /\ current_p \in Live /\ current_p \in Pcb /\ Root \in Live
      /\ current_p \notin Entries(Q)
      /\ step \in [Pcb -> Labels \X Nat] /\ SwapLock /\ m \in Labels
      /\ Label(Root) = "start" => current_p = Root
  BY <1>0, LockFacts DEF Labels, RootLabels, Preparing, UserLabels, Pager
<1>2. /\ TypeOK' /\ Accounted' /\ Live' = Live
      /\ \A r \in Sem : r # swapSemaphore => value'[r] = value[r] /\ s_procq'[r] = s_procq[r]
      /\ \/ /\ value[swapSemaphore] = 0 /\ value'[swapSemaphore] = 0
            /\ N = Append(Q, current_p)
            /\ p_semAdd' = [p_semAdd EXCEPT ![current_p] = swapSemaphore]
         \/ /\ value[swapSemaphore] = 1 /\ Q = <<>>
            /\ value'[swapSemaphore] = 0 /\ N = <<>> /\ p_semAdd' = p_semAdd
  BY <1>1, SemCallEffect, SemsDiffer DEF SwapLock
<1>3. \A p \in Live : p # current_p => p_semAdd'[p] = p_semAdd[p]
  BY <1>2 DEF SupportInv, SemTypeOK, Live
<1>4. /\ \A p \in Live : Label(p)' = IF p = current_p THEN m ELSE Label(p)
      /\ Label(Root)' # "start" /\ Label(Root) # "start"
  BY <1>1, Moved DEF Label, Live
<1>5. \A p \in Live : /\ Inside(p) <=> Label(p) \in InPool /\ p \notin Entries(Q)
                      /\ Inside(p)' <=> Label(p)' \in InPool /\ p \notin Entries(N)
  BY DEF Inside, InPool, Chosen
<1>6. Label(current_p) \notin InPool /\ Label(current_p) \notin Leaving /\ m \in InPool
  BY DEF InPool, Chosen, Leaving
<1>7. SwapLock' /\ (PoolDead => PoolDead')
  <2>1. CASE value[swapSemaphore] = 0
    <3>1. /\ value'[swapSemaphore] = 0 /\ N = Append(Q, current_p)
          /\ Entries(N) = Entries(Q) \cup {current_p}
      <4>1. value'[swapSemaphore] = 0 /\ N = Append(Q, current_p)
        BY <1>2, <2>1
      <4> HIDE DEF Q, N
      <4>2. Entries(Append(Q, current_p)) = Entries(Q) \cup {current_p}
        BY <1>1, EntriesAppend
      <4> QED
        BY <4>1, <4>2
    <3> HIDE DEF Q, N
    <3>2. \A p \in Live : Inside(p)' <=> Inside(p)
      BY <1>4, <1>5, <1>6, <3>1
    <3>4. PoolExclusive'
      BY <1>1, <1>2, <2>1, <3>1, <3>2 DEF SwapLock, PoolExclusive
    <3>5. PICK p \in Live : Inside(p) \/ Label(p) \in Leaving
      BY <1>1, <1>4, <2>1 DEF SwapLock
    <3>6. Inside(p)' \/ Label(p)' \in Leaving
      BY <1>4, <1>5, <1>6, <3>2, <3>5
    <3>7. \A q \in Entries(N) : q \in Live' /\ Label(q)' \in {"markFree", "choose"}
      BY <1>1, <1>2, <1>4, <3>1 DEF SwapLock, Q
    <3>8. SwapLock'
      BY <1>2, <1>4, <3>1, <3>4, <3>6, <3>7 DEF SwapLock, N
    <3> QED
      BY <1>2, <2>1, <3>1, <3>2, <3>8 DEF PoolDead
  <2>2. CASE value[swapSemaphore] = 1
    <3>1. value'[swapSemaphore] = 0 /\ N = <<>> /\ Q = <<>> /\ Entries(N) = {} /\ Entries(Q) = {}
      BY <1>2, <2>2, EntriesOfNothing
    <3> HIDE DEF Q, N
    <3>2. \A p \in Live : ~Inside(p)
      BY <1>1, <2>2 DEF SwapLock, PoolExclusive
    <3>3. \A p \in Live : Inside(p)' <=> p = current_p
      BY <1>4, <1>5, <1>6, <3>1, <3>2
    <3>4. PoolExclusive'
      BY <1>2, <3>1, <3>3 DEF PoolExclusive
    <3>5. SwapLock'
      BY <1>1, <1>2, <1>4, <3>1, <3>3, <3>4 DEF SwapLock, N
    <3> QED
      BY <2>2, <3>5 DEF PoolDead
  <2> QED
    BY <1>1, <2>1, <2>2
<1> QED
  BY <1>2, <1>3, <1>7

\* V on the pool, by the process that is inside: the first in the queue gets
\* inside in its place.
LEMMA Unlocks ==
  ASSUME SupportInv, Verhogen(swapSemaphore),
         NEW m \in {"setSems", "return"}, NEW n \in Nat, Goto(m, n),
         Label(current_p) \in {"unlockTable", "map"}
  PROVE  /\ TypeOK' /\ Accounted' /\ Live' = Live
         /\ \A r \in Sem : r # swapSemaphore => value'[r] = value[r] /\ s_procq'[r] = s_procq[r]
         /\ \A p \in Live : p_semAdd[p] # swapSemaphore => p_semAdd'[p] = p_semAdd[p]
         /\ SwapLock' /\ ~PoolDead
<1> DEFINE Q == s_procq[swapSemaphore]
           N == s_procq'[swapSemaphore]
<1>0. cpu = "RUN"
  BY DEF Verhogen, Running
<1>1. /\ swapSemaphore \in Sem /\ Q \in Seq(Pcb) /\ NoRepeats(Q)
      /\ value[swapSemaphore] \in {0, 1}
      /\ current_p \in Live /\ current_p \in Pcb /\ Root \in Live
      /\ current_p \notin Entries(Q)
      /\ step \in [Pcb -> Labels \X Nat] /\ SwapLock /\ m \in Labels
      /\ \A p \in Entries(Q) : p_semAdd[p] = swapSemaphore
      /\ Label(Root) = "start" => current_p = Root
  BY <1>0, LockFacts DEF Labels, RootLabels, Preparing, UserLabels, Pager
<1>2. /\ \A p \in Live : /\ Inside(p) <=> Label(p) \in InPool /\ p \notin Entries(Q)
                         /\ Inside(p)' <=> Label(p)' \in InPool /\ p \notin Entries(N)
      /\ Label(current_p) \in InPool /\ m \notin InPool
  BY DEF Inside, InPool, Chosen
<1>3. /\ Inside(current_p) /\ value[swapSemaphore] = 0
      /\ \A p \in Live : Inside(p) => p = current_p
  BY <1>1, <1>2 DEF SwapLock, PoolExclusive
<1>4. /\ TypeOK' /\ Accounted' /\ Live' = Live
      /\ \A r \in Sem : r # swapSemaphore => value'[r] = value[r] /\ s_procq'[r] = s_procq[r]
      /\ \/ /\ Q # <<>> /\ value'[swapSemaphore] = 0 /\ N = Tail(Q)
            /\ p_semAdd' = [p_semAdd EXCEPT ![Head(Q)] = NULL]
         \/ /\ Q = <<>> /\ value'[swapSemaphore] = 1
            /\ N = <<>> /\ p_semAdd' = p_semAdd
  BY <1>3, SemCallEffect, SemsDiffer
<1>5. /\ \A p \in Live : Label(p)' = IF p = current_p THEN m ELSE Label(p)
      /\ Label(Root)' # "start" /\ Label(Root) # "start"
  BY <1>1, Moved DEF Label, Live
<1>6. CASE Q # <<>>
  <2>1. /\ value'[swapSemaphore] = 0 /\ N = Tail(Q) /\ Head(Q) \in Entries(Q)
        /\ Entries(Q) = Entries(N) \cup {Head(Q)} /\ Head(Q) \notin Entries(N)
        /\ p_semAdd' = [p_semAdd EXCEPT ![Head(Q)] = NULL]
    BY <1>1, <1>4, <1>6, EntriesTail
  <2> DEFINE h == Head(Q)
  <2> HIDE DEF Q, N
  <2>2. /\ \A q \in Entries(Q) : q \in Live /\ Label(q) \in {"markFree", "choose"} /\ q # current_p
        /\ h \in Entries(Q)
    BY <1>1, <2>1 DEF SwapLock, Q
  <2> HIDE DEF h
  <2>3. \A p \in Live : Inside(p)' <=> p = h
    <3>1. \A q \in Entries(Q) : Label(q)' \in InPool
      BY <1>5, <2>2 DEF InPool
    <3> QED
      BY <1>2, <1>3, <1>5, <2>1, <2>2, <3>1 DEF h
  <2>4. PoolExclusive'
    BY <1>4, <2>1, <2>3 DEF PoolExclusive
  <2>5. \A q \in Entries(N) : q \in Live' /\ Label(q)' \in {"markFree", "choose"}
    BY <1>4, <1>5, <2>1, <2>2
  <2>6. SwapLock'
    BY <1>4, <1>5, <2>1, <2>2, <2>3, <2>4, <2>5 DEF SwapLock, N
  <2>7. \A p \in Live : p_semAdd[p] # swapSemaphore => p_semAdd'[p] = p_semAdd[p]
    BY <1>1, <2>1, <2>2 DEF SupportInv, SemTypeOK, Live, h
  <2> QED
    BY <1>1, <1>3, <1>4, <2>6, <2>7 DEF PoolDead
<1>7. CASE Q = <<>>
  <2>1. value'[swapSemaphore] = 1 /\ N = <<>> /\ Entries(N) = {} /\ Entries(Q) = {} /\ p_semAdd' = p_semAdd
    BY <1>4, <1>7, EntriesOfNothing
  <2> HIDE DEF Q, N
  <2>2. \A p \in Live : ~Inside(p)'
    BY <1>2, <1>3, <1>5, <2>1
  <2>3. PoolExclusive'
    BY <1>4, <2>2 DEF PoolExclusive
  <2>4. SwapLock'
    BY <1>4, <1>5, <2>1, <2>3 DEF SwapLock, N
  <2> QED
    BY <1>1, <1>3, <1>4, <2>1, <2>4 DEF PoolDead
<1> QED
  BY <1>6, <1>7

\* The queues of the devices are not those of processes.
LEMMA DeviceQueuesKept ==
  ASSUME \A r \in Sem : r # swapSemaphore => s_procq'[r] = s_procq[r]
  PROVE  \A u \in Unit : s_procq'[SemOf(u)] = s_procq[SemOf(u)]
BY UnitSem, UnitSemNumbers, SemsDiffer

\* The pager's P.
LEMMA LockPoolKeeps ==
  ASSUME SupportInv, LockPool
  PROVE  SupportInv'
<1>1. /\ cpu = "RUN" /\ Label(current_p) = "fault" /\ current_p # Root
      /\ Passeren(swapSemaphore) /\ Goto("choose", 0)
      /\ UNCHANGED <<asid, program, table, inMemory, overrun, result>>
  BY WhoRuns DEF LockPool, UserLabels, Pager
<1>2. /\ "fault" \in Pager /\ "choose" \in Pager /\ "choose" \notin Chosen
      /\ "choose" \in UserLabels /\ "choose" \in Labels /\ "choose" \notin Services
  BY DEF Labels, UserLabels, Pager, Chosen, Services, SupportCalls
<1>3. /\ current_p \in Live /\ current_p \in Pcb /\ FrameOf(current_p)
      /\ TablesAgree /\ FramesAgree /\ step \in [Pcb -> Labels \X Nat]
      /\ program \in [Asid -> Seq(SupportCalls)]
  BY <1>1, RunningFrame, RunningFacts DEF SupportInv, TablesAgree
<1>4. /\ TypeOK' /\ Accounted' /\ Live' = Live
      /\ \A r \in Sem : r # swapSemaphore => value'[r] = value[r] /\ s_procq'[r] = s_procq[r]
      /\ \A p \in Live : p # current_p => p_semAdd'[p] = p_semAdd[p]
      /\ SwapLock' /\ (PoolDead => PoolDead')
  BY <1>1, Locks
<1>5. TablesAgree'
  BY <1>1, <1>2, <1>3, <1>4, TablesStill
<1>6. UNCHANGED <<sw_asid, frame, owner>>
  BY <1>1 DEF table
<1>7. \A p \in Live \ {Root} : /\ Owns(p)' => Owns(p)
                               /\ Label(p) \in Chosen => sw_asid'[frame[p]] = owner[p]
  BY <1>1, <1>3, <1>6 DEF FramesAgree, FrameOf, Owns
<1>8. ASSUME NEW p \in Live \ {Root}, p = current_p
      PROVE  FrameOf(p)'
  <2>1. Label(p)' = "choose"
    BY <1>1, <1>2, <1>3, <1>8, Moved DEF Label
  <2>2. /\ asid'[p] = asid[p] /\ overrun' = overrun /\ inMemory' = inMemory
        /\ 0 \notin inMemory[asid[p]] \/ asid[p] \in overrun
    BY <1>1, <1>2, <1>3, <1>8 DEF FrameOf
  <2> QED
    BY <1>2, <2>1, <2>2 DEF FrameOf
<1>9. FramesAgree'
  BY <1>1, <1>2, <1>4, <1>6, <1>7, <1>8, FramesKept
<1>10. \A r \in UserSem : r # swapSemaphore => value'[r] = value[r]
  BY <1>4 DEF Sem
<1> QED
  BY <1>1, <1>2, <1>4, <1>5, <1>9, <1>10, DeviceQueuesKept, UProcKeeps

\* The pager's V; the page it makes valid is not the U-proc's first one.
LEMMA UnlockPoolKeeps ==
  ASSUME SupportInv, UnlockPool
  PROVE  SupportInv'
<1>1. /\ cpu = "RUN" /\ Label(current_p) = "map" /\ current_p # Root /\ me \in Asid
      /\ inMemory' = [inMemory EXCEPT ![me] = @ \cup {sup_asid}]
      /\ Verhogen(swapSemaphore) /\ Goto("return", 0)
      /\ UNCHANGED <<asid, program, table, overrun, result>>
  BY WhoRuns DEF UnlockPool, UserLabels, Pager
<1>2. /\ "map" \in Pager /\ "return" \in Pager /\ "return" \notin Chosen
      /\ "return" \in UserLabels /\ "return" \in Labels /\ "return" \notin Services
  BY DEF Labels, UserLabels, Pager, Chosen, Services, SupportCalls
<1>3. /\ current_p \in Live /\ current_p \in Pcb /\ FrameOf(current_p)
      /\ TablesAgree /\ FramesAgree /\ step \in [Pcb -> Labels \X Nat]
      /\ asid[current_p] = me /\ sup_asid \in {0, me}
  BY <1>1, RunningFrame, RunningFacts DEF SupportInv, TablesAgree, me
<1>4. /\ TypeOK' /\ Accounted' /\ Live' = Live
      /\ \A r \in Sem : r # swapSemaphore => value'[r] = value[r] /\ s_procq'[r] = s_procq[r]
      /\ \A p \in Live : p_semAdd[p] # swapSemaphore => p_semAdd'[p] = p_semAdd[p]
      /\ SwapLock' /\ ~PoolDead
  BY <1>1, Unlocks
<1>5. /\ UNCHANGED <<sw_asid, victim, frame, owner>>
      /\ inMemory \in [Asid -> SUBSET (0..(POOLSIZE - 1))]
  BY <1>1, <1>3 DEF table, TablesAgree, SupportTypeOK
<1>6. /\ inMemory' \in [Asid -> SUBSET (0..(POOLSIZE - 1))]
      /\ \A a \in Asid : a # me => inMemory'[a] = inMemory[a]
      /\ inMemory'[me] = inMemory[me] \cup {sup_asid}
  <2>1. sup_asid \in 0..(POOLSIZE - 1)
    BY <1>1, <1>3, CellsType DEF POOLSIZE, Asid
  <2> QED
    BY <1>1, <1>5, <2>1
<1>7. TablesAgree'
  <2>1. UNCHANGED <<asid, overrun, result, program>>
    BY <1>1
  <2>2. /\ program' \in [Asid -> Seq(SupportCalls)]
        /\ sw_asid' \in [Frame -> -1..UPROCMAX] /\ victim' \in -1..(POOLSIZE - 1)
        /\ \A i \in Frame : sw_asid'[i] = NOPROC \/ \E p \in Live : asid[p] = sw_asid'[i]
        /\ frame' \in [Pcb -> Frame] /\ owner' \in [Pcb -> -1..UPROCMAX]
    BY <1>3, <1>5, <2>1 DEF TablesAgree, SupportTypeOK
  <2> QED
    BY <1>1, <1>2, <1>3, <1>4, <1>6, <2>1, <2>2, TablesKept
<1>8. \A p \in Live \ {Root} : /\ Owns(p)' => Owns(p)
                               /\ Label(p) \in Chosen => sw_asid'[frame[p]] = owner[p]
  BY <1>1, <1>3, <1>5 DEF FramesAgree, FrameOf, Owns
<1>9. ASSUME NEW p \in Live \ {Root}, p = current_p
      PROVE  FrameOf(p)'
  <2>1. Label(p)' = "return"
    BY <1>1, <1>2, <1>3, <1>9, Moved DEF Label
  <2>2. /\ asid'[p] = me /\ overrun' = overrun
        /\ 0 \notin inMemory[me] \/ me \in overrun
    BY <1>1, <1>2, <1>3, <1>9 DEF FrameOf
  <2>3. me \notin overrun => sup_asid # 0
    BY <1>1, CellsType DEF sup_asid, Asid
  <2>4. 0 \notin inMemory'[me] \/ me \in overrun
    BY <1>6, <2>2, <2>3
  <2> QED
    BY <1>2, <2>1, <2>2, <2>4 DEF FrameOf
<1>10. FramesAgree'
  BY <1>1, <1>2, <1>4, <1>5, <1>6, <1>8, <1>9, FramesKept
<1>11. \A r \in UserSem : r # swapSemaphore => value'[r] = value[r]
  BY <1>4 DEF Sem
<1> QED
  BY <1>1, <1>2, <1>4, <1>7, <1>10, <1>11, DeviceQueuesKept, UProcKeeps

-----------------------------------------------------------------------------
(* The first process.                                                      *)

\* It is alone while it fills the table and sets the semaphores.
LEMMA PreparingFacts ==
  ASSUME SupportInv, NEW l \in Preparing, At(l)
  PROVE  /\ cpu = "RUN" /\ current_p = Root /\ Label(Root) = l /\ Live = {Root}
         /\ Label(current_p) = l /\ Root \in Live /\ current_p \in Pcb
         /\ TypeOK /\ Accounted /\ TablesAgree /\ SwapLock
         /\ asid[Root] = 0 /\ program \in [Asid -> Seq(SupportCalls)]
<1>1. cpu = "RUN" /\ current_p = Root /\ Label(current_p) = l
  BY WhoRuns DEF RootLabels
<1> QED
  BY <1>1, RunningFacts DEF SupportInv, RootPhase, TablesAgree, SupportTypeOK

\* The first process makes the pool available before anybody can take it,
LEMMA SetSwapSemaphoreKeeps ==
  ASSUME SupportInv, SetSwapSemaphore
  PROVE  SupportInv'
<1>1. "start" \in Preparing /\ "lockTable" \in Preparing /\ "lockTable" \in RootLabels
      /\ "lockTable" \in Labels /\ "lockTable" \notin InPool
  BY DEF Preparing, RootLabels, Labels, InPool, Chosen
<1>2. /\ cpu = "RUN" /\ current_p = Root /\ Label(Root) = "start" /\ Live = {Root}
      /\ current_p \in Pcb /\ TypeOK /\ Accounted /\ TablesAgree /\ SwapLock
      /\ program \in [Asid -> Seq(SupportCalls)]
  BY <1>1, PreparingFacts DEF SetSwapSemaphore
<1>3. /\ value' = [value EXCEPT ![swapSemaphore] = 1] /\ Goto("lockTable", 0)
      /\ UNCHANGED <<cpuVars, queues, procVars, s_procq, p_semAdd, soft_count, status>>
      /\ UNCHANGED <<asid, program, table, inMemory, overrun, result>>
  BY DEF SetSwapSemaphore
<1>4. value \in [Sem -> {0, 1}]
  BY <1>2 DEF TypeOK, SemTypeOK
<1>5. /\ value' \in [Sem -> {0, 1}] /\ value'[swapSemaphore] = 1
      /\ \A s \in DevSem : value'[s] = value[s]
  BY <1>3, <1>4, SemsDiffer DEF Sem
<1>6. TypeOK' /\ Accounted' /\ Live' = Live
  BY <1>2, <1>3, <1>5, ValueSet
<1>7. TablesAgree'
  BY <1>1, <1>2, <1>3, <1>6, TablesStill
<1>8. SwapLock'
  <2>1. Label(Root)' = "lockTable"
    BY <1>1, <1>2, <1>3, Moved DEF TablesAgree, Label
  <2>2. \A p \in Live' : ~Inside(p)'
    BY <1>1, <1>2, <1>6, <2>1 DEF Inside, InPool, Chosen
  <2>3. PoolExclusive'
    BY <2>2 DEF PoolExclusive
  <2>4. s_procq'[swapSemaphore] = <<>> /\ Entries(<<>>) = {}
    BY <1>2, <1>3, EntriesOfNothing DEF SwapLock
  <2> QED
    BY <1>5, <2>1, <2>3, <2>4 DEF SwapLock
<1> QED
  BY <1>1, <1>2, <1>3, <1>6, <1>7, <1>8, PreparingKeeps

\* takes it and gives it back,
LEMMA TableLockKeeps ==
  ASSUME SupportInv, LockTable \/ UnlockTable
  PROVE  SupportInv'
<1>1. /\ {"lockTable", "markFree", "unlockTable", "setSems"} \subseteq Preparing
      /\ Preparing \subseteq RootLabels /\ RootLabels \subseteq Labels
  BY DEF Preparing, RootLabels, Labels
<1>2. PICK l \in Preparing, m \in Preparing :
        /\ At(l) /\ Goto(m, 0)
        /\ \/ l = "lockTable" /\ m = "markFree" /\ Passeren(swapSemaphore)
           \/ l = "unlockTable" /\ m = "setSems" /\ Verhogen(swapSemaphore)
        /\ UNCHANGED <<asid, program, table, inMemory, overrun, result>>
  BY <1>1 DEF LockTable, UnlockTable
<1>3. /\ cpu = "RUN" /\ current_p = Root /\ Label(Root) = l /\ Live = {Root}
      /\ Label(current_p) = l /\ current_p \in Pcb /\ TablesAgree
      /\ program \in [Asid -> Seq(SupportCalls)]
  BY <1>2, PreparingFacts
<1>4. /\ TypeOK' /\ Accounted' /\ Live' = Live /\ SwapLock'
      /\ \A r \in Sem : r # swapSemaphore => value'[r] = value[r] /\ s_procq'[r] = s_procq[r]
  BY <1>2, <1>3, Locks, Unlocks
<1>5. TablesAgree'
  BY <1>1, <1>2, <1>3, <1>4, TablesStill
<1> QED
  BY <1>1, <1>2, <1>3, <1>4, <1>5, DeviceQueuesKept, PreparingKeeps

\* marks half of the frames free in between,
LEMMA MarkFreeKeeps ==
  ASSUME SupportInv, MarkFree
  PROVE  SupportInv'
<1>1. /\ "markFree" \in Preparing /\ "unlockTable" \in Preparing /\ "unlockTable" \in RootLabels
      /\ "unlockTable" \in Labels /\ "unlockTable" \in InPool /\ "markFree" \in InPool
      /\ "markFree" \notin Leaving
  BY DEF Preparing, RootLabels, Labels, InPool, Leaving
<1>2. /\ cpu = "RUN" /\ current_p = Root /\ Label(Root) = "markFree" /\ Live = {Root}
      /\ current_p \in Pcb /\ TypeOK /\ Accounted /\ TablesAgree /\ SwapLock
      /\ program \in [Asid -> Seq(SupportCalls)]
  BY <1>1, PreparingFacts DEF MarkFree
<1>3. /\ sw_asid' = [i \in Frame |-> IF i < UPROCMAX THEN NOPROC ELSE sw_asid[i]]
      /\ UNCHANGED vars /\ Goto("unlockTable", 0)
      /\ UNCHANGED <<asid, program, victim, frame, owner, inMemory, overrun, result>>
  BY DEF MarkFree, OnlySupport
<1>4. TypeOK' /\ Accounted' /\ Live' = Live /\ UNCHANGED <<value, s_procq>>
  BY <1>2, <1>3, StillAccounted DEF Live, vars, procVars, semVars
<1>5. TablesAgree'
  <2>1. SupportTypeOK /\ \A i \in Frame : sw_asid[i] = NOPROC \/ \E p \in Live : asid[p] = sw_asid[i]
    BY <1>2 DEF TablesAgree
  <2>2. \A i \in Frame : sw_asid'[i] = IF i < UPROCMAX THEN NOPROC ELSE sw_asid[i]
    BY <1>3
  <2>3. sw_asid' \in [Frame -> -1..UPROCMAX]
    BY <1>3, <2>1, CellsType DEF SupportTypeOK, NOPROC
  <2>4. \A i \in Frame : sw_asid'[i] = NOPROC \/ \E p \in Live : asid[p] = sw_asid'[i]
    BY <2>1, <2>2
  <2> QED
    BY <1>1, <1>2, <1>3, <1>4, <2>1, <2>3, <2>4, TablesKept DEF SupportTypeOK
<1>6. SwapLock'
  BY <1>1, <1>2, <1>3, <1>4, LockKept
<1> QED
  BY <1>1, <1>2, <1>3, <1>4, <1>5, <1>6, PreparingKeeps

\* and sets the semaphores of the U-procs.
LEMMA SetSemaphoresKeeps ==
  ASSUME SupportInv, SetSemaphores
  PROVE  SupportInv'
<1>1. /\ "setSems" \in Preparing /\ "create" \in RootLabels /\ "create" \in Labels
      /\ "create" \notin InPool /\ "setSems" \notin InPool
      /\ "setSems" \notin Leaving /\ "create" # "start" /\ "setSems" # "start"
  BY DEF Preparing, RootLabels, Labels, InPool, Chosen, Leaving
<1>2. /\ cpu = "RUN" /\ current_p = Root /\ Label(Root) = "setSems" /\ Live = {Root}
      /\ current_p \in Pcb /\ TypeOK /\ Accounted /\ TablesAgree /\ SwapLock
      /\ program \in [Asid -> Seq(SupportCalls)]
  BY <1>1, PreparingFacts DEF SetSemaphores
<1>3. /\ value' = [s \in Sem |-> IF s = mainSemaphore THEN 0
                                 ELSE IF s \in Range(Cells) THEN 1 ELSE value[s]]
      /\ Goto("create", 1)
      /\ UNCHANGED <<cpuVars, queues, procVars, s_procq, p_semAdd, soft_count, status>>
      /\ UNCHANGED <<asid, program, table, inMemory, overrun, result>>
  BY DEF SetSemaphores
<1>4. value \in [Sem -> {0, 1}]
  BY <1>2 DEF TypeOK, SemTypeOK
<1>5. /\ value' \in [Sem -> {0, 1}] /\ value'[mainSemaphore] = 0
      /\ \A a \in Asid : value'[Cell(0, a)] = 1
      /\ value'[swapSemaphore] = value[swapSemaphore]
      /\ \A s \in DevSem : value'[s] = value[s]
  <2>1. value' \in [Sem -> {0, 1}]
    BY <1>3, <1>4
  <2>2. \A s \in DevSem : s \in Sem /\ s # mainSemaphore /\ s \notin Range(Cells)
    BY SemsDiffer, CellsSems, UnitSemNumbers DEF Sem
  <2>3. swapSemaphore \in Sem /\ swapSemaphore # mainSemaphore /\ swapSemaphore \notin Range(Cells)
    BY SemsDiffer, CellsSems
  <2> QED
    BY <1>3, <2>1, <2>2, <2>3, SemsDiffer
<1>6. TypeOK' /\ Accounted' /\ Live' = Live
  BY <1>2, <1>3, <1>5, ValueSet
<1>7. TablesAgree'
  BY <1>1, <1>2, <1>3, <1>6, TablesStill
<1>8. SwapLock'
  BY <1>1, <1>2, <1>3, <1>5, <1>6, LockKept
<1> QED
  BY <1>1, <1>2, <1>3, <1>5, <1>6, <1>7, <1>8, PreparingKeeps

\* It starts a U-proc, with the next asid: nobody has it, and no frame of the
\* table is marked with it.
LEMMA CreateUProcKeeps ==
  ASSUME SupportInv, CreateUProc
  PROVE  SupportInv'
<1> DEFINE a == step[current_p][2]
           next == IF a = UPROCMAX THEN <<"wait", 1>> ELSE <<"create", a + 1>>
<1>1. /\ cpu = "RUN" /\ Label(current_p) = "create" /\ current_p = Root
      /\ CreateProcess(0, TRUE)
      /\ asid' = [p \in Pcb |-> IF p \in pcbFree \ pcbFree' THEN a ELSE asid[p]]
      /\ step' = [p \in Pcb |->
              IF p \in pcbFree \ pcbFree' THEN <<"user", 0>>
              ELSE IF p = current_p THEN next ELSE step[p]]
      /\ UNCHANGED <<program, table, inMemory, overrun, result>>
  BY WhoRuns DEF CreateUProc, RootLabels
<1>2. PICK child \in pcbFree : /\ pcbFree' = pcbFree \ {child}
                               /\ p_semAdd' = [p_semAdd EXCEPT ![child] = NULL]
  BY <1>1 DEF CreateProcess, AllocPcb
<1>3. UNCHANGED <<value, s_procq, status>>
  BY <1>1 DEF CreateProcess
<1>4. /\ TypeOK /\ Accounted /\ TablesAgree /\ RootPhase /\ UProcPhase /\ SwapLock
      /\ FramesAgree /\ FlashQueues /\ Root \in Live
  BY <1>1, RunningFacts DEF SupportInv
<1>5. TypeOK' /\ Accounted'
  <2>1. TypeOK /\ Accounted /\ CreateProcess(0, TRUE)
    BY <1>1, <1>4
  <2>2. \A supportp \in BOOLEAN : CreateProcess(0, supportp) => TypeOK' /\ Accounted'
    BY <2>1, CreateType, CreateAccounted
  <2> QED
    BY <2>1, <2>2, Zenon
<1>6. /\ child \in Pcb /\ Live' = Live \cup {child} /\ child \notin Live /\ child # Root
      /\ pcbFree \ pcbFree' = {child} /\ Live \subseteq Pcb
  BY <1>2, <1>4 DEF Live, TypeOK, ProcTypeOK
<1>7. /\ a \in Asid /\ (\A p \in Live : asid[p] < a)
      /\ step \in [Pcb -> Labels \X Nat] /\ asid \in [Pcb -> 0..UPROCMAX]
      /\ value[mainSemaphore] = 0 /\ \A b \in Asid : value[Cell(0, b)] = 1
  BY <1>1, <1>4 DEF RootPhase, TablesAgree, SupportTypeOK
<1> DEFINE m == IF a = UPROCMAX THEN "wait" ELSE "create"
           n == IF a = UPROCMAX THEN 1 ELSE a + 1
<1>8. /\ next = <<m, n>> /\ m \in {"create", "wait"} /\ n \in Nat
      /\ m = "create" => n \in Asid /\ a < n
      /\ m = "wait" => n = 1
  BY <1>7, CellsType DEF Asid
<1> HIDE DEF a, next, m, n
<1>9. /\ \A p \in Live : asid'[p] = asid[p]
      /\ asid'[child] = a
      /\ step'[Root] = <<m, n>> /\ step'[child] = <<"user", 0>>
      /\ \A p \in Live : p # Root => step'[p] = step[p]
      /\ \A p \in Live : p_semAdd'[p] = p_semAdd[p]
  BY <1>1, <1>2, <1>4, <1>6, <1>8 DEF TypeOK, SemTypeOK
<1>10. UNCHANGED <<sw_asid, victim, frame, owner>>
  BY <1>1 DEF table
<1>11. /\ "create" \in Labels /\ "wait" \in Labels /\ "user" \in Labels /\ "user" \in UserLabels
       /\ m \in RootLabels /\ m \notin Preparing /\ m \notin InPool /\ m \notin Leaving
       /\ "create" \notin InPool /\ "create" \notin Leaving /\ "user" \notin InPool
       /\ m \notin {"markFree", "choose", "written", "loaded"} /\ m # "start"
       /\ "user" \notin Pager /\ "user" \notin Chosen /\ "user" \notin Services
  BY <1>8 DEF Labels, UserLabels, RootLabels, Preparing, InPool, Pager, Chosen, Leaving,
              Services, SupportCalls
<1>12. TablesAgree'
  <2>1. SupportTypeOK /\ a \in 0..UPROCMAX /\ a # 0
    BY <1>4, <1>7, CellsType DEF TablesAgree, Asid
  <2>2. asid' \in [Pcb -> 0..UPROCMAX]
    BY <1>1, <1>7, <2>1 DEF a
  <2>3. \A p \in Live' : asid'[p] = 0 <=> p = Root
    BY <1>6, <1>9, <2>1 DEF SupportTypeOK
  <2>4. \A p, q \in Live' : asid'[p] = asid'[q] => p = q
    <3>1. \A p \in Live : asid[p] # a
      BY <1>7, <2>1 DEF Live
    <3> QED
      BY <1>6, <1>9, <2>1, <3>1 DEF SupportTypeOK
  <2>5. step' \in [Pcb -> Labels \X Nat]
    BY <1>1, <1>7, <1>8, <1>11 DEF next
  <2>6. \A i \in Frame : sw_asid'[i] = NOPROC \/ \E p \in Live' : asid'[p] = sw_asid'[i]
    BY <1>4, <1>6, <1>9, <1>10 DEF TablesAgree
  <2>7. SupportTypeOK'
    BY <1>1, <1>10, <2>1, <2>2, <2>3, <2>4 DEF SupportTypeOK
  <2> QED
    BY <1>1, <1>4, <2>5, <2>6, <2>7 DEF TablesAgree
<1>13. /\ Label(Root)' = m /\ Label(child)' = "user"
       /\ \A p \in Live : p # Root => Label(p)' = Label(p)
  BY <1>9 DEF Label
<1>14. RootPhase'
  <2>1. m = "create" => \A p \in Live' : asid'[p] < n
    <3>1. \A p \in Live : asid[p] \in Int
      BY <1>6, <1>7
    <3> QED
      BY <1>6, <1>7, <1>8, <1>9, <3>1, CellsType DEF Asid
  <2>2. step'[Root][2] = n /\ step'[Root][1] = m
    BY <1>9
  <2>3. Root \in Live'
    BY <1>4, <1>6
  <2> QED
    BY <1>3, <1>7, <1>8, <1>11, <1>13, <2>1, <2>2, <2>3 DEF RootPhase
<1>15. UProcPhase'
  BY <1>4, <1>6, <1>9, <1>11, <1>13 DEF UProcPhase
<1>16. /\ \A p \in Live : Inside(p)' <=> Inside(p)
       /\ ~Inside(child)'
  <2>1. ~Inside(Root) /\ ~Inside(Root)' /\ ~Inside(child)'
    BY <1>1, <1>11, <1>13 DEF Inside, InPool, Chosen
  <2> QED
    BY <1>3, <1>13, <2>1 DEF Inside
<1>17. PoolExclusive' /\ (PoolDead => PoolDead')
  BY <1>3, <1>4, <1>6, <1>16 DEF SwapLock, PoolExclusive, PoolDead
<1>18. SwapLock'
  <2>1. \A p \in Entries(s_procq[swapSemaphore]) : p \in Live' /\ Label(p)' \in {"markFree", "choose"}
    <3>1. \A p \in Entries(s_procq[swapSemaphore]) :
             p \in Live /\ Label(p) \in {"markFree", "choose"} /\ p # Root
      BY <1>1, <1>4 DEF SwapLock
    <3> QED
      BY <1>6, <1>13, <3>1
  <2>2. value[swapSemaphore] = 0 => \E p \in Live' : Inside(p)' \/ Label(p)' \in Leaving
    <3>1. SUFFICES ASSUME value[swapSemaphore] = 0
                   PROVE  \E p \in Live' : Inside(p)' \/ Label(p)' \in Leaving
      OBVIOUS
    <3>2. PICK p \in Live : Inside(p) \/ Label(p) \in Leaving
      BY <1>1, <1>4, <3>1 DEF SwapLock
    <3>3. p # Root \/ Inside(p)
      BY <1>1, <1>11, <3>2
    <3> QED
      BY <1>6, <1>13, <1>16, <3>2, <3>3
  <2> QED
    BY <1>3, <1>4, <1>11, <1>13, <1>17, <2>1, <2>2 DEF SwapLock
<1>19. FramesAgree'
  <2>1. ASSUME NEW p \in Live \ {Root}
        PROVE  FrameOf(p)'
    <3>1. Owns(p)' <=> Owns(p)
      BY <1>9, <1>10 DEF Owns
    <3>2. FrameOf(p) /\ Label(p)' = Label(p) /\ asid'[p] = asid[p]
      BY <1>4, <1>9, <1>13 DEF FramesAgree
    <3> QED
      BY <1>1, <1>10, <1>17, <3>1, <3>2 DEF FrameOf
  <2>2. FrameOf(child)'
    <3>1. \A p \in Live : asid[p] # a
      BY <1>6, <1>7, CellsType DEF Asid
    <3>2. a # NOPROC
      BY <1>7, CellsType DEF Asid, NOPROC
    <3>3. ~Owns(child)'
      BY <1>4, <1>9, <1>10, <3>1, <3>2 DEF TablesAgree, Owns
    <3> QED
      BY <1>11, <1>13, <3>3 DEF FrameOf
  <2> QED
    BY <1>6, <2>1, <2>2 DEF FramesAgree
<1>20. FlashQueues'
  <2>1. ASSUME NEW u \in Unit, NEW p \in Pcb, p \in Entries(s_procq'[SemOf(u)])
        PROVE  p \in Live' /\ Label(p)' \in {"written", "loaded"}
    <3>1. p \in Live /\ Label(p) \in {"written", "loaded"}
      BY <1>3, <1>4, <2>1 DEF FlashQueues
    <3>2. p # Root
      BY <1>1, <3>1
    <3> QED
      BY <1>6, <1>13, <3>1, <3>2
  <2> QED
    BY <2>1 DEF FlashQueues
<1> QED
  BY <1>5, <1>12, <1>14, <1>15, <1>18, <1>19, <1>20 DEF SupportInv, TypeOK, Accounted

\* Then it waits for them, and never gets past the first P,
LEMMA FirstP ==
  ASSUME SupportInv, AwaitUProcs
  PROVE  /\ cpu = "RUN" /\ Label(current_p) = "wait" /\ current_p = Root
         /\ value[mainSemaphore] = 0 /\ Passeren(mainSemaphore) /\ Goto("wait", 2)
         /\ UNCHANGED <<asid, program, table, inMemory, overrun, result>>
<1>1. /\ cpu = "RUN" /\ Label(current_p) = "wait" /\ current_p = Root
      /\ UNCHANGED <<asid, program, table, inMemory, overrun, result>>
  BY WhoRuns DEF AwaitUProcs, RootLabels
<1>2. p_semAdd[Root] = NULL /\ RootPhase
  BY <1>1, RunningFacts DEF SupportInv
<1>3. step[Root][2] = 1 /\ value[mainSemaphore] = 0
  BY <1>1, <1>2, SemsDiffer, NullFacts DEF RootPhase
<1>4. Passeren(mainSemaphore) /\ Goto("wait", 2)
  BY <1>1, <1>3, CellsType DEF AwaitUProcs
<1> QED
  BY <1>1, <1>3, <1>4

\* since nobody gets so far as to V mainSemaphore.
LEMMA AwaitUProcsKeeps ==
  ASSUME SupportInv, AwaitUProcs
  PROVE  SupportInv'
<1>1. /\ cpu = "RUN" /\ Label(current_p) = "wait" /\ current_p = Root
      /\ UNCHANGED <<asid, program, table, inMemory, overrun, result>>
  BY FirstP
<1>2. /\ TablesAgree /\ RootPhase /\ UProcPhase /\ SwapLock /\ FramesAgree /\ FlashQueues
      /\ Root \in Live /\ current_p \in Pcb /\ p_semAdd[Root] = NULL
      /\ step \in [Pcb -> Labels \X Nat] /\ Live \subseteq Pcb
      /\ program \in [Asid -> Seq(SupportCalls)]
  BY <1>1, RunningFacts DEF SupportInv, TablesAgree, Live
<1>3. value[mainSemaphore] = 0
  BY FirstP
<1>4. Passeren(mainSemaphore) /\ Goto("wait", 2)
  BY FirstP
<1>5. /\ TypeOK' /\ Accounted' /\ Live' = Live
      /\ \A r \in Sem : r # mainSemaphore => value'[r] = value[r] /\ s_procq'[r] = s_procq[r]
      /\ value'[mainSemaphore] = 0
      /\ p_semAdd' = [p_semAdd EXCEPT ![current_p] = mainSemaphore]
  BY <1>3, <1>4, SemCallEffect, SemsDiffer
<1>6. "wait" \in Labels /\ "wait" \in RootLabels /\ "wait" \notin Preparing
      /\ "wait" \notin InPool /\ "wait" \notin Leaving
  BY DEF Labels, RootLabels, Preparing, InPool, Chosen, Leaving
<1>7. TablesAgree'
  BY <1>1, <1>2, <1>4, <1>5, <1>6, TablesStill
<1>8. SwapLock' /\ (PoolDead => PoolDead')
  BY <1>1, <1>4, <1>5, <1>6, SemsDiffer, LockKept
<1>9. UNCHANGED <<sw_asid, frame, owner>>
  BY <1>1 DEF table
<1>10. FramesAgree'
  <2>1. \A p \in Live \ {Root} : /\ Owns(p)' => Owns(p)
                                 /\ Label(p) \in Chosen => sw_asid'[frame[p]] = owner[p]
    BY <1>1, <1>2, <1>9 DEF FramesAgree, FrameOf, Owns
  <2> QED
    BY <1>1, <1>4, <1>5, <1>6, <1>8, <1>9, <2>1, FramesKept
<1>11. /\ step'[Root] = <<"wait", 2>> /\ p_semAdd'[Root] = mainSemaphore
       /\ \A p \in Live : p # Root => step'[p] = step[p] /\ p_semAdd'[p] = p_semAdd[p]
  BY <1>1, <1>2, <1>4, <1>5, <1>6, Moved DEF SupportInv, SemTypeOK
<1>12. /\ Label(Root)' = "wait" /\ step'[Root][2] = 2
       /\ \A p \in Live : p # Root => Label(p)' = Label(p)
  BY <1>11 DEF Label
<1>13. RootPhase'
  <2>1. \A a \in Asid : value'[Cell(0, a)] = value[Cell(0, a)] /\ value[Cell(0, a)] = 1
    BY <1>1, <1>2, <1>5, SemsDiffer DEF RootPhase
  <2> QED
    BY <1>2, <1>5, <1>6, <1>11, <1>12, <2>1 DEF RootPhase
<1>14. UProcPhase'
  BY <1>1, <1>2, <1>5, <1>11, <1>12 DEF UProcPhase
<1>15. FlashQueues'
  <2>1. \A u \in Unit : s_procq'[SemOf(u)] = s_procq[SemOf(u)]
    BY <1>5, SemsDiffer, UnitSem, UnitSemNumbers
  <2>2. ASSUME NEW u \in Unit, NEW p \in Pcb, p \in Entries(s_procq'[SemOf(u)])
        PROVE  p \in Live' /\ Label(p)' \in {"written", "loaded"}
    <3>1. p \in Live /\ Label(p) \in {"written", "loaded"}
      BY <1>2, <2>1, <2>2 DEF FlashQueues
    <3>2. p # Root
      BY <1>1, <3>1
    <3> QED
      BY <1>5, <1>12, <3>1, <3>2
  <2> QED
    BY <2>2 DEF FlashQueues
<1> QED
  BY <1>5, <1>7, <1>8, <1>10, <1>13, <1>14, <1>15 DEF SupportInv, TypeOK, Accounted

-----------------------------------------------------------------------------
(* The machine.                                                            *)

\* The nucleus is in order wherever an interrupt can come.
LEMMA InControl ==
  ASSUME SupportInv, cpu # "ADRIFT"
  PROVE  /\ TypeOK /\ Accounted /\ QueuesAgree /\ UnitsAgree /\ TablesAgree
         /\ \A s \in Sem : s_procq[s] \in Seq(Pcb)
         /\ \A s \in Sem, p \in Pcb : p \in Entries(s_procq[s]) => p_semAdd[p] = s
BY DEF SupportInv, Accounted, TypeOK, SemTypeOK, QueuesAgree, Blocked

\* Nothing moves.
LEMMA StutterKeeps ==
  ASSUME SupportInv, UNCHANGED allVars
  PROVE  SupportInv'
<1>1. UNCHANGED vars /\ UNCHANGED supVars
  BY DEF allVars
<1>2. /\ UNCHANGED <<cpu, procVars, semVars, soft_count, status>> /\ Live' = Live
      /\ UNCHANGED <<step, asid, program, table, inMemory, overrun, result>>
  BY <1>1 DEF vars, cpuVars, supVars, Live, procVars
<1>3. CASE cpu = "ADRIFT"
  BY <1>2, <1>3, LostKeeps DEF SupportInv, TablesAgree
<1>4. CASE cpu # "ADRIFT"
  <2>1. TypeOK' /\ Accounted'
    BY <1>1, <1>4, InControl, StillAccounted
  <2>2. TablesAgree'
    BY <1>2 DEF SupportInv, TablesAgree, SupportTypeOK, table
  <2> QED
    BY <1>2, <2>1, <2>2, QuietKeeps, UnitSem DEF semVars
<1> QED
  BY <1>3, <1>4

\* Interrupts wake whom they find in the queues of the devices.
LEMMA InterruptKeeps ==
  ASSUME SupportInv, Boot \/ Interrupt, UNCHANGED supVars
  PROVE  SupportInv'
<1>1. cpu # "ADRIFT" /\ Live' = Live
  BY DEF Boot, Interrupt, DeviceInterrupt, IntervalTimerInterrupt, PLTTimerInterrupt,
         Interruptible, Live, procVars
<1>2. /\ TypeOK /\ Accounted /\ UnitsAgree /\ TablesAgree
      /\ \A s \in Sem : s_procq[s] \in Seq(Pcb)
      /\ \A s \in Sem, p \in Pcb : p \in Entries(s_procq[s]) => p_semAdd[p] = s
      /\ p_semAdd \in [Pcb -> Sem \cup {NULL}] /\ s_procq \in [Sem -> Seq(Pcb)]
      /\ value \in [Sem -> {0, 1}] /\ Live \subseteq Pcb
  BY <1>1, InControl DEF TypeOK, SemTypeOK, Live
<1>3. UNCHANGED <<step, asid, table, overrun, inMemory>> /\ TablesAgree'
  BY <1>1, <1>2 DEF supVars, TablesAgree, SupportTypeOK, table
<1>4. TypeOK'
  BY <1>2, NextType DEF Next
<1>5. CASE Boot
  <2>1. Accounted'
    BY <1>2, <1>5, BootAccounted
  <2> QED
    BY <1>1, <1>3, <1>4, <1>5, <2>1, QuietKeeps DEF Boot, semVars
<1>6. CASE PLTTimerInterrupt
  <2>1. Accounted'
    BY <1>2, <1>6, BackToLow DEF PLTTimerInterrupt
  <2> QED
    BY <1>1, <1>3, <1>4, <1>6, <2>1, QuietKeeps DEF PLTTimerInterrupt, semVars
<1>7. CASE IntervalTimerInterrupt
  <2>1. Accounted'
    BY <1>2, <1>7, IntervalTimerAccounted
  <2>2. /\ s_procq' = [s_procq EXCEPT ![CLOCK] = <<>>]
        /\ p_semAdd' = [p \in Pcb |-> IF p \in Entries(s_procq[CLOCK]) THEN NULL ELSE p_semAdd[p]]
        /\ value' = [value EXCEPT ![CLOCK] = 0]
    BY <1>7 DEF IntervalTimerInterrupt
  <2>3. CLOCK \in Sem /\ CLOCK \notin UserSem
    BY ClockSem, UnitSemNumbers DEF DevSem
  <2>4. \A s \in UserSem : value'[s] = value[s] /\ s_procq'[s] = s_procq[s]
    BY <1>2, <2>2, <2>3 DEF Sem
  <2>5. \A p \in Live : p_semAdd[p] \in UserSem => p_semAdd'[p] = p_semAdd[p]
    BY <1>2, <2>2, <2>3
  <2>6. \A u \in Unit : Entries(s_procq'[SemOf(u)]) \subseteq Entries(s_procq[SemOf(u)])
    BY <1>2, <2>2, <2>3, UnitSem, UnitSemNumbers
  <2> QED
    BY <1>1, <1>3, <1>4, <2>1, <2>4, <2>5, <2>6, QuietKeeps
<1>8. ASSUME NEW d \in Device, DeviceInterrupt(d)
      PROVE  SupportInv'
  <2>1. Accounted'
    BY <1>2, <1>8, DeviceInterruptAccounted
  <2> DEFINE s == SemOf(Served(d))
  <2>2. /\ s \in Sem /\ s \notin UserSem /\ value[s] = 0
        /\ InterruptSem(d[1], d[2], Served(d)[3]) = s
    BY <1>2, ServedUnit, UnitSemNumbers DEF UnitsAgree
  <2>3. SemOp(s, 1, 1)
    BY <1>8, <2>2 DEF DeviceInterrupt
  <2> HIDE DEF s
  <2>4. CASE s_procq[s] # <<>>
    <3>1. /\ p_semAdd' = [p_semAdd EXCEPT ![Head(s_procq[s])] = NULL]
          /\ s_procq' = [s_procq EXCEPT ![s] = Tail(s_procq[s])] /\ value' = value
      BY <2>2, <2>3, <2>4 DEF SemOp, RemoveBlocked
    <3>2. /\ Entries(Tail(s_procq[s])) \subseteq Entries(s_procq[s])
          /\ Head(s_procq[s]) \in Entries(s_procq[s]) /\ Head(s_procq[s]) \in Pcb
      BY <1>2, <2>2, <2>4, EntriesTail
    <3>3. p_semAdd[Head(s_procq[s])] = s
      BY <1>2, <2>2, <3>2
    <3>4. \A r \in UserSem : value'[r] = value[r] /\ s_procq'[r] = s_procq[r]
      BY <1>2, <2>2, <3>1 DEF Sem
    <3>5. \A p \in Live : p_semAdd[p] \in UserSem => p_semAdd'[p] = p_semAdd[p]
      BY <1>2, <2>2, <3>1, <3>3
    <3>6. \A u \in Unit : Entries(s_procq'[SemOf(u)]) \subseteq Entries(s_procq[SemOf(u)])
      BY <1>2, <2>2, <3>1, <3>2, UnitSem
    <3> QED
      BY <1>1, <1>3, <1>4, <2>1, <3>4, <3>5, <3>6, QuietKeeps
  <2>5. CASE s_procq[s] = <<>>
    <3>1. p_semAdd' = p_semAdd /\ s_procq' = s_procq /\ value' = [value EXCEPT ![s] = 1]
      BY <2>2, <2>3, <2>5 DEF SemOp
    <3>2. \A r \in UserSem : value'[r] = value[r] /\ s_procq'[r] = s_procq[r]
      BY <1>2, <2>2, <3>1 DEF Sem
    <3> QED
      BY <1>1, <1>3, <1>4, <2>1, <3>1, <3>2, QuietKeeps
  <2> QED
    BY <2>4, <2>5
<1> QED
  BY <1>5, <1>6, <1>7, <1>8 DEF Interrupt

\* A transfer overwrites a U-proc's support structure, or the nucleus.
LEMMA TransferKeeps ==
  ASSUME SupportInv, NEW u \in Unit,
         \/ CompletesLast(u)
         \/ \E res \in {"READY", "ERROR"} : Completes(u, res)
  PROVE  SupportInv'
<1>1. CASE CompletesLast(u)
  BY <1>1, LostKeeps
     DEF CompletesLast, Lost, supVars, restVars, SupportInv, TablesAgree
<1>2. ASSUME NEW res \in {"READY", "ERROR"}, Completes(u, res)
      PROVE  SupportInv'
  <2> DEFINE hit == IF res = "READY" THEN {a + 1 : a \in Reader(u)} ELSE {}
  <2>1. /\ DeviceCompletes(u) /\ UPROCMAX + 1 \notin hit
        /\ result' = [result EXCEPT ![u] = res] /\ overrun' = overrun \cup hit
        /\ inMemory' = [a \in Asid |-> IF a \in hit THEN {} ELSE inMemory[a]]
        /\ UNCHANGED <<step, asid, program, table>>
    BY <1>2 DEF Completes
  <2>2. /\ cpu # "ADRIFT" /\ Live' = Live /\ UNCHANGED <<value, s_procq, p_semAdd>>
    BY <2>1 DEF DeviceCompletes, Interruptible, Live, procVars, semVars
  <2>3. /\ TypeOK /\ Accounted /\ TablesAgree /\ SemOf(u) \in Sem
        /\ s_procq[SemOf(u)] \in Seq(Pcb)
    BY <2>2, InControl, UnitSem
  <2>4. TypeOK' /\ Accounted'
    BY <2>1, <2>3, NextType, DeviceCompletesAccounted DEF Next
  <2>5. hit \subseteq Asid
    <3>1. Reader(u) \subseteq 0..UPROCMAX
      <4>1. Entries(s_procq[SemOf(u)]) \subseteq Pcb
        BY <2>3, EntriesType
      <4> QED
        BY <2>3, <4>1 DEF Reader, TablesAgree, SupportTypeOK
    <3> QED
      BY <2>1, <3>1, CellsType DEF Asid
  <2> HIDE DEF hit
  <2>6. TablesAgree'
    <3>1. SupportTypeOK'
      <4>1. SupportTypeOK /\ UNCHANGED <<asid, sw_asid, victim, frame, owner>>
        BY <2>1, <2>3 DEF TablesAgree, table
      <4>2. inMemory' \in [Asid -> SUBSET (0..(POOLSIZE - 1))]
        BY <2>1, <4>1 DEF SupportTypeOK
      <4>3. result' \in [Unit -> {"READY", "ERROR"}] /\ overrun' \subseteq Asid
        BY <2>1, <2>5, <4>1 DEF SupportTypeOK
      <4> QED
        BY <2>2, <4>1, <4>2, <4>3 DEF SupportTypeOK
    <3> QED
      BY <2>1, <2>2, <2>3, <3>1 DEF TablesAgree, table
  <2>7. overrun \subseteq overrun' /\ \A a \in Asid : inMemory'[a] \subseteq inMemory[a]
    BY <2>1
  <2> QED
    BY <2>1, <2>2, <2>4, <2>6, <2>7, QuietKeeps
<1> QED
  BY <1>1, <1>2

-----------------------------------------------------------------------------
(* The support level.                                                      *)

\* The support level starts in order,
LEMMA SupportInitInv == SupportInit => SupportInv
<1> SUFFICES ASSUME SupportInit PROVE SupportInv
  OBVIOUS
<1>1. TypeOK /\ Accounted
  BY InitType, InitAccounted DEF SupportInit
<1>2. /\ cpu = "BOOT" /\ pcbFree = Pcb \ {Root} /\ s_procq = [s \in Sem |-> <<>>]
      /\ \A s \in Sem : value[s] = 0
      /\ step = [p \in Pcb |-> IF p = Root THEN <<"start", 0>> ELSE <<"none", 0>>]
      /\ asid = [p \in Pcb |-> 0]
  BY DEF SupportInit, Init
<1>3. Live = {Root} /\ Root \in Pcb
  BY <1>2, NullFacts DEF Live
<1>4. Label(Root) = "start" /\ "start" \in Preparing /\ "start" \in RootLabels
      /\ "start" \in Labels /\ "none" \in Labels /\ "start" \notin InPool
  BY <1>2, <1>3 DEF Label, Preparing, RootLabels, Labels, InPool, Chosen
<1>5. SupportTypeOK
  <2>1. PICK loaded \in Loads, choice \in [Asid -> Programs \cup {<<>>}] :
          inMemory = [a \in Asid |-> IF a \in loaded THEN {0} ELSE {}]
    BY DEF SupportInit
  <2>2. 0 \in 0..(POOLSIZE - 1)
    BY CellsType DEF POOLSIZE
  <2>3. inMemory \in [Asid -> SUBSET (0..(POOLSIZE - 1))]
    BY <2>1, <2>2
  <2>4. /\ sw_asid = [i \in Frame |-> 0] /\ victim = -1
        /\ frame = [p \in Pcb |-> 0] /\ owner = [p \in Pcb |-> 0]
        /\ overrun = {} /\ result = [v \in Unit |-> "READY"]
    BY DEF SupportInit
  <2>5. 0 \in 0..UPROCMAX /\ 0 \in -1..UPROCMAX /\ 0 \in Frame /\ -1 \in -1..(POOLSIZE - 1)
    BY <2>2, CellsType DEF Frame, POOLSIZE
  <2> QED
    BY <1>2, <1>3, <2>3, <2>4, <2>5 DEF SupportTypeOK
<1>6. TablesAgree
  <2>1. program \in [Asid -> Seq(SupportCalls)]
    <3>1. Programs \cup {<<>>} \subseteq Seq(SupportCalls)
      <4>1. Programs \subseteq Seq(SupportCalls)
        BY UProcAssumption, Zenon
      <4>2. <<>> \in Seq(SupportCalls)
        OBVIOUS
      <4> QED
        BY <4>1, <4>2
    <3>2. PICK choice \in [Asid -> Programs \cup {<<>>}] : program = choice
      BY DEF SupportInit
    <3> QED
      BY <3>1, <3>2
  <2>2. step \in [Pcb -> Labels \X Nat]
    BY <1>2, <1>4
  <2>3. sw_asid = [i \in Frame |-> 0]
    BY DEF SupportInit
  <2> QED
    BY <1>2, <1>3, <1>5, <2>1, <2>2, <2>3 DEF TablesAgree
<1>7. RootPhase /\ UProcPhase /\ FramesAgree
  BY <1>3, <1>4 DEF RootPhase, UProcPhase, FramesAgree, Preparing
<1>8. \A s \in Sem : s_procq[s] = <<>> /\ Entries(s_procq[s]) = {}
  BY <1>2, EntriesOfNothing
<1>9. SwapLock
  <2>1. ~Inside(Root)
    BY <1>4 DEF Inside, InPool, Chosen
  <2> QED
    BY <1>2, <1>3, <1>4, <1>8, <2>1, SemsDiffer DEF SwapLock, PoolExclusive
<1>10. FlashQueues
  BY <1>8, UnitSem DEF FlashQueues
<1> QED
  BY <1>1, <1>6, <1>7, <1>9, <1>10 DEF SupportInv, TypeOK, Accounted

\* every step keeps it so,
LEMMA SupportNextInv == SupportInv /\ [SupportNext]_allVars => SupportInv'
BY SetSwapSemaphoreKeeps, TableLockKeeps, MarkFreeKeeps, SetSemaphoresKeeps,
   CreateUProcKeeps, AwaitUProcsKeeps, PageFaultKeeps, LockPoolKeeps, ChooseFrameKeeps,
   FlashCommandKeeps, WrittenKeeps, EnterFrameKeeps, UnlockPoolKeeps, RetryKeeps,
   UserCallKeeps, ServiceKeeps, ReleaseFramesKeeps, UnblockKeeps,
   InterruptKeeps, TransferKeeps, StutterKeeps
   DEF SupportNext, Process, Machine

\* and so it stays.
LEMMA SupportInvHolds == SupportSpec => []SupportInv
BY SupportInitInv, SupportNextInv, PTL DEF SupportSpec

\* The variables of the support level keep to their values, and each U-proc has
\* an asid of its own: the asid is the index of its support structure, of its
\* flash device and of its semaphores.
THEOREM SupportTypeCorrect == SupportSpec => []SupportTypeOK
<1>1. SupportInv => SupportTypeOK
  BY DEF SupportInv, TablesAgree
<1> QED
  BY <1>1, SupportInvHolds, PTL

\* The pager and the first process hold the swap pool one at a time.
THEOREM PoolExclusiveCorrect == SupportSpec => []PoolExclusive
<1>1. SupportInv => PoolExclusive
  BY DEF SupportInv, SwapLock
<1> QED
  BY <1>1, SupportInvHolds, PTL

\* Nobody queues for a pool nobody has taken.
THEOREM PoolWaiterCorrect == SupportSpec => []PoolWaiterHasHolder
<1>1. SupportInv => PoolWaiterHasHolder
  BY SemsDiffer DEF SupportInv, SemTypeOK, SwapLock, PoolWaiterHasHolder, Leaving
<1> QED
  BY <1>1, SupportInvHolds, PTL

\* terminate, without the semaphore of the pool, gives no frame back that the
\* pager of another U-proc has chosen.
THEOREM ChosenFrameCorrect == SupportSpec => []ChosenFrameStable
<1>1. SupportInv => ChosenFrameStable
  <2>1. Label(Root) \in RootLabels => Label(Root) \notin Chosen
    BY DEF RootLabels, Preparing, Chosen
  <2> QED
    BY <2>1 DEF SupportInv, RootPhase, FramesAgree, FrameOf, ChosenFrameStable, Chosen
<1> QED
  BY <1>1, SupportInvHolds, PTL

\* A U-proc that is being terminated has no frame in the table.
THEOREM FramesReturnedCorrect == SupportSpec => []FramesReturned
<1>1. SupportInv => FramesReturned
  <2>1. Label(Root) \in RootLabels => Label(Root) # "V"
    BY DEF RootLabels, Preparing
  <2> QED
    BY <2>1 DEF SupportInv, RootPhase, FramesAgree, FrameOf, FramesReturned, Owns
<1> QED
  BY <1>1, SupportInvHolds, PTL

\* No flash device is given a command while it is at work: the nucleus does not
\* see to it, and the semaphores of the devices are not used; that of the pool
\* is enough.
THEOREM FlashIdleCorrect == SupportSpec => []FlashIdle
<1>1. SupportInv => FlashIdle
  <2> SUFFICES ASSUME SupportInv, NEW p \in Live, Inside(p), Label(p) \in {"write", "read"}
               PROVE  /\ Label(p) = "write" => status[FlashOf(owner[p])] = "READY"
                      /\ Label(p) = "read" =>
                           status[FlashOf(IF asid[p] \in overrun THEN 0 ELSE asid[p])] = "READY"
    BY DEF FlashIdle
  <2>1. \A u \in Unit : status[u] = "READY"
    BY DevicesIdle
  <2>2. p # Root
    BY DEF SupportInv, RootPhase, RootLabels, Preparing
  <2>3. p \in Pcb /\ SupportTypeOK /\ FrameOf(p)
    BY <2>2 DEF SupportInv, FramesAgree, TablesAgree, Live
  <2>4. Label(p) = "write" => owner[p] \in 0..UPROCMAX
    BY <2>3, CellsType DEF SupportTypeOK, FrameOf, NOPROC
  <2>5. (IF asid[p] \in overrun THEN 0 ELSE asid[p]) \in 0..UPROCMAX
    BY <2>3, CellsType DEF SupportTypeOK
  <2> QED
    BY <2>1, <2>4, <2>5, FlashUnit
<1> QED
  BY <1>1, SupportInvHolds, PTL

\* The code does not terminate U-procs: the first V of terminate blocks, and so
\* nobody gets to TERMPROCESS, the first process included.  No control block is
\* ever given back.
THEOREM NobodyTerminates == SupportSpec => [][pcbFree' \subseteq pcbFree]_allVars
<1>1. ASSUME SupportInv, SupportNext
      PROVE  pcbFree' \subseteq pcbFree
  <2>1. ASSUME procVars' = procVars PROVE pcbFree' \subseteq pcbFree
    BY <2>1 DEF procVars
  <2>2. CASE CreateUProc
    BY <2>2 DEF CreateUProc, CreateProcess, AllocPcb
  <2>3. CASE AwaitUProcs
    BY <1>1, <2>1, <2>3, FirstP DEF Passeren
  <2>4. CASE Unblock
    BY <1>1, <2>1, <2>4, FirstV DEF Verhogen
  <2>5. CASE SetSwapSemaphore \/ SetSemaphores
    BY <2>1, <2>5 DEF SetSwapSemaphore, SetSemaphores
  <2>6. CASE LockTable \/ UnlockTable \/ LockPool \/ UnlockPool
    BY <2>1, <2>6 DEF LockTable, UnlockTable, LockPool, UnlockPool, Passeren, Verhogen
  <2>7. CASE WriteBack \/ ReadPage
    BY <2>1, <2>7 DEF WriteBack, ReadPage, DoIO
  <2>8. ASSUME OnlySupport \/ Lost PROVE pcbFree' \subseteq pcbFree
    BY <2>1, <2>8 DEF OnlySupport, Lost, vars, restVars
  <2>9. CASE \/ MarkFree \/ PageFault \/ ChooseFrame \/ Written \/ EnterFrame \/ Retry
             \/ UserCall \/ GetTod \/ TrapExcHandler \/ DeviceCall \/ ReleaseFrames
    BY <2>8, <2>9 DEF MarkFree, PageFault, ChooseFrame, Written, EnterFrame, Retry,
         UserCall, GetTod, TrapExcHandler, DeviceCall, ReleaseFrames, PassUp
  <2>10. CASE Machine
    BY <2>1, <2>8, <2>10 DEF Machine, Boot, Interrupt, DeviceInterrupt,
         IntervalTimerInterrupt, PLTTimerInterrupt, Completes, DeviceCompletes, CompletesLast
  <2> QED
    BY <1>1, <2>2, <2>3, <2>4, <2>5, <2>6, <2>7, <2>9, <2>10 DEF SupportNext, Process
<1> QED
  BY <1>1, SupportInvHolds, PTL DEF SupportSpec
=============================================================================
