----------------------------- MODULE SupportProps ---------------------------
(***************************************************************************)
(* What the support level must do: properties of the module Support.       *)
(***************************************************************************)
EXTENDS Support, KernelProps

Label(p) == step[p][1]

\* Every variable keeps to the values its declaration and its uses allow; in
\* particular each U-proc has an asid of its own.
SupportTypeOK ==
  /\ asid \in [Pcb -> 0..UPROCMAX]
  /\ \A p \in Live : asid[p] = 0 <=> p = Root
  /\ \A p, q \in Live : asid[p] = asid[q] => p = q
  /\ sw_asid \in [Frame -> -1..UPROCMAX] /\ victim \in -1..(POOLSIZE - 1)
  /\ frame \in [Pcb -> Frame] /\ owner \in [Pcb -> -1..UPROCMAX]
  /\ inMemory \in [Asid -> SUBSET (0..(POOLSIZE - 1))]
  /\ overrun \subseteq Asid /\ result \in [Unit -> {"READY", "ERROR"}]

-----------------------------------------------------------------------------
(* The swap pool.                                                          *)

\* Between the P and the V on swapSemaphore.
Inside(p) ==
  /\ Label(p) \in {"markFree", "unlockTable",
                   "choose", "write", "written", "read", "loaded", "map"}
  /\ p \notin Entries(s_procq[swapSemaphore])

\* The swap pool is one process's at a time, the first one that fills the table
\* included, and its semaphore says so.
PoolExclusive ==
  \A p \in Live : Inside(p) =>
    value[swapSemaphore] = 0 /\ \A q \in Live : Inside(q) => q = p

\* Nobody queues for a pool nobody has: the process that has it is in its
\* handler, or was terminated there by a device error and keeps it.
PoolWaiterHasHolder ==
  s_procq[swapSemaphore] # <<>> =>
    \E p \in Live : Inside(p) \/ Label(p) \in {"TERMINATE", "V"}

\* From the choice of a frame to its entry in the table nobody else changes what
\* the table says of it, although terminate gives frames back without the
\* semaphore: the page written back is still its owner's.
ChosenFrameStable ==
  \A p \in Live : Label(p) \in {"write", "written", "read", "loaded"} /\ Inside(p) =>
    sw_asid[frame[p]] = owner[p]

\* A flash device is idle when the pager gives it a command.  The nucleus loses
\* a command given to a busy device and wakes the wrong process; that it does
\* not happen is up to the semaphore of the pool.
FlashIdle ==
  \A p \in Live : Inside(p) =>
    /\ Label(p) = "write" => status[FlashOf(owner[p])] = "READY"
    /\ Label(p) = "read" =>
         status[FlashOf(IF asid[p] \in overrun THEN 0 ELSE asid[p])] = "READY"

\* A U-proc that is being terminated has no frame left, and gets none.
FramesReturned ==
  \A p \in Live : Label(p) = "V" => \A i \in Frame : sw_asid[i] # asid[p]

-----------------------------------------------------------------------------
(* The end of a U-proc.                                                    *)

\* TERMINATE terminates: a U-proc whose services are released is gone in the
\* end.
TerminateTerminates ==
  \A p \in Pcb : Label(p) = "TERMINATE" ~> p \in pcbFree
=============================================================================
