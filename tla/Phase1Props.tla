----------------------------- MODULE Phase1Props ----------------------------
(***************************************************************************)
(* What the lists of phase 1 must keep, and that they implement the sets   *)
(* and sequences of the module Kernel.                                     *)
(***************************************************************************)
EXTENDS Phase1

ActiveSemds == Members(mem, semd_h)
LivePcbs    == {p \in Pcb : Allocated(p)}

\* The lists in use, each with its kind of entry.  The queue of a descriptor is
\* read whether or not it is active, the children of a block while allocated.
ListsThrough ==
  [field \in {"p_list", "p_sib", "s_link"} |->
     CASE field = "p_list" -> {pcbFree_h, high_ready_q, low_ready_q} \cup {SProcq(d) : d \in Semd}
       [] field = "p_sib"  -> {PChild(p) : p \in LivePcbs}
       [] field = "s_link" -> {semdFree_h, semd_h}]

\* Read backwards a list is the reverse of itself, and its nodes are of the
\* field that its structures are linked by.
Sound(head, field) ==
  /\ Backward(mem, head) = Reverse(Forward(mem, head))
  /\ \A n \in Range(Forward(mem, head)) : n[1] = field

\* No sequence of calls breaks a list or splices two, up to a termination that
\* overlooks somebody: each can be walked both ways, and no control block or
\* descriptor is met in two of them or twice.
ListsIntact ==
  astray = {} => \A field \in DOMAIN ListsThrough :
    LET heads == ListsThrough[field]
    IN  /\ \A l \in heads : Sound(l, field)
        /\ \A l \in heads :
             LET entries == Members(mem, l)
             IN  \A k \in heads : l # k => entries \cap Members(mem, k) = {}

\* A descriptor is active exactly while somebody waits on its semaphore; no
\* semaphore has two, no descriptor is lost, and a blocked process names in
\* p_semAdd the semaphore in whose queue Exterminate will look for it.
SemdsAccounted == astray = {} =>
  /\ Members(mem, semdFree_h) = Semd \ ActiveSemds
  /\ \A d \in ActiveSemds, e \in ActiveSemds : mem.s_key[d] = mem.s_key[e] => d = e
  /\ \A d \in Semd : Members(mem, SProcq(d)) # {} <=> d \in ActiveSemds
  /\ \A d \in ActiveSemds : \A p \in Members(mem, SProcq(d)) : mem.p_semAdd[p] = mem.s_key[d]

\* The two records of the process tree agree: a walk over the children of p
\* meets the processes whose p_parent is p, and a freed block is in no tree.
ChildListsAgree == astray = {} =>
  /\ \A p \in LivePcbs : Members(mem, PChild(p)) = {c \in Pcb : mem.p_parent[c] = p}
  /\ \A p \in Pcb \ LivePcbs : mem.p_parent[p] \in {NULL, Zero}

\* There are as many descriptors as processes, and that is enough: a process
\* about to block never finds them all in use.  The nucleus ignores the TRUE
\* insertBlocked would return.
SemdsSuffice == astray = {} =>
  \A p \in Pcb, s \in Key : Loose(p) => ~SemdsExhausted(mem, s)

\* What ends the model is real: a process that the slice timer, or a wakeup with
\* a priority above 1, has put into the low queue although its priority is not 0
\* is not found by Exterminate, which takes it "out of whatever queue it may be
\* in" (helpers.c:45) by searching one; its block is free and still ready, and
\* the two lists go through it.
OverlookedStaysReady ==
  [][\A p \in Misplaced(mem) \cap astray' :
       p \in Members(mem', pcbFree_h) \cap Members(mem', low_ready_q)]_vars

-----------------------------------------------------------------------------
(* The refinement.  What the module Kernel does not share with phase 1 is  *)
(* given any value; parent is the process InsertChild adopts for.          *)

FieldOrNULL(f) == [p \in Pcb |-> IF f[p] = Zero THEN NULL ELSE f[p]]

\* The queue of the descriptor that is active for s.
Waiters(m, s) ==
  LET ds == {d \in Members(m, semd_h) : m.s_key[d] = s}
  IN  IF ds = {} THEN <<>> ELSE InList(m, SProcq(CHOOSE d \in ds : TRUE))

WaitingFor(s) == Waiters(mem, s)

K(parent) == INSTANCE Kernel WITH
  Root <- 1, UserSem <- Key \ {48}, Device <- {},
  Supports <- {FALSE}, Calls <- {}, Rules <- {},
  cpu <- "BOOT", slice <- FALSE, current_p <- parent, yielded <- NULL,
  high_ready_q <- InList(mem, high_ready_q), low_ready_q <- InList(mem, low_ready_q),
  pcbFree <- Members(mem, pcbFree_h), p_prio <- mem.p_prio,
  p_parent <- FieldOrNULL(mem.p_parent), p_semAdd <- FieldOrNULL(mem.p_semAdd),
  p_supportStruct <- [p \in Pcb |-> FALSE],
  all_processes <- [i \in 1..MaxProc |-> NULL], proc_count <- 0,
  value <- [s \in Key |-> 0], s_procq <- [s \in Key |-> WaitingFor(s)],
  soft_count <- 0, status <- <<>>

\* device_sem[48], the pseudo-clock's, is always in use.
ASSUME ClockAssumption == K(NULL)!CLOCK \in Key

free    == Members(mem, pcbFree_h)
high    == InList(mem, high_ready_q)
low     == InList(mem, low_ready_q)
tree    == FieldOrNULL(mem.p_parent)
waiting == [s \in Key |-> WaitingFor(s)]
semAdds == FieldOrNULL(mem.p_semAdd)
lists   == <<free, high, low, tree, waiting, semAdds>>

Readied(p) == high' = K(NULL)!HighWith(<<p>>) /\ low' = K(NULL)!LowWith(<<p>>)

Created ==
  /\ \E p \in Pcb :
       /\ K(NULL)!AllocPcb(p)
       /\ \E prnt \in Pcb : K(prnt)!InsertChild(p)
       /\ \/ mem'.p_prio[p] # 0 /\ high' = Append(high, p) /\ low' = low
          \/ mem'.p_prio[p] = 0 /\ high' = high /\ low' = Append(low, p)
  /\ UNCHANGED waiting

DispatchedOrReadied ==
  /\ UNCHANGED <<semAdds, tree, free>>
  /\ \/ high # <<>> /\ high' = Tail(high) /\ low' = low
     \/ low # <<>> /\ high' = high /\ low' = Tail(low)
     \/ \E p \in Pcb : \/ mem.p_prio[p] # 0 /\ high' = Append(high, p) /\ low' = low
                       \/ high' = high /\ low' = Append(low, p)
  /\ UNCHANGED waiting

HasBlocked ==
  /\ UNCHANGED <<tree, high, low, free>>
  /\ \E p \in Pcb : LET s == mem'.p_semAdd[p]
                   IN  s \in Key /\ K(NULL)!InsertBlocked(s, p)

HasWoken ==
  /\ UNCHANGED <<tree, free>>
  /\ \E s \in Key : /\ WaitingFor(s) # <<>>
                    /\ K(NULL)!RemoveBlocked(s) /\ Readied(Head(WaitingFor(s)))

Terminated ==
  /\ UNCHANGED semAdds
  /\ \E p \in Pcb \ free :
       LET T == K(NULL)!Subtree(p)
       IN  /\ K(NULL)!FreePcb(T) /\ K(NULL)!OutChild(T) /\ K(NULL)!OutBlocked(T)
           /\ high' = K(NULL)!HighWithout(T) /\ low' = K(NULL)!LowWithout(T)

\* What the nucleus takes a step of the lists for.
KernelStep == DispatchedOrReadied \/ HasBlocked \/ HasWoken \/ Created \/ Terminated

\* Every call does to the lists what the module Kernel says of them: queues are
\* first come first served, and Exterminate takes out a subtree and only that.
\* (A termination that overlooks somebody is a step of Kernel too, its last.)
KernelListsImplemented ==
  /\ \E p \in Pcb : free = Pcb \ {p} /\ high = <<>> /\ low = <<p>>
  /\ [][astray' = {} => KernelStep]_lists
=============================================================================
