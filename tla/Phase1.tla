------------------------------- MODULE Phase1 -------------------------------
(***************************************************************************)
(* Phase 1 at the level of its pointers: the process control blocks of     *)
(* pcb.c and the semaphore descriptors of asl.c on the lists of listx.h.   *)
(*                                                                         *)
(* mem is the memory the two files share.  Each of their functions maps a  *)
(* memory to the one it leaves; the actions are the calls the nucleus      *)
(* makes, in any order its use of them allows, up to the termination of    *)
(* somebody whom Exterminate does not take out of where he is: a block     *)
(* both free and in use is where the module Kernel stops too.  A link that *)
(* the code has not written yet is 0, the value of static storage.         *)
(***************************************************************************)
EXTENDS ListX, Sequences, SequencesExt

CONSTANTS
  MaxProc,    \* MAXPROC: control blocks, and semaphore descriptors
  Key,        \* addresses of the semaphores in use
  Prios,      \* priorities processes are created with
  NULL, Zero  \* the NULL of listx.h, 0xFFFFFFFF, and address 0

Pcb  == 1..MaxProc
Semd == 1..MaxProc

ASSUME TableAssumption == MaxProc \in Nat \ {0}
ASSUME KeyAssumption   == {NULL, Zero} \cap (Key \cup Pcb) = {}

\* The list_heads: three in a control block, two in a descriptor, five heads.
PList(p)  == <<"p_list", p>>
PChild(p) == <<"p_child", p>>
PSib(p)   == <<"p_sib", p>>
SProcq(d) == <<"s_procq", d>>
SLink(d)  == <<"s_link", d>>

pcbFree_h    == <<"pcbFree_h", 0>>
semdFree_h   == <<"semdFree_h", 0>>
semd_h       == <<"semd_h", 0>>
high_ready_q == <<"high_ready_q", 0>>
low_ready_q  == <<"low_ready_q", 0>>

Node == ({"p_list", "p_child", "p_sib"} \X Pcb) \cup ({"s_procq", "s_link"} \X Semd)
          \cup {pcbFree_h, semdFree_h, semd_h, high_ready_q, low_ready_q}

VARIABLES
  mem,
  astray   \* a history variable: the blocks that were freed while in use

vars == <<mem, astray>>

Steps == Cardinality(Node)

\* list_for_each_entry and list_for_each_entry_reverse, link being m.next or
\* m.prev: the nodes of the list of head.  A chain that does not come back to
\* head is followed for as many steps as there are nodes.
ListForEach(link, head) ==
  LET from[k \in 0..Steps] ==
        [n \in Node |-> IF n = head \/ k = 0 THEN <<>> ELSE <<n>> \o from[k - 1][link[n]]]
  IN  from[Steps][link[head]]

Forward(m, head)  == ListForEach(m.next, head)
Backward(m, head) == ListForEach(m.prev, head)

\* The structures in the list of head, in its order, and as a set.
InList(m, head) == LET nodes == Forward(m, head) IN [i \in DOMAIN nodes |-> nodes[i][2]]
Members(m, head) == {n[2] : n \in Range(Forward(m, head))}

\* container_of on the first node of a list that is not empty.
First(m, head) == list_next(m, head, NULL)[2]

-----------------------------------------------------------------------------
(* pcb.c                                                                   *)

initPcbs(m) ==
  LET table[i \in 0..MaxProc] ==
        IF i = 0 THEN INIT_LIST_HEAD(m, pcbFree_h)
        ELSE list_add(table[i - 1], PList(i), pcbFree_h)
  IN  table[MaxProc]

\* The block is lost.
Fault_freePcb(m, p) == m

freePcb(m, p) == list_add(m, PList(p), pcbFree_h)

\* On a list that is not empty.  p_prio and p_pid are left to the caller.
allocPcb(m) ==
  LET p    == First(m, pcbFree_h)
      out  == list_del(m, PList(p))
      tree == INIT_LIST_HEAD(INIT_LIST_HEAD(out, PChild(p)), PSib(p))
  IN  [tree EXCEPT !.p_parent[p] = NULL, !.p_semAdd[p] = NULL]

mkEmptyProcQ(m, head) == INIT_LIST_HEAD(m, head)
emptyProcQ(m, head)   == list_empty(m, head)
headProcQ(m, head)    == IF list_empty(m, head) THEN NULL ELSE First(m, head)

insertProcQ(m, head, p) == list_add_tail(m, PList(p), head)

\* removeProcQ on a queue that is not empty: the result is headProcQ.
removeProcQ(m, head) == list_del(m, PList(First(m, head)))

outProcQ(m, head, p) == IF p \in Members(m, head) THEN list_del(m, PList(p)) ELSE m

emptyChild(m, p) == list_empty(m, PChild(p))

insertChild(m, prnt, p) ==
  list_add([m EXCEPT !.p_parent[p] = prnt], PSib(p), PChild(prnt))

removeChild(m, p) ==
  IF emptyChild(m, p) THEN m
  ELSE LET child == First(m, PChild(p))
       IN  list_del([m EXCEPT !.p_parent[child] = NULL], PSib(child))

\* The child stays in its parent's list.
Fault_outChild(m, p) == [m EXCEPT !.p_parent[p] = NULL]

outChild(m, p) ==
  IF m.p_parent[p] = NULL \/ p \notin Members(m, PChild(m.p_parent[p])) THEN m
  ELSE [list_del(m, PSib(p)) EXCEPT !.p_parent[p] = NULL]

-----------------------------------------------------------------------------
(* asl.c                                                                   *)

\* The descriptor a search of the active list finds for a key.
Described(m, key) == \E d \in Members(m, semd_h) : m.s_key[d] = key

DescriptorOf(m, key) ==
  LET asl == InList(m, semd_h)
  IN  asl[CHOOSE i \in DOMAIN asl :
            m.s_key[asl[i]] = key /\ \A j \in 1..(i - 1) : m.s_key[asl[j]] # key]

initASL(m) ==
  LET table[i \in 0..MaxProc] ==
        IF i = 0 THEN m
        ELSE INIT_LIST_HEAD([list_add(table[i - 1], SLink(i), semdFree_h)
                               EXCEPT !.s_key[i] = NULL], SProcq(i))
  IN  table[MaxProc]

\* insertBlocked returns TRUE: nobody describes the semaphore and no descriptor
\* is free.
SemdsExhausted(m, semAdd) == ~Described(m, semAdd) /\ list_empty(m, semdFree_h)

insertBlocked(m, semAdd, p) ==
  IF Described(m, semAdd) THEN
    list_add_tail([m EXCEPT !.p_semAdd[p] = semAdd], PList(p),
                  SProcq(DescriptorOf(m, semAdd)))
  ELSE IF list_empty(m, semdFree_h) THEN m
  ELSE LET d      == First(m, semdFree_h)
           taken  == [list_del(m, SLink(d)) EXCEPT !.s_key[d] = semAdd, !.p_semAdd[p] = semAdd]
       IN  list_add(list_add(taken, SLink(d), semd_h), PList(p), SProcq(d))

\* The descriptor stays active when its queue has become empty.
Fault_removeBlocked(m, semAdd) ==
  LET d == DescriptorOf(m, semAdd)
  IN  removeProcQ([m EXCEPT !.p_semAdd[First(m, SProcq(d))] = NULL], SProcq(d))

\* removeBlocked of a semaphore that has a descriptor.
removeBlocked(m, semAdd) ==
  LET d    == DescriptorOf(m, semAdd)
      left == [removeProcQ(m, SProcq(d)) EXCEPT !.p_semAdd[First(m, SProcq(d))] = NULL]
  IN  IF ~list_empty(left, SProcq(d)) THEN left
      ELSE list_add(list_del(left, SLink(d)), SLink(d), semdFree_h)

\* A descriptor left without waiters goes back to no list.
Fault_outBlocked(m, p) ==
  IF ~Described(m, m.p_semAdd[p]) THEN m
  ELSE LET d    == DescriptorOf(m, m.p_semAdd[p])
           left == outProcQ(m, SProcq(d), p)
       IN  IF ~list_empty(left, SProcq(d)) THEN left
           ELSE list_del([left EXCEPT !.s_key[d] = NULL], SLink(d))

\* outBlocked leaves p_semAdd as it is.
outBlocked(m, p) ==
  IF ~Described(m, m.p_semAdd[p]) THEN m
  ELSE LET d    == DescriptorOf(m, m.p_semAdd[p])
           left == outProcQ(m, SProcq(d), p)
       IN  IF ~list_empty(left, SProcq(d)) THEN left
           ELSE list_add_tail(list_del([left EXCEPT !.s_key[d] = NULL], SLink(d)),
                              SLink(d), semdFree_h)

headBlocked(m, semAdd) ==
  IF Described(m, semAdd) THEN headProcQ(m, SProcq(DescriptorOf(m, semAdd))) ELSE NULL

-----------------------------------------------------------------------------
(* What the nucleus does with them.                                        *)

\* Create_Process and Exterminate select by any priority but 0, what wakes
\* a process by priority 1.
ReadyQueue(m, p) == IF m.p_prio[p] # 0 THEN high_ready_q ELSE low_ready_q
WakeQueue(m, p)  == IF m.p_prio[p] = 1 THEN high_ready_q ELSE low_ready_q

\* The list part of Exterminate.  calls are the processes of the calls that have
\* not returned, the innermost last: it takes the first child, if there is one,
\* and is called for it, and with no child left it frees the process.
ExterminateStep(e) ==
  IF e.calls = <<>> THEN e
  ELSE LET p == Last(e.calls)
       IN  IF ~emptyChild(e.mem, p)
           THEN [mem |-> removeChild(e.mem, p), calls |-> Append(e.calls, First(e.mem, PChild(p)))]
           ELSE [mem |-> freePcb(outBlocked(outProcQ(outChild(e.mem, p), ReadyQueue(e.mem, p), p), p), p),
                 calls |-> Front(e.calls)]

\* A process is called for once and freed once.
Exterminate(m, p) ==
  LET after[k \in 0..2 * MaxProc] ==
        IF k = 0 THEN [mem |-> m, calls |-> <<p>>] ELSE ExterminateStep(after[k - 1])
  IN  after[2 * MaxProc].mem

\* Static storage: LIST_HEAD gives the three heads of pcb.c and asl.c links to
\* themselves, everything else is 0.
Static ==
  LET link == [n \in Node |-> IF n \in {pcbFree_h, semdFree_h, semd_h} THEN n ELSE Zero]
  IN  [next |-> link, prev |-> link,
       p_parent |-> [p \in Pcb |-> Zero], p_semAdd |-> [p \in Pcb |-> Zero],
       p_prio |-> [p \in Pcb |-> 0], s_key |-> [d \in Semd |-> Zero]]

\* Create_Process, from the control block to the ready queue.
Create(m, prnt, prio) ==
  LET p     == First(m, pcbFree_h)
      child == [insertChild(allocPcb(m), prnt, p) EXCEPT !.p_prio[p] = prio]
  IN  insertProcQ(child, ReadyQueue(child, p), p)

\* main(): the tables, the ready queues and the first process.
Init ==
  LET tables == mkEmptyProcQ(mkEmptyProcQ(initASL(initPcbs(Static)), high_ready_q), low_ready_q)
  IN  /\ mem = insertProcQ(allocPcb(tables), low_ready_q, First(tables, pcbFree_h))
      /\ astray = {}

Allocated(p) == p \notin Members(mem, pcbFree_h)
Ready(p)     == p \in Members(mem, high_ready_q) \cup Members(mem, low_ready_q)
Blocked(p)   == \E d \in Members(mem, semd_h) : p \in Members(mem, SProcq(d))

\* In no queue: the processor's.
Loose(p) == Allocated(p) /\ ~Ready(p) /\ ~Blocked(p)

CreateProcess(p, prio) ==
  /\ ~list_empty(mem, pcbFree_h) /\ Loose(p)
  /\ mem' = Create(mem, p, prio)

\* The scheduler takes the head of a queue when nobody runs.  One process may
\* still be in no queue: one of high priority that waits in yielded.
Dispatch(q) ==
  /\ ~emptyProcQ(mem, q)
  /\ \A p \in Pcb : Loose(p) => mem.p_prio[p] # 0 /\ \A r \in Pcb \ {p} : ~Loose(r)
  /\ mem' = removeProcQ(mem, q)

\* The processor local timer puts whoever runs in the low queue, and Yield a
\* process of low priority.
Preempt(p) == Loose(p) /\ mem' = insertProcQ(mem, low_ready_q, p)

\* Yield puts one of high priority in its queue, or the scheduler does so later,
\* taking it from yielded.
Yield(p) == mem.p_prio[p] # 0 /\ Loose(p) /\ mem' = insertProcQ(mem, high_ready_q, p)

Block(p, s) == Loose(p) /\ mem' = insertBlocked(mem, s, p)

\* Passeren, Verhogen and the interrupts wake whom headBlocked finds.
Wake(s) ==
  LET p == headBlocked(mem, s)
  IN  /\ p # NULL
      /\ mem' = insertProcQ(removeBlocked(mem, s), WakeQueue(mem, p), p)

\* Whom Exterminate(p) reaches through the lists of children.
Progeny(m, p) ==
  {q \in Pcb : \A S \in SUBSET Pcb :
      (p \in S /\ \A c \in Pcb : m.p_parent[c] \in S => c \in S) => q \in S}

\* In a queue in which Exterminate, which goes by their priority, does not look.
Misplaced(m) == {p \in Members(m, low_ready_q) : m.p_prio[p] # 0}

\* Those of a subtree whom Exterminate frees and leaves where they are: in the
\* low queue, with the processor, or in yielded.
Overlooked(p) == {q \in Progeny(mem, p) : q \in Misplaced(mem) \/ Loose(q)}

\* Terminate_Process(0): whoever runs, and does not run on.
TerminateSelf(p) ==
  /\ Loose(p)
  /\ mem' = Exterminate(mem, p) /\ astray' = Overlooked(p) \ {p}

\* Terminate_Process(pid): the caller is resumed.  The first process, the only
\* one without a parent, has no pid to name it by.
TerminatePid(p) ==
  /\ Allocated(p) /\ mem.p_parent[p] # NULL /\ \E caller \in Pcb : Loose(caller)
  /\ mem' = Exterminate(mem, p) /\ astray' = Overlooked(p)

Call ==
  \/ \E p \in Pcb, prio \in Prios : CreateProcess(p, prio)
  \/ \E q \in {high_ready_q, low_ready_q} : Dispatch(q)
  \/ \E p \in Pcb : Preempt(p)
  \/ \E p \in Pcb : Yield(p)
  \/ \E p \in Pcb, s \in Key : Block(p, s)
  \/ \E s \in Key : Wake(s)

Next ==
  /\ astray = {}
  /\ \/ Call /\ UNCHANGED astray
     \/ \E p \in Pcb : TerminateSelf(p)
     \/ \E p \in Pcb : TerminatePid(p)

Spec == Init /\ [][Next]_vars
=============================================================================
