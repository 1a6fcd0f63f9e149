---------------------------- MODULE PlacesProofs ----------------------------
(***************************************************************************)
(* Where the processes are, what the kernel counts of them and when the    *)
(* machine may stop: what the nucleus keeps true for any number of         *)
(* processes, devices and semaphores, as long as processes keep to the     *)
(* conventions that it does not enforce.                                   *)
(***************************************************************************)
EXTENDS SemaphoreProofs

(***************************************************************************)
(* The conventions.                                                        *)
(*                                                                         *)
(*   - nobody makes a call the kernel does not know: the scheduler runs    *)
(*     and the caller is in no queue, alive;                               *)
(*   - nobody terminates itself through its own or an ancestor's pid: the  *)
(*     handler resumes its caller, dead or not (run kernel_deadcaller);    *)
(*   - a device has one user at a time and nobody is terminated while it   *)
(*     awaits one: a completion without a waiter stays in the semaphore    *)
(*     and lets the next P pass (run kernel_stalev);                       *)
(*   - all processes have low priority, or yields do not overlap, since    *)
(*     yielded remembers one, and only processes without children          *)
(*     terminate, since Exterminate does not look into yielded and looks   *)
(*     for a process in the ready queue of its priority only.              *)
(***************************************************************************)
Disciplined ==
  /\ "UNKNOWN" \notin Calls
  /\ "TERMPID" \in Calls => "SPARES_ANCESTORS" \in Rules
  /\ "DOIO" \in Calls => {"SPARES_IO", "EXCLUSIVE_DEVICE"} \subseteq Rules
  /\ Prios \subseteq {0} \/ {"LEAVES_ONLY", "ONE_YIELDER"} \subseteq Rules

-----------------------------------------------------------------------------
(* The inductive invariant.                                                *)

Unblocked  == {p \in Live : p_semAdd[p] = NULL}
Blocked(s) == {p \in Live : p_semAdd[p] = s}
Soft       == {p \in Live : p_semAdd[p] \in DevSem}

\* The queue of a semaphore holds those who name it in p_semAdd, once each.
QueuesAgree ==
  \A s \in Sem : Entries(s_procq[s]) = Blocked(s) /\ NoRepeats(s_procq[s])

\* The processor c, the pending yield y and the ready queues hq and lq hold the
\* processes of R, each of them once.
Hold(c, y, hq, lq, R) ==
  /\ NoRepeats(hq) /\ NoRepeats(lq) /\ Entries(hq) \cap Entries(lq) = {}
  /\ {c, y} \cap (Entries(hq) \cup Entries(lq)) = {}
  /\ c = y => c = NULL
  /\ ({c, y} \cap Pcb) \cup Entries(hq) \cup Entries(lq) = R
  /\ Prios \subseteq {0} => hq = <<>> /\ y = NULL

\* They hold exactly the living processes that no semaphore holds.
ReadyAgree == Hold(current_p, yielded, high_ready_q, low_ready_q, Unblocked)

LowPrios == Prios \subseteq {0} => \A p \in Pcb : p_prio[p] = 0

\* A unit is at work, or its interrupt pending, exactly while one process waits
\* for it; the interrupt has not been counted; the device has one user.
UnitsAgree ==
  /\ \A u \in Unit : /\ value[SemOf(u)] = 0
                     /\ Len(s_procq[SemOf(u)]) = IF status[u] = "READY" THEN 0 ELSE 1
  /\ \A u, v \in Unit : u[1] = v[1] /\ u[2] = v[2] /\ status[u] # "READY"
                          /\ status[v] # "READY" => u = v
  /\ "DOIO" \notin Calls => \A u \in Unit : status[u] = "READY"

CountIsSoft == soft_count = Cardinality(Soft)

\* Nobody is ready where nobody runs, and the count decides how it stands.
StandsStill ==
  /\ cpu \notin {"TRAPLOOP", "ADRIFT"}
  /\ cpu \in {"WAIT", "HALT", "PANIC"} => high_ready_q = <<>> /\ low_ready_q = <<>>
  /\ cpu = "WAIT" => soft_count > 0
  /\ cpu = "PANIC" => soft_count = 0

\* Inductive, together with Records: termination trusts p_semAdd and p_prio to
\* find a process, the interrupt handlers trust the value and the queue of the
\* unit's semaphore to find one, and the scheduler trusts the count.
Accounted ==
  /\ QueuesAgree /\ ReadyAgree /\ LowPrios
  /\ ClockAtZero /\ UnitsAgree /\ CountIsSoft /\ StandsStill

-----------------------------------------------------------------------------
(* The ready queues, the processor and the pending yield.                  *)

\* The scheduler dispatches one of the ready processes and keeps the others;
\* with none of them it stops, and then the machine stands still for a reason.
LEMMA HoldScheduled ==
  ASSUME NEW hq \in Seq(Pcb), NEW lq \in Seq(Pcb), NEW y \in Pcb \cup {NULL},
         NEW t, NEW R,
         Hold(NULL, y, hq, lq, R), Scheduler(hq, lq, y, t)
  PROVE  /\ Hold(current_p', yielded', high_ready_q', low_ready_q', R)
         /\ soft_count' \in Nat => StandsStill'
<1>1. CASE hq # <<>>
  <2>1. /\ Head(hq) \in Pcb /\ Entries(hq) = Entries(Tail(hq)) \cup {Head(hq)}
        /\ NoRepeats(Tail(hq)) /\ Head(hq) \notin Entries(Tail(hq))
    BY <1>1, EntriesTail DEF Hold
  <2>2. /\ current_p' = Head(hq) /\ high_ready_q' = Tail(hq) /\ low_ready_q' = lq
        /\ yielded' = y /\ cpu' = "RUN"
    BY <1>1 DEF Scheduler
  <2>3. Hold(Head(hq), y, Tail(hq), lq, R)
    BY <1>1, <2>1, NullFacts DEF Hold
  <2> QED
    BY <2>2, <2>3 DEF StandsStill
<1>2. CASE hq = <<>> /\ lq # <<>>
  <2> DEFINE h == IF y # NULL THEN <<y>> ELSE <<>>
  <2>1. /\ Head(lq) \in Pcb /\ Entries(lq) = Entries(Tail(lq)) \cup {Head(lq)}
        /\ NoRepeats(Tail(lq)) /\ Head(lq) \notin Entries(Tail(lq))
    BY <1>2, EntriesTail DEF Hold
  <2>2. /\ current_p' = Head(lq) /\ high_ready_q' = h /\ low_ready_q' = Tail(lq)
        /\ yielded' = NULL /\ cpu' = "RUN"
    BY <1>2 DEF Scheduler
  <2>3. /\ Entries(h) = {y} \cap Pcb /\ NoRepeats(h)
        /\ y = NULL => h = <<>>
    BY EntriesOfOne, EntriesOfNothing, NullFacts
  <2>4. Entries(Tail(lq)) \subseteq Pcb
    BY <1>2, <2>1, EntriesType
  <2> HIDE DEF h
  <2>5. Hold(Head(lq), NULL, h, Tail(lq), R)
    BY <1>2, <2>1, <2>3, <2>4, EntriesOfNothing, NullFacts DEF Hold
  <2> QED
    BY <2>2, <2>5 DEF StandsStill
<1>3. CASE hq = <<>> /\ lq = <<>>
  <2>1. /\ current_p' = NULL /\ high_ready_q' = hq /\ low_ready_q' = lq
        /\ yielded' = y /\ cpu' = Idle(proc_count', soft_count')
    BY <1>3 DEF Scheduler
  <2> QED
    BY <1>3, <2>1 DEF StandsStill, Idle
<1> QED
  BY <1>1, <1>2, <1>3

\* The processes of w, none of which was ready, join the ready queues.
LEMMA HoldWith ==
  ASSUME CpuTypeOK, LowPrios, NEW c \in Pcb \cup {NULL}, NEW y \in Pcb \cup {NULL}, NEW R,
         NEW w \in Seq(Pcb), NoRepeats(w), Entries(w) \cap R = {},
         Hold(c, y, high_ready_q, low_ready_q, R)
  PROVE  Hold(c, y, HighWith(w), LowWith(w), R \cup Entries(w))
<1> DEFINE h == Only(w, {p \in Pcb : p_prio[p] = 1})
           l == Only(w, {p \in Pcb : p_prio[p] # 1})
<1>1. h \in Seq(Pcb) /\ l \in Seq(Pcb)
  BY OnlyType
<1>2. /\ Entries(h) = Entries(w) \cap {p \in Pcb : p_prio[p] = 1}
      /\ Entries(l) = Entries(w) \cap {p \in Pcb : p_prio[p] # 1}
      /\ NoRepeats(h) /\ NoRepeats(l)
  BY OnlyEntries
<1>3. Entries(w) \subseteq Pcb /\ Entries(h) \cup Entries(l) = Entries(w)
        /\ Entries(h) \cap Entries(l) = {}
  BY <1>2, EntriesType
<1>4. high_ready_q \in Seq(Pcb) /\ low_ready_q \in Seq(Pcb)
  BY DEF CpuTypeOK
<1>5. Prios \subseteq {0} => h = <<>>
  BY <1>1, <1>2, EntriesType DEF LowPrios
<1>6. HighWith(w) = high_ready_q \o h /\ LowWith(w) = low_ready_q \o l
  BY DEF HighWith, LowWith
<1> HIDE DEF h, l
<1>7. /\ Entries(HighWith(w)) = Entries(high_ready_q) \cup Entries(h)
      /\ NoRepeats(high_ready_q) /\ Entries(high_ready_q) \cap Entries(h) = {}
           => NoRepeats(HighWith(w))
  BY <1>1, <1>2, <1>4, <1>6, EntriesConcat
<1>8. /\ Entries(LowWith(w)) = Entries(low_ready_q) \cup Entries(l)
      /\ NoRepeats(low_ready_q) /\ Entries(low_ready_q) \cap Entries(l) = {}
           => NoRepeats(LowWith(w))
  BY <1>1, <1>2, <1>4, <1>6, EntriesConcat
<1>9. Prios \subseteq {0} => HighWith(w) = <<>> /\ y = NULL
  BY <1>5, <1>6 DEF Hold
<1>10. NULL \notin Entries(w) /\ Entries(high_ready_q) \cup Entries(low_ready_q) \subseteq R
         /\ {c, y} \cap Pcb \subseteq R
  BY <1>3, NullFacts DEF Hold
<1> QED
  BY <1>3, <1>7, <1>8, <1>9, <1>10 DEF Hold

\* outProcQ on every member of K, where each of them that is ready is in the
\* queue its priority names and none has a yield pending.
LEMMA HoldWithout ==
  ASSUME CpuTypeOK, NEW K \in SUBSET Pcb, NEW c, NEW y, NEW R,
         \A p \in K : /\ p \in Entries(high_ready_q) => p_prio[p] # 0
                      /\ p \in Entries(low_ready_q) => p_prio[p] = 0
                      /\ p # y,
         Hold(c, y, high_ready_q, low_ready_q, R)
  PROVE  Hold(IF c \in K THEN NULL ELSE c, y, HighWithout(K), LowWithout(K), R \ K)
<1>1. high_ready_q \in Seq(Pcb) /\ low_ready_q \in Seq(Pcb)
  BY DEF CpuTypeOK
<1>2. /\ Entries(HighWithout(K)) = Entries(high_ready_q) \ K
      /\ NoRepeats(HighWithout(K))
  <2>1. /\ Entries(HighWithout(K)) = Entries(high_ready_q) \cap (Pcb \ {p \in K : p_prio[p] # 0})
        /\ NoRepeats(HighWithout(K))
    BY <1>1, OnlyEntries DEF HighWithout, Hold
  <2>2. Entries(high_ready_q) \subseteq Pcb
    BY <1>1, EntriesType
  <2> QED
    BY <2>1, <2>2
<1>3. /\ Entries(LowWithout(K)) = Entries(low_ready_q) \ K
      /\ NoRepeats(LowWithout(K))
  <2>1. /\ Entries(LowWithout(K)) = Entries(low_ready_q) \cap (Pcb \ {p \in K : p_prio[p] = 0})
        /\ NoRepeats(LowWithout(K))
    BY <1>1, OnlyEntries DEF LowWithout, Hold
  <2>2. Entries(low_ready_q) \subseteq Pcb
    BY <1>1, EntriesType
  <2> QED
    BY <2>1, <2>2
<1>4. Prios \subseteq {0} => HighWithout(K) = <<>> /\ y = NULL
  BY OnlyOfEmpty DEF HighWithout, Hold
<1>5. NULL \notin Entries(high_ready_q) \cup Entries(low_ready_q)
  BY <1>1, EntriesType, NullFacts
<1> QED
  BY <1>2, <1>3, <1>4, <1>5, NullFacts DEF Hold

\* The running process gives the processor up.
LEMMA HoldLeft ==
  ASSUME NEW c, NEW y, NEW hq \in Seq(Pcb), NEW lq \in Seq(Pcb), NEW R, Hold(c, y, hq, lq, R)
  PROVE  Hold(NULL, y, hq, lq, R \ {c})
<1>1. NULL \notin Entries(hq) \cup Entries(lq)
  BY EntriesType, NullFacts
<1> QED
  BY <1>1, NullFacts DEF Hold

\* A process that was not ready goes to the end of a ready queue, or into the
\* pending yield, which is free.
LEMMA HoldMore ==
  ASSUME NEW c \in Pcb \cup {NULL}, NEW y \in Pcb \cup {NULL},
         NEW hq \in Seq(Pcb), NEW lq \in Seq(Pcb), NEW R, NEW p \in Pcb, p \notin R,
         Hold(c, y, hq, lq, R)
  PROVE  /\ Hold(c, y, hq, Append(lq, p), R \cup {p})
         /\ ~(Prios \subseteq {0}) => Hold(c, y, Append(hq, p), lq, R \cup {p})
         /\ ~(Prios \subseteq {0}) /\ y = NULL => Hold(c, p, hq, lq, R \cup {p})
<1>1. p \notin Entries(hq) /\ p \notin Entries(lq) /\ p # c /\ p # y
  BY DEF Hold
<1>2. /\ Entries(Append(lq, p)) = Entries(lq) \cup {p} /\ NoRepeats(Append(lq, p))
      /\ Entries(Append(hq, p)) = Entries(hq) \cup {p} /\ NoRepeats(Append(hq, p))
  BY <1>1, EntriesAppend DEF Hold
<1>3. Hold(c, y, hq, Append(lq, p), R \cup {p})
  BY <1>1, <1>2 DEF Hold
<1>4. ~(Prios \subseteq {0}) => Hold(c, y, Append(hq, p), lq, R \cup {p})
  BY <1>1, <1>2 DEF Hold
<1>5. ~(Prios \subseteq {0}) /\ y = NULL => Hold(c, p, hq, lq, R \cup {p})
  BY <1>1, NullFacts DEF Hold
<1> QED
  BY <1>3, <1>4, <1>5

-----------------------------------------------------------------------------
(* The semaphores.                                                         *)

\* The numbers of the devices' semaphores: no two units share one, and none of
\* them belongs to processes.
LEMMA UnitSemNumbers ==
  /\ \A u \in Unit : SemOf(u) \in DevSem /\ SemOf(u) # CLOCK
  /\ \A u, v \in Unit : SemOf(u) = SemOf(v) => u = v
  /\ UserSem \cap DevSem = {}
<1>1. ASSUME NEW u \in Unit
      PROVE  \E d, k :
               /\ u = <<d[1], d[2], k>>
               /\ d[1] \in Line /\ d[2] \in Number /\ k \in UnitsOf(d[1])
               /\ SemOf(u) = CommandSem(CommandAddr(d[1], d[2], k))
  BY DeviceAssumption DEF Unit, SemOf
<1>2. \A u \in Unit : SemOf(u) \in 0..47
  BY <1>1, SemNumbersDistinct
<1>3. ASSUME NEW u \in Unit, NEW v \in Unit, SemOf(u) = SemOf(v)
      PROVE  u = v
  <2>1. PICK d, k :
               /\ u = <<d[1], d[2], k>>
               /\ d[1] \in Line /\ d[2] \in Number /\ k \in UnitsOf(d[1])
               /\ SemOf(u) = CommandSem(CommandAddr(d[1], d[2], k))
    BY <1>1
  <2>2. PICK e, j :
               /\ v = <<e[1], e[2], j>>
               /\ e[1] \in Line /\ e[2] \in Number /\ j \in UnitsOf(e[1])
               /\ SemOf(v) = CommandSem(CommandAddr(e[1], e[2], j))
    BY <1>1
  <2>3. d[1] = e[1] /\ d[2] = e[2] /\ k = j
    <3>1. CommandSem(CommandAddr(d[1], d[2], k)) = CommandSem(CommandAddr(e[1], e[2], j))
      BY <1>3, <2>1, <2>2
    <3> QED
      BY <2>1, <2>2, <3>1, SemNumbersDistinct
  <2> QED
    BY <2>1, <2>2, <2>3
<1>4. DevSem \subseteq Int
  BY <1>2 DEF DevSem, CLOCK
<1> QED
  BY <1>2, <1>3, <1>4, SemAssumption DEF DevSem, CLOCK

\* A semaphore that takes no step keeps its waiters, and who waits stays.
LEMMA SemsKept ==
  ASSUME Accounted, UNCHANGED <<procVars, semVars, soft_count, status>>
  PROVE  /\ QueuesAgree' /\ LowPrios' /\ ClockAtZero' /\ UnitsAgree' /\ CountIsSoft'
         /\ Unblocked' = Unblocked
<1>1. Live' = Live
  BY DEF Live, procVars
<1>2. QueuesAgree' /\ CountIsSoft' /\ Unblocked' = Unblocked
  BY <1>1 DEF Accounted, QueuesAgree, CountIsSoft, Blocked, Soft, Unblocked, semVars
<1> QED
  BY <1>2 DEF Accounted, LowPrios, ClockAtZero, UnitsAgree, semVars, procVars

\* An operation that blocks: the running process waits where its p_semAdd says.
LEMMA SemOpBlocks ==
  ASSUME TypeOK, QueuesAgree, current_p \in Unblocked, UNCHANGED procVars,
         NEW s \in Sem, NEW full, NEW next, value[s] = full, SemOp(s, full, next)
  PROVE  /\ QueuesAgree' /\ Unblocked' = Unblocked \ {current_p}
         /\ value' = value
         /\ s_procq' = [s_procq EXCEPT ![s] = Append(@, current_p)]
         /\ Soft' = Soft \cup (IF s \in DevSem THEN {current_p} ELSE {})
         /\ current_p \notin Soft
<1>1. /\ s_procq' = [s_procq EXCEPT ![s] = Append(@, current_p)]
      /\ p_semAdd' = [p_semAdd EXCEPT ![current_p] = s] /\ value' = value
  BY DEF SemOp, InsertBlocked
<1>2. Live' = Live
  BY DEF Live, procVars
<1>3. /\ current_p \in Live /\ p_semAdd[current_p] = NULL /\ current_p \in Pcb
      /\ p_semAdd \in [Pcb -> Sem \cup {NULL}] /\ s_procq \in [Sem -> Seq(Pcb)]
      /\ s # NULL /\ NULL \notin DevSem
  BY NullFacts DEF Unblocked, Live, TypeOK, SemTypeOK, Sem
<1>4. \A p \in Pcb : p_semAdd'[p] = IF p = current_p THEN s ELSE p_semAdd[p]
  BY <1>1, <1>3
<1>5. ASSUME NEW r \in Sem
      PROVE  Entries(s_procq'[r]) = Blocked(r)' /\ NoRepeats(s_procq'[r])
  <2>0. r # NULL
    BY NullFacts
  <2>1. Blocked(r)' = IF r = s THEN Blocked(r) \cup {current_p} ELSE Blocked(r)
    BY <1>2, <1>3, <1>4, <2>0 DEF Blocked, Live
  <2>2. Entries(s_procq[r]) = Blocked(r) /\ NoRepeats(s_procq[r])
    BY DEF QueuesAgree
  <2>3. CASE r = s
    <3>1. s_procq'[r] = Append(s_procq[r], current_p)
      BY <1>1, <1>3, <2>3
    <3>2. current_p \notin Entries(s_procq[r])
      BY <1>3, <2>0, <2>2 DEF Blocked
    <3> QED
      BY <1>3, <2>1, <2>2, <2>3, <3>1, <3>2, EntriesAppend
  <2>4. CASE r # s
    BY <1>1, <1>3, <2>1, <2>2, <2>4
  <2> QED
    BY <2>3, <2>4
<1>6. QueuesAgree'
  BY <1>5 DEF QueuesAgree
<1>7. Unblocked' = Unblocked \ {current_p}
  BY <1>2, <1>3, <1>4 DEF Unblocked, Live
<1>8. /\ Soft' = Soft \cup (IF s \in DevSem THEN {current_p} ELSE {})
      /\ current_p \notin Soft
  BY <1>2, <1>3, <1>4 DEF Soft, Live
<1> QED
  BY <1>1, <1>6, <1>7, <1>8

\* An operation that does not: the first waiter, if there is one, waits no more.
LEMMA SemOpWakes ==
  ASSUME TypeOK, QueuesAgree, UNCHANGED procVars,
         NEW s \in Sem, NEW full, NEW next, value[s] # full, SemOp(s, full, next)
  PROVE  /\ QueuesAgree' /\ Unblocked' = Unblocked \cup Entries(Woken(s, full))
         /\ Entries(Woken(s, full)) \cap Unblocked = {} /\ NoRepeats(Woken(s, full))
         /\ Soft' = Soft \ Entries(Woken(s, full))
         /\ s \in DevSem => Entries(Woken(s, full)) \subseteq Soft
         /\ s \notin DevSem => Soft' = Soft
         /\ s_procq[s] # <<>> =>
              value' = value /\ s_procq' = [s_procq EXCEPT ![s] = Tail(@)]
         /\ s_procq[s] = <<>> =>
              value' = [value EXCEPT ![s] = next] /\ s_procq' = s_procq
<1>1. Live' = Live
  BY DEF Live, procVars
<1>2. /\ p_semAdd \in [Pcb -> Sem \cup {NULL}] /\ s_procq \in [Sem -> Seq(Pcb)]
      /\ s # NULL /\ NULL \notin DevSem
  BY NullFacts DEF TypeOK, SemTypeOK, Sem
<1>3. CASE s_procq[s] = <<>>
  <2>1. Woken(s, full) = <<>>
    BY <1>3 DEF Woken
  <2>2. UNCHANGED <<s_procq, p_semAdd>> /\ value' = [value EXCEPT ![s] = next]
    BY <1>3 DEF SemOp
  <2>3. QueuesAgree' /\ Unblocked' = Unblocked /\ Soft' = Soft
    BY <1>1, <2>2 DEF QueuesAgree, Blocked, Unblocked, Soft
  <2> QED
    BY <1>3, <2>1, <2>2, <2>3, EntriesOfNothing
<1>4. CASE s_procq[s] # <<>>
  <2> DEFINE h == Head(s_procq[s])
  <2>1. Woken(s, full) = <<h>>
    BY <1>4 DEF Woken
  <2>2. /\ s_procq' = [s_procq EXCEPT ![s] = Tail(@)]
        /\ p_semAdd' = [p_semAdd EXCEPT ![h] = NULL] /\ value' = value
    BY <1>4 DEF SemOp, RemoveBlocked
  <2>3. Entries(s_procq[s]) = Blocked(s) /\ NoRepeats(s_procq[s])
    BY DEF QueuesAgree
  <2>4. /\ h \in Pcb /\ Blocked(s) = Entries(Tail(s_procq[s])) \cup {h}
        /\ h \notin Entries(Tail(s_procq[s])) /\ NoRepeats(Tail(s_procq[s]))
    BY <1>2, <1>4, <2>3, EntriesTail
  <2> HIDE DEF h
  <2>5. h \in Live /\ p_semAdd[h] = s
    BY <2>4 DEF Blocked
  <2>6. \A p \in Pcb : p_semAdd'[p] = IF p = h THEN NULL ELSE p_semAdd[p]
    BY <1>2, <2>2
  <2>7. ASSUME NEW r \in Sem
        PROVE  Entries(s_procq'[r]) = Blocked(r)' /\ NoRepeats(s_procq'[r])
    <3>0. r # NULL
      BY NullFacts
    <3>1. Blocked(r)' = Blocked(r) \ {h}
      BY <1>1, <2>6, <3>0 DEF Blocked, Live
    <3>2. CASE r = s
      BY <1>2, <2>2, <2>4, <3>1, <3>2
    <3>3. CASE r # s
      <4>1. h \notin Blocked(r)
        BY <2>5, <3>3 DEF Blocked
      <4> QED
        BY <1>2, <2>2, <3>1, <3>3, <4>1 DEF QueuesAgree
    <3> QED
      BY <3>2, <3>3
  <2>8. QueuesAgree'
    BY <2>7 DEF QueuesAgree
  <2>9. Unblocked' = Unblocked \cup {h} /\ h \notin Unblocked
    BY <1>1, <1>2, <2>5, <2>6 DEF Unblocked, Live
  <2>10. Soft' = Soft \ {h} /\ (s \in DevSem <=> h \in Soft)
    BY <1>1, <1>2, <2>5, <2>6 DEF Soft, Live
  <2>11. Entries(<<h>>) = {h} /\ NoRepeats(<<h>>)
    BY <2>4, EntriesOfOne
  <2> QED
    BY <1>4, <2>1, <2>2, <2>8, <2>9, <2>10, <2>11
<1> QED
  BY <1>3, <1>4

\* Every member of the family K leaves the semaphore it waits for.
LEMMA ExterminateSems ==
  ASSUME TypeOK, QueuesAgree, NEW K \in SUBSET Live, Exterminate(K)
  PROVE  /\ QueuesAgree' /\ Unblocked' = Unblocked \ K /\ Soft' = Soft \ K
         /\ SoftBlocked(K) = Soft \cap K
         /\ \A s \in Sem : Blocked(s) \cap K = {} => s_procq'[s] = s_procq[s]
<1>1. Live' = Live \ K /\ p_semAdd' = p_semAdd
  BY DEF Live, Exterminate, FreePcb
<1>2. \A s \in Sem : s_procq'[s] = Only(s_procq[s], Pcb \ {p \in K : p_semAdd[p] = s})
  BY DEF Exterminate, OutBlocked
<1>3. \A s \in Sem : s_procq[s] \in Seq(Pcb)
  BY DEF TypeOK, SemTypeOK
<1>4. ASSUME NEW s \in Sem
      PROVE  Entries(s_procq'[s]) = Blocked(s)' /\ NoRepeats(s_procq'[s])
  <2>1. Blocked(s)' = Blocked(s) \ K
    BY <1>1 DEF Blocked
  <2>2. Entries(s_procq[s]) = Blocked(s) /\ NoRepeats(s_procq[s])
    BY DEF QueuesAgree
  <2>3. /\ Entries(s_procq'[s]) = Blocked(s) \cap (Pcb \ {p \in K : p_semAdd[p] = s})
        /\ NoRepeats(s_procq'[s])
    <3> DEFINE S == Pcb \ {p \in K : p_semAdd[p] = s}
    <3>1. s_procq[s] \in Seq(Pcb) /\ s_procq'[s] = Only(s_procq[s], S)
      BY <1>2, <1>3
    <3> HIDE DEF S
    <3>2. /\ Entries(s_procq'[s]) = Blocked(s) \cap S
          /\ NoRepeats(s_procq'[s])
      BY <2>2, <3>1, OnlyEntries
    <3> QED
      BY <3>2 DEF S
  <2> QED
    BY <2>1, <2>3 DEF Blocked, Live
<1>5. ASSUME NEW s \in Sem, Blocked(s) \cap K = {}
      PROVE  s_procq'[s] = s_procq[s]
  <2>1. {p \in K : p_semAdd[p] = s} = {}
    BY <1>5 DEF Blocked
  <2>2. Pcb \ {p \in K : p_semAdd[p] = s} = Pcb
    BY <2>1
  <2>3. s_procq[s] \in Seq(Pcb)
    BY <1>3
  <2>4. Only(s_procq[s], Pcb) = s_procq[s]
    BY <2>3, OnlyAll
  <2> QED
    BY <1>2, <2>2, <2>4
<1>6. QueuesAgree'
  BY <1>4 DEF QueuesAgree
<1>7. /\ Unblocked' = Unblocked \ K /\ Soft' = Soft \ K
      /\ SoftBlocked(K) = Soft \cap K
  BY <1>1 DEF Unblocked, Soft, SoftBlocked
<1> QED
  BY <1>5, <1>6, <1>7

-----------------------------------------------------------------------------
(* System calls and ticks that only move the running process.              *)

\* Those who wait for devices and the clock are finitely many.
LEMMA SoftFinite ==
  /\ IsFiniteSet(Soft) /\ Cardinality(Soft) \in Nat
  /\ CountIsSoft => soft_count \in Nat
<1>1. Soft \subseteq Pcb
  BY DEF Soft, Live
<1>2. IsFiniteSet(Soft) /\ Cardinality(Soft) \in Nat
  BY <1>1, PcbAssumption, FS_Subset, FS_CardinalityType
<1> QED
  BY <1>2 DEF CountIsSoft

\* The running process is alive and waits for no semaphore.
LEMMA CurrentUnblocked ==
  ASSUME TypeOK, ReadyAgree, cpu = "RUN"
  PROVE  current_p \in Unblocked /\ current_p \in Live /\ current_p \in Pcb
<1>1. current_p \in Pcb
  BY RunningPcb
<1> QED
  BY <1>1 DEF ReadyAgree, Hold, Unblocked

\* The scheduler, called when nothing but the ready processes' places changed.
LEMMA Reschedule ==
  ASSUME Accounted, UNCHANGED <<procVars, semVars, soft_count, status>>,
         NEW hq \in Seq(Pcb), NEW lq \in Seq(Pcb), NEW y \in Pcb \cup {NULL}, NEW t,
         Hold(NULL, y, hq, lq, Unblocked), Scheduler(hq, lq, y, t)
  PROVE  Accounted'
<1>1. soft_count' \in Nat
  BY SoftFinite DEF Accounted
<1>2. /\ Hold(current_p', yielded', high_ready_q', low_ready_q', Unblocked)
      /\ StandsStill'
  BY <1>1, HoldScheduled
<1>3. /\ QueuesAgree' /\ LowPrios' /\ ClockAtZero' /\ UnitsAgree' /\ CountIsSoft'
      /\ Unblocked' = Unblocked
  BY SemsKept
<1> QED
  BY <1>2, <1>3 DEF Accounted, ReadyAgree

\* A preempted process, and one of low priority that yields, stays ready.
LEMMA BackToLow ==
  ASSUME TypeOK, Accounted, cpu = "RUN", NEW t,
         UNCHANGED <<procVars, semVars, soft_count, status>>,
         Scheduler(high_ready_q, Append(low_ready_q, current_p), yielded, t)
  PROVE  Accounted'
<1>1. current_p \in Unblocked /\ current_p \in Pcb
  BY CurrentUnblocked DEF Accounted
<1>2. /\ high_ready_q \in Seq(Pcb) /\ low_ready_q \in Seq(Pcb) /\ yielded \in Pcb \cup {NULL}
      /\ Append(low_ready_q, current_p) \in Seq(Pcb)
  BY <1>1 DEF TypeOK, CpuTypeOK
<1>3. Hold(NULL, yielded, high_ready_q, low_ready_q, Unblocked \ {current_p})
  BY <1>2, HoldLeft DEF Accounted, ReadyAgree
<1>4. Hold(NULL, yielded, high_ready_q, Append(low_ready_q, current_p),
           (Unblocked \ {current_p}) \cup {current_p})
  BY <1>1, <1>2, <1>3, HoldMore
<1>5. (Unblocked \ {current_p}) \cup {current_p} = Unblocked
  BY <1>1
<1> QED
  BY <1>2, <1>4, <1>5, Reschedule

\* A yield keeps the process somewhere on each of its three paths.
LEMMA YieldAccounted ==
  ASSUME TypeOK, Disciplined, Accounted, Yield
  PROVE  Accounted'
<1>1. /\ cpu = "RUN" /\ UNCHANGED <<procVars, semVars, soft_count, status>>
      /\ current_p \in Unblocked /\ current_p \in Pcb
  BY CurrentUnblocked DEF Yield, Running, Accounted
<1>2. /\ high_ready_q \in Seq(Pcb) /\ low_ready_q \in Seq(Pcb) /\ <<>> \in Seq(Pcb)
      /\ yielded \in Pcb \cup {NULL} /\ Append(high_ready_q, current_p) \in Seq(Pcb)
  BY <1>1 DEF TypeOK, CpuTypeOK
<1>3. Hold(NULL, yielded, high_ready_q, low_ready_q, Unblocked \ {current_p})
  BY <1>2, HoldLeft DEF Accounted, ReadyAgree
<1>4. (Unblocked \ {current_p}) \cup {current_p} = Unblocked
  BY <1>1
<1>5. p_prio[current_p] # 0 => ~(Prios \subseteq {0})
  BY <1>1 DEF Accounted, LowPrios
<1>6. CASE p_prio[current_p] = 0
  BY <1>1, <1>6, BackToLow DEF Yield
<1>7. CASE p_prio[current_p] # 0 /\ high_ready_q = <<>>
  <2>1. yielded = NULL /\ Scheduler(<<>>, low_ready_q, current_p, slice)
    BY <1>5, <1>7 DEF Yield, Disciplined
  <2>2. Hold(NULL, current_p, high_ready_q, low_ready_q,
             (Unblocked \ {current_p}) \cup {current_p})
    BY <1>1, <1>2, <1>3, <1>5, <1>7, <2>1, HoldMore
  <2> QED
    BY <1>1, <1>2, <1>4, <1>7, <2>1, <2>2, Reschedule
<1>8. CASE p_prio[current_p] # 0 /\ high_ready_q # <<>>
  <2>1. Scheduler(Append(high_ready_q, current_p), low_ready_q, yielded, slice)
    BY <1>8 DEF Yield
  <2>2. Hold(NULL, yielded, Append(high_ready_q, current_p), low_ready_q,
             (Unblocked \ {current_p}) \cup {current_p})
    BY <1>1, <1>2, <1>3, <1>5, <1>8, HoldMore
  <2> QED
    BY <1>1, <1>2, <1>4, <2>1, <2>2, Reschedule
<1> QED
  BY <1>6, <1>7, <1>8

-----------------------------------------------------------------------------
(* P and V.                                                                *)

\* An operation on a semaphore of processes leaves the others alone.
LEMMA OtherSems ==
  ASSUME TypeOK, ClockAtZero, UnitsAgree, status' = status, NEW s \in UserSem,
         \A r \in Sem : r # s => value'[r] = value[r] /\ s_procq'[r] = s_procq[r]
  PROVE  ClockAtZero' /\ UnitsAgree'
<1>1. CLOCK \in Sem /\ CLOCK # s
  BY ClockSem, UnitSemNumbers DEF DevSem
<1>2. \A u \in Unit : SemOf(u) \in Sem /\ SemOf(u) # s
  BY UnitSem, UnitSemNumbers
<1> QED
  BY <1>1, <1>2 DEF ClockAtZero, UnitsAgree

\* Passeren and Verhogen put the caller on the semaphore, or the first waiter
\* back among the ready processes.
LEMMA SemCallAccounted ==
  ASSUME TypeOK, Accounted, cpu = "RUN", NEW s \in UserSem, NEW full,
         SemOp(s, full, full), UNCHANGED <<procVars, soft_count, status>>,
         \/ value[s] = full /\ Scheduler(high_ready_q, low_ready_q, yielded, slice)
         \/ /\ value[s] # full
            /\ high_ready_q' = HighWith(Woken(s, full))
            /\ low_ready_q' = LowWith(Woken(s, full)) /\ Resume
  PROVE  Accounted'
<1>1. /\ s \in Sem /\ s \notin DevSem
      /\ current_p \in Unblocked /\ current_p \in Pcb
      /\ high_ready_q \in Seq(Pcb) /\ low_ready_q \in Seq(Pcb) /\ yielded \in Pcb \cup {NULL}
  BY UnitSemNumbers, CurrentUnblocked DEF Sem, Accounted, TypeOK, CpuTypeOK
<1>2. /\ value \in [Sem -> {0, 1}] /\ s_procq \in [Sem -> Seq(Pcb)]
      /\ QueuesAgree /\ ReadyAgree /\ LowPrios /\ ClockAtZero /\ UnitsAgree /\ CountIsSoft
  BY DEF TypeOK, SemTypeOK, Accounted
<1>3. LowPrios'
  BY <1>2 DEF LowPrios, procVars
<1>4. soft_count' \in Nat
  BY <1>2, SoftFinite
<1>5. CASE value[s] = full /\ Scheduler(high_ready_q, low_ready_q, yielded, slice)
  <2>1. /\ QueuesAgree' /\ Unblocked' = Unblocked \ {current_p} /\ value' = value
        /\ s_procq' = [s_procq EXCEPT ![s] = Append(@, current_p)]
        /\ Soft' = Soft
    BY <1>1, <1>2, <1>5, SemOpBlocks
  <2>2. Hold(NULL, yielded, high_ready_q, low_ready_q, Unblocked \ {current_p})
    BY <1>1, <1>2, HoldLeft DEF ReadyAgree
  <2>3. ReadyAgree' /\ StandsStill'
    BY <1>1, <1>4, <1>5, <2>1, <2>2, HoldScheduled DEF ReadyAgree
  <2>4. ClockAtZero' /\ UnitsAgree'
    BY <1>2, <2>1, OtherSems
  <2>5. CountIsSoft'
    BY <1>2, <2>1 DEF CountIsSoft
  <2> QED
    BY <1>3, <2>1, <2>3, <2>4, <2>5 DEF Accounted
<1>6. CASE /\ value[s] # full
           /\ high_ready_q' = HighWith(Woken(s, full))
           /\ low_ready_q' = LowWith(Woken(s, full)) /\ Resume
  <2> DEFINE w == Woken(s, full)
  <2>1. w \in Seq(Pcb)
    BY <1>1, WokenType DEF TypeOK
  <2>2. /\ QueuesAgree' /\ Unblocked' = Unblocked \cup Entries(w)
        /\ Entries(w) \cap Unblocked = {} /\ NoRepeats(w) /\ Soft' = Soft
    BY <1>1, <1>2, <1>6, SemOpWakes
  <2>3. \A r \in Sem : r # s => value'[r] = value[r] /\ s_procq'[r] = s_procq[r]
    BY <1>1, <1>2, <1>6, SemOpWakes
  <2> HIDE DEF w
  <2>4. Hold(current_p, yielded, HighWith(w), LowWith(w), Unblocked \cup Entries(w))
    BY <1>1, <1>2, <2>1, <2>2, HoldWith DEF ReadyAgree, TypeOK
  <2>5. ReadyAgree' /\ StandsStill'
    BY <1>6, <2>2, <2>4 DEF ReadyAgree, StandsStill, Resume, cpuVars, w
  <2>6. ClockAtZero' /\ UnitsAgree'
    BY <1>2, <2>3, OtherSems
  <2>7. CountIsSoft'
    BY <1>2, <2>2 DEF CountIsSoft
  <2> QED
    BY <1>3, <2>2, <2>5, <2>6, <2>7 DEF Accounted
<1> QED
  BY <1>5, <1>6

-----------------------------------------------------------------------------
(* Waiting for a device or the clock.                                      *)

\* The caller of DOIO or of CLOCKWAIT is counted once and waits, and the next
\* ready process runs.
LEMMA BlockSoft ==
  ASSUME TypeOK, Accounted, cpu = "RUN", NEW s \in DevSem, value[s] = 0,
         SemOp(s, 0, 0), soft_count' = soft_count + 1, UNCHANGED procVars,
         Scheduler(HighWith(Woken(s, 0)), LowWith(Woken(s, 0)), yielded, slice)
  PROVE  /\ QueuesAgree' /\ ReadyAgree' /\ LowPrios' /\ CountIsSoft' /\ StandsStill'
         /\ value' = value /\ s_procq' = [s_procq EXCEPT ![s] = Append(@, current_p)]
<1>1. /\ s \in Sem /\ current_p \in Unblocked /\ current_p \in Pcb
      /\ high_ready_q \in Seq(Pcb) /\ low_ready_q \in Seq(Pcb) /\ yielded \in Pcb \cup {NULL}
  BY CurrentUnblocked DEF Sem, Accounted, TypeOK, CpuTypeOK
<1>2. QueuesAgree /\ ReadyAgree /\ LowPrios /\ CountIsSoft
  BY DEF Accounted
<1>3. LowPrios'
  BY <1>2 DEF LowPrios, procVars
<1>4. /\ QueuesAgree' /\ Unblocked' = Unblocked \ {current_p} /\ value' = value
      /\ s_procq' = [s_procq EXCEPT ![s] = Append(@, current_p)]
      /\ Soft' = Soft \cup {current_p} /\ current_p \notin Soft
  BY <1>1, <1>2, SemOpBlocks
<1>5. CountIsSoft' /\ soft_count' \in Nat
  <2>1. /\ Cardinality(Soft \cup {current_p}) = Cardinality(Soft) + 1
        /\ Cardinality(Soft) \in Nat
    BY <1>4, SoftFinite, FS_AddElement
  <2> QED
    BY <1>2, <1>4, <2>1 DEF CountIsSoft
<1>6. Woken(s, 0) = <<>> /\ <<>> \in Seq(Pcb)
  BY DEF Woken
<1>7. Hold(NULL, yielded, high_ready_q, low_ready_q, Unblocked \ {current_p})
  BY <1>1, <1>2, HoldLeft DEF ReadyAgree
<1>8. /\ Hold(NULL, yielded, HighWith(<<>>), LowWith(<<>>), Unblocked \ {current_p})
      /\ HighWith(<<>>) \in Seq(Pcb) /\ LowWith(<<>>) \in Seq(Pcb)
  <2>1. Entries(<<>>) = {} /\ NoRepeats(<<>>)
    BY EntriesOfNothing
  <2>2. Hold(NULL, yielded, HighWith(<<>>), LowWith(<<>>),
             (Unblocked \ {current_p}) \cup Entries(<<>>))
    BY <1>1, <1>2, <1>6, <1>7, <2>1, HoldWith DEF TypeOK
  <2>3. (Unblocked \ {current_p}) \cup Entries(<<>>) = Unblocked \ {current_p}
    BY <2>1
  <2> QED
    BY <1>6, <2>2, <2>3, WithType DEF TypeOK
<1>9. ReadyAgree' /\ StandsStill'
  BY <1>1, <1>4, <1>5, <1>6, <1>8, HoldScheduled DEF ReadyAgree
<1> QED
  BY <1>3, <1>4, <1>5, <1>9

\* CLOCKWAIT.
LEMMA WaitForClockAccounted ==
  ASSUME TypeOK, Accounted, WaitForClock
  PROVE  Accounted'
<1>1. /\ cpu = "RUN" /\ CLOCK \in DevSem /\ CLOCK \in Sem /\ value[CLOCK] = 0
      /\ ClockAtZero /\ UnitsAgree
  BY ClockSem DEF WaitForClock, Running, DevSem, Accounted, ClockAtZero
<1>2. /\ QueuesAgree' /\ ReadyAgree' /\ LowPrios' /\ CountIsSoft' /\ StandsStill'
      /\ value' = value /\ s_procq' = [s_procq EXCEPT ![CLOCK] = Append(@, current_p)]
      /\ status' = status
  BY <1>1, BlockSoft DEF WaitForClock
<1>3. ClockAtZero' /\ UnitsAgree'
  <2>1. s_procq \in [Sem -> Seq(Pcb)]
    BY DEF TypeOK, SemTypeOK
  <2>2. \A u \in Unit : s_procq'[SemOf(u)] = s_procq[SemOf(u)]
    BY <1>2, <2>1, UnitSem, UnitSemNumbers
  <2> QED
    BY <1>1, <1>2, <2>2 DEF ClockAtZero, UnitsAgree
<1> QED
  BY <1>2, <1>3 DEF Accounted

\* DOIO on a device without another user starts the operation and waits for it.
LEMMA DoIOAccounted ==
  ASSUME TypeOK, Accounted, NEW u \in Unit, DoIO(u),
         \A v \in Unit : v[1] = u[1] /\ v[2] = u[2] => status[v] = "READY"
  PROVE  Accounted'
<1>1. /\ cpu = "RUN" /\ SemOf(u) \in DevSem /\ SemOf(u) \in Sem
      /\ ClockAtZero /\ UnitsAgree /\ value[SemOf(u)] = 0
  BY UnitSem, UnitSemNumbers DEF DoIO, Running, Accounted, UnitsAgree
<1>2. "DOIO" \in Calls /\ \A v \in Unit : v[1] = u[1] /\ v[2] = u[2] => status[v] = "READY"
  BY DEF DoIO, Running
<1>3. /\ QueuesAgree' /\ ReadyAgree' /\ LowPrios' /\ CountIsSoft' /\ StandsStill'
      /\ value' = value /\ s_procq' = [s_procq EXCEPT ![SemOf(u)] = Append(@, current_p)]
  BY <1>1, BlockSoft DEF DoIO
<1>4. ClockAtZero'
  BY <1>1, <1>3 DEF ClockAtZero
<1>5. /\ s_procq \in [Sem -> Seq(Pcb)] /\ current_p \in Pcb
      /\ status \in [Unit -> {"READY", "BUSY", "DONE"}]
  BY <1>1, RunningPcb DEF TypeOK, SemTypeOK
<1>6. \A v \in Unit : status'[v] = IF v = u THEN "BUSY" ELSE status[v]
  BY <1>2, <1>5 DEF DoIO
<1>7. ASSUME NEW v \in Unit
      PROVE  /\ value'[SemOf(v)] = 0
             /\ Len(s_procq'[SemOf(v)]) = IF status'[v] = "READY" THEN 0 ELSE 1
  <2>1. CASE v = u
    <3>1. Len(s_procq[SemOf(u)]) = 0
      BY <1>1, <1>2 DEF UnitsAgree
    <3>2. s_procq'[SemOf(u)] = Append(s_procq[SemOf(u)], current_p)
      BY <1>1, <1>3, <1>5
    <3>3. Len(Append(s_procq[SemOf(u)], current_p)) = 1
      <4>1. s_procq[SemOf(u)] \in Seq(Pcb)
        BY <1>1, <1>5
      <4> QED
        BY <1>5, <3>1, <4>1
    <3> QED
      BY <1>1, <1>3, <1>6, <2>1, <3>2, <3>3
  <2>2. CASE v # u
    <3>1. SemOf(v) \in Sem /\ SemOf(v) # SemOf(u)
      BY <2>2, UnitSem, UnitSemNumbers
    <3>2. s_procq'[SemOf(v)] = s_procq[SemOf(v)] /\ status'[v] = status[v]
      BY <1>3, <1>5, <1>6, <2>2, <3>1
    <3> QED
      BY <1>1, <1>3, <3>2 DEF UnitsAgree
  <2> QED
    BY <2>1, <2>2
<1>8. \A v, w \in Unit : v[1] = w[1] /\ v[2] = w[2] /\ status'[v] # "READY"
                           /\ status'[w] # "READY" => v = w
  BY <1>1, <1>2, <1>6 DEF UnitsAgree
<1>9. UnitsAgree'
  BY <1>2, <1>7, <1>8 DEF UnitsAgree
<1> QED
  BY <1>3, <1>4, <1>9 DEF Accounted

-----------------------------------------------------------------------------
(* Interrupts.                                                             *)

\* An interrupt handler that woke the processes of w ends: the interrupted
\* process goes on, or the scheduler looks again.
LEMMA HandbackHolds ==
  ASSUME TypeOK, ReadyAgree, LowPrios, Interruptible, soft_count' \in Nat,
         NEW w \in Seq(Pcb), NoRepeats(w), Entries(w) \cap Unblocked = {},
         Handback(HighWith(w), LowWith(w))
  PROVE  /\ Hold(current_p', yielded', high_ready_q', low_ready_q', Unblocked \cup Entries(w))
         /\ StandsStill'
<1>1. /\ current_p \in Pcb \cup {NULL} /\ yielded \in Pcb \cup {NULL}
      /\ HighWith(w) \in Seq(Pcb) /\ LowWith(w) \in Seq(Pcb)
  BY WithType DEF TypeOK, CpuTypeOK
<1>2. Hold(current_p, yielded, HighWith(w), LowWith(w), Unblocked \cup Entries(w))
  BY <1>1, HoldWith DEF ReadyAgree, TypeOK
<1>3. CASE current_p = NULL /\ Scheduler(HighWith(w), LowWith(w), yielded, slice)
  BY <1>1, <1>2, <1>3, HoldScheduled
<1>4. CASE /\ current_p # NULL /\ high_ready_q' = HighWith(w) /\ low_ready_q' = LowWith(w)
           /\ Resume
  <2>1. cpu' = "RUN" /\ current_p' = current_p /\ yielded' = yielded
    BY <1>4 DEF Resume, cpuVars, TypeOK, CpuTypeOK
  <2> QED
    BY <1>2, <1>4, <2>1 DEF StandsStill
<1> QED
  BY <1>3, <1>4 DEF Handback

\* The unit whose interrupt the handler takes is the one that has finished.
LEMMA ServedIsDone ==
  ASSUME UnitsAgree, NEW d \in Device, Pending(d)
  PROVE  status[Served(d)] = "DONE"
<1>1. PICK k \in UnitsOf(d[1]) : status[<<d[1], d[2], k>>] = "DONE"
  BY DEF Pending
<1>2. \A j \in UnitsOf(d[1]) : <<d[1], d[2], j>> \in Unit
  BY DEF Unit
<1>3. CASE d[1] # TERMLINE
  BY <1>1, <1>3 DEF UnitsOf, Served
<1>4. CASE d[1] = TERMLINE
  <2>1. k \in {"recv", "transm"} /\ "transm" \in UnitsOf(d[1])
    BY <1>1, <1>4 DEF UnitsOf
  <2>2. CASE status[<<d[1], d[2], "transm">>] # "READY"
    <3>1. <<d[1], d[2], k>> = <<d[1], d[2], "transm">>
      <4> DEFINE v == <<d[1], d[2], k>>
                 x == <<d[1], d[2], "transm">>
      <4>1. v[1] = x[1] /\ v[2] = x[2] /\ status[v] # "READY" /\ status[x] # "READY"
        BY <1>1, <2>2
      <4>2. v \in Unit /\ x \in Unit
        BY <1>1, <1>2, <2>1
      <4> HIDE DEF v, x
      <4> QED
        BY <4>1, <4>2 DEF UnitsAgree, v, x
    <3> QED
      BY <1>1, <1>4, <2>2, <3>1 DEF Served
  <2>3. CASE status[<<d[1], d[2], "transm">>] = "READY"
    BY <1>1, <1>4, <2>1, <2>3 DEF Served
  <2> QED
    BY <2>2, <2>3
<1> QED
  BY <1>3, <1>4

\* A device's interrupt wakes the one process that waits for it.
LEMMA DeviceInterruptAccounted ==
  ASSUME TypeOK, Accounted, NEW d \in Device, DeviceInterrupt(d)
  PROVE  Accounted'
<1> DEFINE u == Served(d)
           s == SemOf(u)
           w == Woken(s, 1)
<1>1. /\ u \in Unit /\ s \in Sem /\ s \in DevSem /\ s # CLOCK
      /\ InterruptSem(d[1], d[2], u[3]) = s
  BY ServedUnit, UnitSemNumbers
<1>2. /\ QueuesAgree /\ ReadyAgree /\ LowPrios /\ ClockAtZero /\ UnitsAgree /\ CountIsSoft
      /\ value \in [Sem -> {0, 1}] /\ s_procq \in [Sem -> Seq(Pcb)]
      /\ status \in [Unit -> {"READY", "BUSY", "DONE"}]
  BY DEF Accounted, TypeOK, SemTypeOK
<1>3. status[u] = "DONE"
  BY <1>2, ServedIsDone DEF DeviceInterrupt
<1>4. value[s] = 0 /\ Len(s_procq[s]) = 1
  BY <1>1, <1>2, <1>3 DEF UnitsAgree
<1>5. /\ Interruptible /\ UNCHANGED procVars
      /\ status' = [status EXCEPT ![u] = IF @ = "DONE" THEN "READY" ELSE @]
      /\ SemOp(s, 1, 1) /\ soft_count' = soft_count - Len(w)
      /\ Handback(HighWith(w), LowWith(w))
  BY <1>1, <1>4 DEF DeviceInterrupt
<1>6. s_procq[s] # <<>> /\ s_procq[s] \in Seq(Pcb) /\ w = <<Head(s_procq[s])>>
  <2> HIDE DEF u, s
  <2>1. s_procq[s] # <<>> /\ s_procq[s] \in Seq(Pcb)
    <3>1. s_procq[s] \in Seq(Pcb)
      BY <1>1, <1>2
    <3>2. Len(s_procq[s]) = 1
      BY <1>4
    <3>3. Len(<<>>) = 0
      OBVIOUS
    <3>4. s_procq[s] # <<>>
      BY <3>2, <3>3
    <3> QED
      BY <3>1, <3>4
  <2>2. w = <<Head(s_procq[s])>>
    BY <1>4, <2>1 DEF Woken
  <2> QED
    BY <2>1, <2>2
<1>7. w \in Seq(Pcb)
  BY <1>1, WokenType DEF TypeOK
<1> HIDE DEF u, s
<1>8. /\ QueuesAgree' /\ Unblocked' = Unblocked \cup Entries(w)
      /\ Entries(w) \cap Unblocked = {} /\ NoRepeats(w)
      /\ Soft' = Soft \ Entries(w) /\ Entries(w) \subseteq Soft
      /\ value' = value /\ s_procq' = [s_procq EXCEPT ![s] = Tail(@)]
  BY <1>1, <1>2, <1>4, <1>5, <1>6, SemOpWakes
<1>9. CountIsSoft' /\ soft_count' \in Nat
  <2>1. Entries(w) = {Head(s_procq[s])} /\ Head(s_procq[s]) \in Pcb /\ Len(w) = 1
    BY <1>6, EntriesTail, EntriesOfOne
  <2>2. /\ Cardinality(Soft \ {Head(s_procq[s])}) = Cardinality(Soft) - 1
        /\ IsFiniteSet(Soft \ {Head(s_procq[s])})
    BY <1>8, <2>1, SoftFinite, FS_RemoveElement
  <2>3. Cardinality(Soft \ {Head(s_procq[s])}) \in Nat
    BY <2>2, FS_CardinalityType
  <2> QED
    BY <1>2, <1>5, <1>8, <2>1, <2>2, <2>3 DEF CountIsSoft
<1> HIDE DEF w
<1>10. ReadyAgree' /\ StandsStill'
  BY <1>2, <1>5, <1>7, <1>8, <1>9, HandbackHolds DEF ReadyAgree
<1>11. \A v \in Unit : status'[v] = IF v = u THEN "READY" ELSE status[v]
  BY <1>1, <1>2, <1>3, <1>5
<1>12. ASSUME NEW v \in Unit
       PROVE  Len(s_procq'[SemOf(v)]) = IF status'[v] = "READY" THEN 0 ELSE 1
  <2>1. CASE v = u
    <3>1. s_procq'[s] = Tail(s_procq[s]) /\ Len(Tail(s_procq[s])) = 0
      BY <1>1, <1>2, <1>4, <1>6, <1>8
    <3> QED
      BY <1>11, <2>1, <3>1 DEF s
  <2>2. CASE v # u
    <3>1. SemOf(v) \in Sem /\ SemOf(v) # s
      BY <1>1, <2>2, UnitSem, UnitSemNumbers DEF s
    <3> QED
      BY <1>2, <1>8, <1>11, <2>2, <3>1 DEF UnitsAgree
  <2> QED
    BY <2>1, <2>2
<1>13. UnitsAgree'
  BY <1>2, <1>8, <1>11, <1>12 DEF UnitsAgree
<1> QED
  BY <1>2, <1>5, <1>8, <1>9, <1>10, <1>13 DEF Accounted, LowPrios, ClockAtZero, procVars

\* A tick wakes everybody who waits for the clock, and uncounts as many.
LEMMA IntervalTimerAccounted ==
  ASSUME TypeOK, Accounted, IntervalTimerInterrupt
  PROVE  Accounted'
<1> DEFINE w == s_procq[CLOCK]
<1>1. /\ QueuesAgree /\ ReadyAgree /\ LowPrios /\ ClockAtZero /\ UnitsAgree /\ CountIsSoft
      /\ value \in [Sem -> {0, 1}] /\ s_procq \in [Sem -> Seq(Pcb)]
      /\ p_semAdd \in [Pcb -> Sem \cup {NULL}]
  BY DEF Accounted, TypeOK, SemTypeOK
<1>2. CLOCK \in Sem /\ CLOCK \in DevSem /\ CLOCK # NULL
  BY ClockSem, NullFacts DEF DevSem
<1>3. w \in Seq(Pcb) /\ Entries(w) = Blocked(CLOCK) /\ NoRepeats(w)
  BY <1>1, <1>2 DEF QueuesAgree
<1>4. /\ Interruptible /\ UNCHANGED <<procVars, status>>
      /\ s_procq' = [s_procq EXCEPT ![CLOCK] = <<>>]
      /\ p_semAdd' = [p \in Pcb |-> IF p \in Entries(w) THEN NULL ELSE p_semAdd[p]]
      /\ value' = [value EXCEPT ![CLOCK] = 0]
      /\ soft_count' = soft_count - Len(w)
      /\ Handback(HighWith(w), LowWith(w))
  BY DEF IntervalTimerInterrupt
<1> HIDE DEF w
<1>5. Live' = Live
  BY <1>4 DEF Live, procVars
<1>6. \A p \in Live : p_semAdd'[p] = IF p_semAdd[p] = CLOCK THEN NULL ELSE p_semAdd[p]
  BY <1>3, <1>4 DEF Blocked, Live
<1>7. ASSUME NEW r \in Sem
      PROVE  Entries(s_procq'[r]) = Blocked(r)' /\ NoRepeats(s_procq'[r])
  <2>0. r # NULL
    BY NullFacts
  <2>1. CASE r = CLOCK
    <3>1. s_procq'[r] = <<>>
      BY <1>1, <1>4, <2>1
    <3>2. Blocked(r)' = {}
      BY <1>2, <1>5, <1>6, <2>1 DEF Blocked
    <3> QED
      BY <3>1, <3>2, EntriesOfNothing
  <2>2. CASE r # CLOCK
    <3>1. s_procq'[r] = s_procq[r]
      BY <1>1, <1>4, <2>2
    <3>2. Blocked(r)' = Blocked(r)
      BY <1>5, <1>6, <2>0, <2>2 DEF Blocked
    <3> QED
      BY <1>1, <3>1, <3>2 DEF QueuesAgree
  <2> QED
    BY <2>1, <2>2
<1>8. QueuesAgree'
  BY <1>7 DEF QueuesAgree
<1>9. Unblocked' = Unblocked \cup Entries(w) /\ Entries(w) \cap Unblocked = {}
  BY <1>2, <1>3, <1>5, <1>6 DEF Unblocked, Blocked
<1>10. Soft' = Soft \ Entries(w) /\ Entries(w) \subseteq Soft
  BY <1>2, <1>3, <1>5, <1>6, NullFacts DEF Soft, Blocked, Sem
<1>11. CountIsSoft' /\ soft_count' \in Nat
  <2>1. Cardinality(Entries(w)) = Len(w) /\ Soft \cap Entries(w) = Entries(w)
    BY <1>3, <1>10, EntriesCount
  <2>2. /\ IsFiniteSet(Soft \ Entries(w))
        /\ Cardinality(Soft \ Entries(w)) = Cardinality(Soft) - Cardinality(Soft \cap Entries(w))
    BY SoftFinite, FS_Difference
  <2>3. Cardinality(Soft \ Entries(w)) \in Nat
    BY <2>2, FS_CardinalityType
  <2> QED
    BY <1>1, <1>4, <1>10, <2>1, <2>2, <2>3 DEF CountIsSoft
<1>12. ReadyAgree' /\ StandsStill'
  BY <1>1, <1>3, <1>4, <1>9, <1>11, HandbackHolds DEF ReadyAgree
<1>13. \A u \in Unit : /\ s_procq'[SemOf(u)] = s_procq[SemOf(u)]
                       /\ value'[SemOf(u)] = value[SemOf(u)]
  BY <1>1, <1>4, UnitSem, UnitSemNumbers
<1>14. UnitsAgree' /\ ClockAtZero' /\ LowPrios'
  BY <1>1, <1>2, <1>4, <1>13 DEF UnitsAgree, ClockAtZero, LowPrios, procVars
<1> QED
  BY <1>8, <1>11, <1>12, <1>14 DEF Accounted

-----------------------------------------------------------------------------
(* Termination.                                                            *)

\* The conventions keep termination away from those whose place Exterminate
\* would miss.
LEMMA FamilyFits ==
  ASSUME TypeOK, Disciplined, Accounted, cpu = "RUN", NEW K \in SUBSET Pcb, MayTerminate(K)
  PROVE  \A p \in K : /\ p \in Entries(high_ready_q) => p_prio[p] # 0
                      /\ p \in Entries(low_ready_q) => p_prio[p] = 0
                      /\ p # yielded
<1>1. /\ ReadyAgree /\ LowPrios /\ current_p \in Pcb /\ current_p # NULL
  BY RunningPcb, NullFacts DEF Accounted
<1>2. CASE Prios \subseteq {0}
  BY <1>1, <1>2, EntriesOfNothing, NullFacts DEF ReadyAgree, Hold, LowPrios
<1>3. CASE "LEAVES_ONLY" \in Rules
  <2>1. K = {current_p}
    BY <1>3 DEF MayTerminate
  <2> QED
    BY <1>1, <2>1 DEF ReadyAgree, Hold
<1> QED
  BY <1>2, <1>3 DEF Disciplined

\* Exterminate on a family of living processes: nobody who waited for a device
\* was in it, and the counts follow.
LEMMA ExterminateAccounted ==
  ASSUME TypeOK, Disciplined, Accounted, status' = status,
         NEW K \in SUBSET Live, MayTerminate(K), Exterminate(K)
  PROVE  /\ QueuesAgree' /\ LowPrios' /\ ClockAtZero' /\ UnitsAgree' /\ CountIsSoft'
         /\ Unblocked' = Unblocked \ K /\ soft_count' \in Nat
<1>1. /\ QueuesAgree /\ LowPrios /\ ClockAtZero /\ UnitsAgree /\ CountIsSoft
      /\ s_procq \in [Sem -> Seq(Pcb)]
  BY DEF Accounted, TypeOK, SemTypeOK
<1>2. /\ QueuesAgree' /\ Unblocked' = Unblocked \ K /\ Soft' = Soft \ K
      /\ SoftBlocked(K) = Soft \cap K
      /\ \A s \in Sem : Blocked(s) \cap K = {} => s_procq'[s] = s_procq[s]
  BY <1>1, ExterminateSems
<1>3. /\ value' = value /\ p_prio' = p_prio
      /\ soft_count' = soft_count - Cardinality(SoftBlocked(K))
  BY DEF Exterminate
<1>4. ASSUME NEW u \in Unit
      PROVE  s_procq'[SemOf(u)] = s_procq[SemOf(u)]
  <2>1. SemOf(u) \in Sem /\ SemOf(u) \in DevSem \ {CLOCK}
    BY UnitSem, UnitSemNumbers
  <2>2. CASE status[u] = "READY"
    <3>1. s_procq[SemOf(u)] \in Seq(Pcb) /\ Len(s_procq[SemOf(u)]) = 0
      BY <1>1, <2>1, <2>2 DEF UnitsAgree
    <3>2. s_procq[SemOf(u)] = <<>>
      BY <3>1
    <3>3. Blocked(SemOf(u)) = {}
      BY <1>1, <2>1, <3>2, EntriesOfNothing DEF QueuesAgree
    <3> QED
      BY <1>2, <2>1, <3>3
  <2>3. CASE status[u] # "READY"
    <3>1. "SPARES_IO" \in Rules
      BY <1>1, <2>3 DEF UnitsAgree, Disciplined
    <3>2. Blocked(SemOf(u)) \cap K = {}
      BY <2>1, <3>1 DEF MayTerminate, Blocked
    <3> QED
      BY <1>2, <2>1, <3>2
  <2> QED
    BY <2>2, <2>3
<1>5. UnitsAgree' /\ ClockAtZero' /\ LowPrios'
  BY <1>1, <1>3, <1>4 DEF UnitsAgree, ClockAtZero, LowPrios
<1>6. CountIsSoft' /\ soft_count' \in Nat
  <2>1. /\ IsFiniteSet(Soft \ K)
        /\ Cardinality(Soft \ K) = Cardinality(Soft) - Cardinality(Soft \cap K)
    BY SoftFinite, FS_Difference
  <2>2. Cardinality(Soft \ K) \in Nat
    BY <2>1, FS_CardinalityType
  <2> QED
    BY <1>1, <1>2, <1>3, <2>1, <2>2 DEF CountIsSoft
<1> QED
  BY <1>2, <1>5, <1>6

\* The running process terminates with its family, and the scheduler goes on
\* with somebody else.
LEMMA DieAccounted ==
  ASSUME Records, Disciplined, Accounted, cpu = "RUN", Die, status' = status
  PROVE  Accounted'
<1> DEFINE K == Subtree(current_p)
<1>1. TypeOK /\ ReadyAgree
  BY DEF Records, Accounted
<1>2. /\ current_p \in Live /\ current_p \in Pcb /\ yielded \in Pcb \cup {NULL}
  BY <1>1, CurrentUnblocked DEF TypeOK, CpuTypeOK
<1>3. K \in SUBSET Live /\ K \in SUBSET Pcb /\ current_p \in K
  BY <1>2, SubtreeLive, SubtreeClosed DEF Records, Live
<1>4. /\ MayTerminate(K) /\ Exterminate(K)
      /\ Scheduler(HighWithout(K), LowWithout(K), yielded, slice)
  BY DEF Die
<1> HIDE DEF K
<1>5. /\ QueuesAgree' /\ LowPrios' /\ ClockAtZero' /\ UnitsAgree' /\ CountIsSoft'
      /\ Unblocked' = Unblocked \ K /\ soft_count' \in Nat
  BY <1>1, <1>3, <1>4, ExterminateAccounted
<1>6. Hold(IF current_p \in K THEN NULL ELSE current_p, yielded,
           HighWithout(K), LowWithout(K), Unblocked \ K)
  BY <1>1, <1>3, <1>4, FamilyFits, HoldWithout DEF ReadyAgree, TypeOK
<1>7. Hold(NULL, yielded, HighWithout(K), LowWithout(K), Unblocked \ K)
  BY <1>3, <1>6
<1>8. HighWithout(K) \in Seq(Pcb) /\ LowWithout(K) \in Seq(Pcb)
  BY <1>1, WithoutType DEF TypeOK
<1>9. ReadyAgree' /\ StandsStill'
  BY <1>2, <1>4, <1>5, <1>7, <1>8, HoldScheduled DEF ReadyAgree
<1> QED
  BY <1>5, <1>9 DEF Accounted

\* An exception is passed up, or it terminates the process.
LEMMA PassUpOrDieAccounted ==
  ASSUME Records, Disciplined, Accounted, cpu = "RUN", PassUpOrDie, status' = status
  PROVE  Accounted'
<1>1. CASE Die
  BY <1>1, DieAccounted
<1>2. CASE UNCHANGED <<cpuVars, queues, procVars, semVars, soft_count>>
  <2>1. /\ QueuesAgree' /\ LowPrios' /\ ClockAtZero' /\ UnitsAgree' /\ CountIsSoft'
        /\ Unblocked' = Unblocked
    BY <1>2, SemsKept
  <2> QED
    BY <1>2, <2>1 DEF Accounted, ReadyAgree, StandsStill, cpuVars, queues
<1> QED
  BY <1>1, <1>2 DEF PassUpOrDie

\* TERMPROCESS by pid takes another family away and the caller goes on.
LEMMA TerminatePidAccounted ==
  ASSUME Records, Disciplined, Accounted, NEW t \in Pcb, TerminatePid(t)
  PROVE  Accounted'
<1> DEFINE K == Subtree(t)
<1>1. TypeOK /\ ReadyAgree /\ cpu = "RUN" /\ status' = status
  BY DEF Records, Accounted, TerminatePid, Running
<1>2. CASE PassUpOrDie
  BY <1>1, <1>2, PassUpOrDieAccounted
<1>3. CASE /\ Finds(t) /\ current_p \notin K
           /\ MayTerminate(K) /\ Exterminate(K)
           /\ high_ready_q' = HighWithout(K) /\ low_ready_q' = LowWithout(K) /\ Resume
  <2>1. t \in Live
    BY <1>1, <1>3, FoundLive DEF TerminatePid, Running, Records
  <2>2. K \in SUBSET Live /\ K \in SUBSET Pcb
    BY <2>1, SubtreeLive DEF Records, Live
  <2> HIDE DEF K
  <2>3. /\ QueuesAgree' /\ LowPrios' /\ ClockAtZero' /\ UnitsAgree' /\ CountIsSoft'
        /\ Unblocked' = Unblocked \ K
    BY <1>1, <1>3, <2>2, ExterminateAccounted
  <2>4. Hold(IF current_p \in K THEN NULL ELSE current_p, yielded,
             HighWithout(K), LowWithout(K), Unblocked \ K)
    BY <1>1, <1>3, <2>2, FamilyFits, HoldWithout DEF ReadyAgree, TypeOK
  <2>5. ReadyAgree' /\ StandsStill'
    BY <1>1, <1>3, <2>3, <2>4 DEF ReadyAgree, StandsStill, Resume, cpuVars
  <2> QED
    BY <2>3, <2>5 DEF Accounted
<1> QED
  BY <1>2, <1>3 DEF TerminatePid, Running, Disciplined

-----------------------------------------------------------------------------
(* Creation.                                                               *)

\* A new process is ready and waits for nothing, whatever its control block was
\* used for before.
LEMMA CreateAccounted ==
  ASSUME TypeOK, Accounted, NEW prio \in Int, prio # 0 => ~(Prios \subseteq {0}),
         NEW supportp, CreateProcess(prio, supportp)
  PROVE  Accounted'
<1>1. PICK child \in Pcb :
       /\ AllocPcb(child)
       /\ p_prio' = [p_prio EXCEPT ![child] = prio]
       /\ high_ready_q' = IF prio # 0 THEN Append(high_ready_q, child) ELSE high_ready_q
       /\ low_ready_q' = IF prio # 0 THEN low_ready_q ELSE Append(low_ready_q, child)
  BY DEF CreateProcess
<1>2. /\ UNCHANGED <<value, s_procq, soft_count, status>> /\ Resume /\ cpu = "RUN"
      /\ UNCHANGED <<cpu, current_p, yielded>>
  BY DEF CreateProcess, Running, Resume, cpuVars
<1>3. /\ QueuesAgree /\ ReadyAgree /\ LowPrios /\ ClockAtZero /\ UnitsAgree /\ CountIsSoft
      /\ p_semAdd \in [Pcb -> Sem \cup {NULL}] /\ p_prio \in [Pcb -> Int]
      /\ high_ready_q \in Seq(Pcb) /\ low_ready_q \in Seq(Pcb)
      /\ current_p \in Pcb \cup {NULL} /\ yielded \in Pcb \cup {NULL}
  BY DEF Accounted, TypeOK, CpuTypeOK, ProcTypeOK, SemTypeOK
<1>4. /\ child \notin Live /\ Live' = Live \cup {child}
      /\ p_semAdd' = [p_semAdd EXCEPT ![child] = NULL]
  BY <1>1 DEF AllocPcb, Live
<1>5. \A p \in Pcb : p_semAdd'[p] = IF p = child THEN NULL ELSE p_semAdd[p]
  BY <1>3, <1>4
<1>6. ASSUME NEW s \in Sem PROVE Blocked(s)' = Blocked(s)
  <2>1. s # NULL
    BY NullFacts
  <2> QED
    BY <1>4, <1>5, <2>1 DEF Blocked, Live
<1>7. QueuesAgree'
  BY <1>2, <1>3, <1>6 DEF QueuesAgree
<1>8. Soft' = Soft
  BY <1>4, <1>5, NullFacts DEF Soft, Sem, Live
<1>9. Unblocked' = Unblocked \cup {child} /\ child \notin Unblocked
  BY <1>4, <1>5 DEF Unblocked, Live
<1>10. prio # 0 => ~(Prios \subseteq {0})
  OBVIOUS
<1>11. ReadyAgree'
  <2>1. /\ Hold(current_p, yielded, high_ready_q, Append(low_ready_q, child),
                Unblocked \cup {child})
        /\ ~(Prios \subseteq {0}) =>
             Hold(current_p, yielded, Append(high_ready_q, child), low_ready_q,
                  Unblocked \cup {child})
    BY <1>3, <1>9, HoldMore DEF ReadyAgree
  <2>2. CASE prio = 0
    BY <1>1, <1>2, <1>9, <2>1, <2>2 DEF ReadyAgree
  <2>3. CASE prio # 0
    BY <1>1, <1>2, <1>9, <1>10, <2>1, <2>3 DEF ReadyAgree
  <2> QED
    BY <2>2, <2>3
<1>12. LowPrios'
  BY <1>1, <1>3, <1>10 DEF LowPrios
<1>13. ClockAtZero' /\ UnitsAgree' /\ CountIsSoft' /\ StandsStill'
  BY <1>2, <1>3, <1>8 DEF ClockAtZero, UnitsAgree, CountIsSoft, StandsStill
<1> QED
  BY <1>7, <1>11, <1>12, <1>13 DEF Accounted

-----------------------------------------------------------------------------
\* The state main() leaves is accounted for.
LEMMA InitAccounted == Init => Accounted
<1> SUFFICES ASSUME Init PROVE Accounted
  OBVIOUS
<1>1. Live = {Root} /\ Root \in Pcb /\ Root # NULL
  BY NullFacts DEF Init, Live
<1>2. Unblocked = {Root} /\ Soft = {} /\ \A s \in Sem : Blocked(s) = {}
  BY <1>1, NullFacts DEF Init, Unblocked, Soft, Blocked, Sem
<1>3. QueuesAgree
  BY <1>2, EntriesOfNothing DEF Init, QueuesAgree
<1>4. ReadyAgree
  BY <1>1, <1>2, EntriesOfNothing, EntriesOfOne, NullFacts DEF Init, ReadyAgree, Hold
<1>5. LowPrios
  BY DEF Init, LowPrios
<1>6. ClockAtZero
  BY ClockInit
<1>7. UnitsAgree
  <2>1. \A u \in Unit : SemOf(u) \in DevSem /\ SemOf(u) \in Sem
    BY UnitSem, UnitSemNumbers
  <2> QED
    BY <2>1 DEF Init, UnitsAgree
<1>8. CountIsSoft
  BY <1>2, FS_EmptySet DEF Init, CountIsSoft
<1>9. StandsStill
  BY DEF Init, StandsStill
<1> QED
  BY <1>3, <1>4, <1>5, <1>6, <1>7, <1>8, <1>9 DEF Accounted

\* The first dispatch.
LEMMA BootAccounted ==
  ASSUME TypeOK, Accounted, Boot
  PROVE  Accounted'
<1>1. current_p = NULL
  BY DEF Boot, TypeOK, CpuTypeOK
<1>2. Hold(NULL, yielded, high_ready_q, low_ready_q, Unblocked)
  BY <1>1 DEF Accounted, ReadyAgree
<1> QED
  BY <1>2, Reschedule DEF Boot, TypeOK, CpuTypeOK

\* The end of an operation changes its unit only, which stays at work until the
\* interrupt is served.
LEMMA DeviceCompletesAccounted ==
  ASSUME TypeOK, Accounted, NEW u \in Unit, DeviceCompletes(u)
  PROVE  Accounted'
<1>1. /\ UNCHANGED <<cpuVars, queues, procVars, semVars, soft_count>>
      /\ status' = [status EXCEPT ![u] = "DONE"] /\ status[u] = "BUSY"
      /\ status \in [Unit -> {"READY", "BUSY", "DONE"}]
  BY DEF DeviceCompletes, TypeOK, SemTypeOK
<1>2. Live' = Live
  BY <1>1 DEF Live, procVars
<1>3. QueuesAgree' /\ ReadyAgree' /\ LowPrios' /\ ClockAtZero' /\ CountIsSoft' /\ StandsStill'
  <2>1. QueuesAgree' /\ Unblocked' = Unblocked /\ Soft' = Soft
    BY <1>1, <1>2 DEF Accounted, QueuesAgree, Blocked, Unblocked, Soft, semVars
  <2> QED
    BY <1>1, <2>1 DEF Accounted, ReadyAgree, LowPrios, ClockAtZero, CountIsSoft, StandsStill,
                      cpuVars, queues, procVars, semVars
<1>4. \A v \in Unit : status'[v] = "READY" <=> status[v] = "READY"
  BY <1>1
<1>5. UnitsAgree'
  BY <1>1, <1>4 DEF Accounted, UnitsAgree, semVars
<1> QED
  BY <1>3, <1>5 DEF Accounted

\* No step of disciplined processes loses account.
LEMMA NextAccounted ==
  Disciplined /\ Records /\ Accounted /\ [Next]_vars => Accounted'
<1> SUFFICES ASSUME Disciplined, Records, Accounted, [Next]_vars PROVE Accounted'
  OBVIOUS
<1>0. TypeOK
  BY DEF Records
<1>1. CASE Boot
  BY <1>0, <1>1, BootAccounted
<1>2. ASSUME NEW prio \in Prios, NEW supportp \in Supports, CreateProcess(prio, supportp)
      PROVE  Accounted'
  BY <1>0, <1>2, CreateAccounted, UseAssumption
<1>3. CASE CreateProcessFails \/ GetParentId \/ ProgramTrap
  BY <1>3, PassUpOrDieAccounted DEF CreateProcessFails, GetParentId, ProgramTrap, Running
<1>4. CASE TerminateSelf
  BY <1>4, DieAccounted DEF TerminateSelf, Running
<1>5. ASSUME NEW t \in Pcb, TerminatePid(t) PROVE Accounted'
  BY <1>5, TerminatePidAccounted
<1>6. ASSUME NEW s \in UserSem, Passeren(s) PROVE Accounted'
  BY <1>0, <1>6, SemCallAccounted DEF Passeren, Running
<1>7. ASSUME NEW s \in UserSem, Verhogen(s) PROVE Accounted'
  BY <1>0, <1>7, SemCallAccounted DEF Verhogen, Running
<1>8. ASSUME NEW u \in Unit, DoIO(u) PROVE Accounted'
  <2>1. \A v \in Unit : v[1] = u[1] /\ v[2] = u[2] => status[v] = "READY"
    BY <1>8 DEF DoIO, Running, Disciplined
  <2> QED
    BY <1>0, <1>8, <2>1, DoIOAccounted
<1>9. CASE WaitForClock
  BY <1>0, <1>9, WaitForClockAccounted
<1>10. CASE Yield
  BY <1>0, <1>10, YieldAccounted
<1>11. CASE UnknownSyscall
  BY <1>11 DEF UnknownSyscall, Running, Disciplined
<1>12. ASSUME NEW d \in Device, DeviceInterrupt(d) PROVE Accounted'
  BY <1>0, <1>12, DeviceInterruptAccounted
<1>13. CASE IntervalTimerInterrupt
  BY <1>0, <1>13, IntervalTimerAccounted
<1>14. CASE PLTTimerInterrupt
  BY <1>0, <1>14, BackToLow DEF PLTTimerInterrupt
<1>15. ASSUME NEW u \in Unit, DeviceCompletes(u) PROVE Accounted'
  BY <1>0, <1>15, DeviceCompletesAccounted
<1>16. CASE UNCHANGED vars
  <2>1. UNCHANGED <<cpuVars, queues, procVars, semVars, soft_count, status>>
    BY <1>16 DEF vars
  <2>2. /\ QueuesAgree' /\ LowPrios' /\ ClockAtZero' /\ UnitsAgree' /\ CountIsSoft'
        /\ Unblocked' = Unblocked
    BY <2>1, SemsKept
  <2> QED
    BY <2>1, <2>2 DEF Accounted, ReadyAgree, StandsStill, cpuVars, queues
<1> QED
  BY <1>1, <1>2, <1>3, <1>4, <1>5, <1>6, <1>7, <1>8, <1>9, <1>10, <1>11, <1>12,
     <1>13, <1>14, <1>15, <1>16 DEF Next, Syscall, Interrupt

\* Disciplined processes are accounted for in every reachable state.
LEMMA AccountedHolds == Disciplined /\ Spec => []Accounted
<1>1. Disciplined => []Disciplined
  OBVIOUS
<1> QED
  BY <1>1, InitAccounted, NextAccounted, RecordsHold, PTL DEF Spec

-----------------------------------------------------------------------------
(* What follows.                                                           *)

\* A list without repetitions has at most one position for a process.
LEMMA OnePosition ==
  ASSUME NEW q, NEW p
  PROVE  /\ p \notin Entries(q) => \A j \in DOMAIN q : q[j] # p
         /\ NoRepeats(q) /\ p \in Entries(q)
              => \E i \in DOMAIN q : q[i] = p /\ \A j \in DOMAIN q : q[j] = p => j = i
<1>1. ASSUME NoRepeats(q), p \in Entries(q)
      PROVE  \E i \in DOMAIN q : q[i] = p /\ \A j \in DOMAIN q : q[j] = p => j = i
  <2>1. PICK i \in DOMAIN q : q[i] = p
    BY <1>1 DEF Entries
  <2>2. \A j \in DOMAIN q : q[j] = p => j = i
    BY <1>1, <2>1 DEF NoRepeats
  <2> QED
    BY <2>1, <2>2
<1>2. p \notin Entries(q) => \A j \in DOMAIN q : q[j] # p
  BY DEF Entries
<1> QED
  BY <1>1, <1>2

\* In an accounted state a living process is in one place and a dead one in
\* none.
LEMMA PlacesCounted ==
  ASSUME TypeOK, Accounted, NEW p \in Pcb
  PROVE  /\ p \in Live => Cardinality(PlacesOf(p)) = 1
         /\ p \notin Live => PlacesOf(p) = {}
<1> DEFINE C == {<<"cpu">> : x \in {current_p} \cap {p}}
           Y == {<<"yielded">> : x \in {yielded} \cap {p}}
           H == {<<"high", i>> : i \in {j \in DOMAIN high_ready_q : high_ready_q[j] = p}}
           L == {<<"low", i>> : i \in {j \in DOMAIN low_ready_q : low_ready_q[j] = p}}
           S(s) == {<<"sem", s, i>> : i \in {j \in DOMAIN s_procq[s] : s_procq[s][j] = p}}
           SS == UNION {S(s) : s \in Sem}
<1>1. PlacesOf(p) = C \cup Y \cup H \cup L \cup SS
  BY DEF PlacesOf
<1>2. /\ current_p # p => C = {}
      /\ current_p = p => C = {<<"cpu">>}
      /\ yielded # p => Y = {}
      /\ yielded = p => Y = {<<"yielded">>}
  OBVIOUS
<1>3. /\ p \notin Entries(high_ready_q) => H = {}
      /\ NoRepeats(high_ready_q) /\ p \in Entries(high_ready_q) => \E x : H = {x}
  <2>1. ASSUME p \notin Entries(high_ready_q)
        PROVE  H = {}
    <3>1. \A j \in DOMAIN high_ready_q : high_ready_q[j] # p
      BY <2>1, OnePosition
    <3> QED
      BY <3>1
  <2>2. ASSUME NoRepeats(high_ready_q), p \in Entries(high_ready_q)
        PROVE  \E x : H = {x}
    <3>1. PICK i \in DOMAIN high_ready_q :
                 high_ready_q[i] = p /\ \A j \in DOMAIN high_ready_q : high_ready_q[j] = p => j = i
      BY <2>2, OnePosition
    <3>2. H = {<<"high", i>>}
      BY <3>1
    <3> QED
      BY <3>2
  <2> QED
    BY <2>1, <2>2
<1>4. /\ p \notin Entries(low_ready_q) => L = {}
      /\ NoRepeats(low_ready_q) /\ p \in Entries(low_ready_q) => \E x : L = {x}
  <2>1. ASSUME p \notin Entries(low_ready_q)
        PROVE  L = {}
    <3>1. \A j \in DOMAIN low_ready_q : low_ready_q[j] # p
      BY <2>1, OnePosition
    <3> QED
      BY <3>1
  <2>2. ASSUME NoRepeats(low_ready_q), p \in Entries(low_ready_q)
        PROVE  \E x : L = {x}
    <3>1. PICK i \in DOMAIN low_ready_q :
                 low_ready_q[i] = p /\ \A j \in DOMAIN low_ready_q : low_ready_q[j] = p => j = i
      BY <2>2, OnePosition
    <3>2. L = {<<"low", i>>}
      BY <3>1
    <3> QED
      BY <3>2
  <2> QED
    BY <2>1, <2>2
<1>5. ASSUME NEW s \in Sem
      PROVE  /\ p \notin Entries(s_procq[s]) => S(s) = {}
             /\ NoRepeats(s_procq[s]) /\ p \in Entries(s_procq[s]) => \E x : S(s) = {x}
  <2>1. ASSUME p \notin Entries(s_procq[s])
        PROVE  S(s) = {}
    <3>1. \A j \in DOMAIN s_procq[s] : s_procq[s][j] # p
      BY <2>1, OnePosition
    <3> QED
      BY <3>1
  <2>2. ASSUME NoRepeats(s_procq[s]), p \in Entries(s_procq[s])
        PROVE  \E x : S(s) = {x}
    <3>1. PICK i \in DOMAIN s_procq[s] :
                 s_procq[s][i] = p /\ \A j \in DOMAIN s_procq[s] : s_procq[s][j] = p => j = i
      BY <2>2, OnePosition
    <3>2. S(s) = {<<"sem", s, i>>}
      BY <3>1
    <3> QED
      BY <3>2
  <2> QED
    BY <2>1, <2>2
<1> HIDE DEF C, Y, H, L, S
<1>6. /\ (\A s \in Sem : S(s) = {}) => SS = {}
      /\ \A s \in Sem : (\A r \in Sem : r # s => S(r) = {}) => SS = S(s)
  OBVIOUS
<1> HIDE DEF SS
<1>7. /\ \A s \in Sem : Entries(s_procq[s]) = Blocked(s) /\ NoRepeats(s_procq[s])
      /\ Hold(current_p, yielded, high_ready_q, low_ready_q, Unblocked)
  BY DEF Accounted, QueuesAgree, ReadyAgree
<1>8. p \in Live /\ p \notin Unblocked => p_semAdd[p] \in Sem
  BY DEF TypeOK, SemTypeOK, Unblocked, Live
<1>9. CASE p \notin Live
  <2>1. p \notin Unblocked /\ \A s \in Sem : p \notin Entries(s_procq[s])
    BY <1>7, <1>9 DEF Unblocked, Blocked
  <2>2. /\ current_p # p /\ yielded # p
        /\ p \notin Entries(high_ready_q) /\ p \notin Entries(low_ready_q)
    BY <1>7, <2>1 DEF Hold
  <2>3. SS = {}
    BY <1>5, <1>6, <2>1
  <2> QED
    BY <1>1, <1>2, <1>3, <1>4, <1>9, <2>2, <2>3
<1>10. CASE p \in Live /\ p \notin Unblocked
  <2>1. /\ current_p # p /\ yielded # p
        /\ p \notin Entries(high_ready_q) /\ p \notin Entries(low_ready_q)
    BY <1>7, <1>10 DEF Hold
  <2>2. \E x : SS = {x}
    <3> DEFINE s == p_semAdd[p]
    <3>1. s \in Sem /\ p \in Entries(s_procq[s]) /\ NoRepeats(s_procq[s])
      BY <1>7, <1>8, <1>10 DEF Blocked
    <3>2. \A r \in Sem : r # s => S(r) = {}
      BY <1>5, <1>7 DEF Blocked
    <3> HIDE DEF s
    <3> QED
      BY <1>5, <1>6, <3>1, <3>2
  <2>3. \E x : PlacesOf(p) = {x}
    BY <1>1, <1>2, <1>3, <1>4, <2>1, <2>2
  <2> QED
    BY <1>10, <2>3, FS_Singleton
<1>11. CASE p \in Unblocked
  <2>1. \A s \in Sem : p \notin Entries(s_procq[s])
    BY <1>7, <1>11, NullFacts DEF Unblocked, Blocked
  <2>2. SS = {}
    BY <1>5, <1>6, <2>1
  <2>3. \E x : C \cup Y \cup H \cup L = {x}
    <3>1. CASE current_p = p
      BY <1>2, <1>3, <1>4, <1>7, <3>1, NullFacts DEF Hold
    <3>2. CASE yielded = p
      BY <1>2, <1>3, <1>4, <1>7, <3>2, NullFacts DEF Hold
    <3>3. CASE p \in Entries(high_ready_q)
      BY <1>2, <1>3, <1>4, <1>7, <3>3 DEF Hold
    <3>4. CASE p \in Entries(low_ready_q)
      BY <1>2, <1>3, <1>4, <1>7, <3>4 DEF Hold
    <3> QED
      BY <1>7, <1>11, <3>1, <3>2, <3>3, <3>4 DEF Hold
  <2>4. \E x : PlacesOf(p) = {x}
    BY <1>1, <2>2, <2>3
  <2> QED
    BY <1>11, <2>4, FS_Singleton DEF Unblocked
<1> QED
  BY <1>9, <1>10, <1>11

\* A living process is at every moment in exactly one place, the processor, the
\* pending yield, a position of a ready queue or of a semaphore's, and a
\* terminated one is nowhere, through every path of every handler.
THEOREM OnePlaceCorrect == Disciplined /\ Spec => []OnePlace
<1>1. TypeOK /\ Accounted => OnePlace
  <2> SUFFICES ASSUME TypeOK, Accounted PROVE OnePlace
    OBVIOUS
  <2>1. \A p \in Live : p \in Pcb
    BY DEF Live
  <2>2. \A p \in pcbFree : p \in Pcb /\ p \notin Live
    BY DEF TypeOK, ProcTypeOK, Live
  <2> QED
    BY <2>1, <2>2, PlacesCounted DEF OnePlace, NoFreedPcbInUse
<1> QED
  BY <1>1, AccountedHolds, TypeCorrect, PTL

\* p_semAdd, which Exterminate and outBlocked trust, names the semaphore whose
\* queue a living process is in, and no other.
THEOREM SemAddCorrect == Disciplined /\ Spec => []SemAddAgrees
<1>1. Accounted => SemAddAgrees
  BY DEF Accounted, QueuesAgree, Blocked, SemAddAgrees
<1> QED
  BY <1>1, AccountedHolds, PTL

\* soft_count, changed by five handlers and by termination, is the number of
\* processes that wait for a device or the clock.
THEOREM SoftCountCorrect == Disciplined /\ Spec => []SoftCountExact
<1>1. Accounted => SoftCountExact
  <2> SUFFICES ASSUME Accounted PROVE SoftCountExact
    OBVIOUS
  <2>1. \A s \in DevSem : Entries(s_procq[s]) = {p \in Live : p_semAdd[p] = s}
    BY DEF Accounted, QueuesAgree, Blocked, Sem
  <2>2. UNION {Entries(s_procq[s]) : s \in DevSem} = Soft
    BY <2>1 DEF Soft
  <2> QED
    BY <2>2 DEF Accounted, CountIsSoft, SoftCountExact
<1> QED
  BY <1>1, AccountedHolds, PTL

\* The machine panics only on a deadlock: every living process waits for a V.
\* It takes low priority processes only (the scheduler panics over a pending
\* yield, see the findings).
THEOREM PanicCorrect ==
  Prios \subseteq {0} /\ Disciplined /\ Spec => []PanicOnlyOnDeadlock
<1>1. Prios \subseteq {0} /\ TypeOK /\ Accounted => PanicOnlyOnDeadlock
  <2> SUFFICES ASSUME Prios \subseteq {0}, TypeOK, Accounted, cpu = "PANIC"
               PROVE  Live = UNION {Entries(s_procq[s]) : s \in UserSem}
    BY DEF PanicOnlyOnDeadlock
  <2>1. current_p = NULL /\ yielded = NULL /\ high_ready_q = <<>> /\ low_ready_q = <<>>
    BY DEF TypeOK, CpuTypeOK, Accounted, ReadyAgree, Hold, StandsStill
  <2>2. Unblocked = {}
    BY <2>1, EntriesOfNothing, NullFacts DEF Accounted, ReadyAgree, Hold
  <2>3. Soft = {}
    BY SoftFinite, FS_EmptySet DEF Accounted, CountIsSoft, StandsStill
  <2>4. \A p \in Live : p_semAdd[p] \in UserSem
    BY <2>2, <2>3 DEF Unblocked, Soft, Live, TypeOK, SemTypeOK, Sem
  <2>5. \A s \in UserSem : Entries(s_procq[s]) = {p \in Live : p_semAdd[p] = s}
    BY DEF Accounted, QueuesAgree, Blocked, Sem
  <2> QED
    BY <2>4, <2>5
<1>2. Prios \subseteq {0} => [](Prios \subseteq {0})
  OBVIOUS
<1> QED
  BY <1>1, <1>2, AccountedHolds, TypeCorrect, PTL

\* Whoever waits for a device waits alone for an operation under way, on a
\* semaphore that holds no interrupt counted before.
THEOREM IoWaiterCorrect == Disciplined /\ Spec => []IoWaiterServed
<1>1. TypeOK /\ Accounted => IoWaiterServed
  <2> SUFFICES ASSUME TypeOK, Accounted, NEW u \in Unit, s_procq[SemOf(u)] # <<>>
               PROVE  /\ status[u] # "READY" /\ value[SemOf(u)] = 0
                      /\ Len(s_procq[SemOf(u)]) = 1
    BY DEF IoWaiterServed
  <2>1. s_procq[SemOf(u)] \in Seq(Pcb)
    BY UnitSem DEF TypeOK, SemTypeOK
  <2>2. Len(s_procq[SemOf(u)]) # 0
    BY <2>1
  <2> QED
    BY <2>2 DEF Accounted, UnitsAgree
<1> QED
  BY <1>1, AccountedHolds, TypeCorrect, PTL

\* The machine waits only with somebody at the pseudo-clock or with an
\* operation under way that somebody asked for: it always wakes up.
THEOREM WakeupCorrect == Disciplined /\ Spec => []WaitHasWakeup
<1>1. TypeOK /\ Accounted /\ IoWaiterServed => WaitHasWakeup
  <2> SUFFICES ASSUME TypeOK, Accounted, IoWaiterServed, cpu = "WAIT"
               PROVE  \/ s_procq[CLOCK] # <<>>
                      \/ \E u \in Unit : s_procq[SemOf(u)] # <<>> /\ status[u] # "READY"
    BY DEF WaitHasWakeup
  <2>1. Soft # {}
    BY FS_EmptySet DEF Accounted, CountIsSoft, StandsStill
  <2>2. PICK p \in Live : p_semAdd[p] \in DevSem
    BY <2>1 DEF Soft
  <2>3. /\ p \in Entries(s_procq[p_semAdd[p]])
        /\ p_semAdd[p] = CLOCK \/ \E u \in Unit : p_semAdd[p] = SemOf(u)
    BY <2>2 DEF Accounted, QueuesAgree, Blocked, Sem, DevSem
  <2>4. s_procq[p_semAdd[p]] # <<>>
    BY <2>3, EntriesOfNothing
  <2> QED
    BY <2>3, <2>4 DEF IoWaiterServed
<1> QED
  BY <1>1, AccountedHolds, IoWaiterCorrect, TypeCorrect, PTL

\* The processor is never lost inside the kernel, neither in a fault that calls
\* itself nor past the scheduler, and no terminated control block is linked
\* anywhere when allocPcb hands it out.
THEOREM ControlKept ==
  Disciplined /\ Spec => [](Intact /\ cpu \notin {"TRAPLOOP", "ADRIFT"})
<1>1. Accounted /\ TypeOK => Intact
  <2> SUFFICES ASSUME Accounted, TypeOK PROVE Intact
    OBVIOUS
  <2>1. \A s \in Sem : Entries(s_procq[s]) \subseteq Live
    BY DEF Accounted, QueuesAgree, Blocked
  <2>2. ({current_p, yielded} \cap Pcb) \cup Entries(high_ready_q) \cup Entries(low_ready_q)
          \subseteq Live
    BY DEF Accounted, ReadyAgree, Hold, Unblocked
  <2>3. Holding \subseteq Live
    BY <2>1, <2>2 DEF Holding
  <2> QED
    BY <2>3 DEF Intact, Live
<1>2. Accounted => cpu \notin {"TRAPLOOP", "ADRIFT"}
  BY DEF Accounted, StandsStill
<1> QED
  BY <1>1, <1>2, AccountedHolds, TypeCorrect, PTL

-----------------------------------------------------------------------------
(* Which process is dispatched.  This takes no convention: it holds for    *)
(* every process and every priority.                                       *)

\* The high ready queue and the pending yield hold no low process: priorities
\* are given once, to a control block that no list holds.
HighIsHigh ==
  /\ \A p \in Entries(high_ready_q) : p_prio[p] # 0
  /\ yielded # NULL => p_prio[yielded] # 0

\* Every ready queue that handlers make of the high one holds high processes.
LEMMA HighQueues ==
  ASSUME CpuTypeOK, HighIsHigh
  PROVE  /\ \A w \in Seq(Pcb) : \A p \in Entries(HighWith(w)) : p_prio[p] # 0
         /\ \A K : \A p \in Entries(HighWithout(K)) : p_prio[p] # 0
<1>1. ASSUME NEW w \in Seq(Pcb)
      PROVE  \A p \in Entries(HighWith(w)) : p_prio[p] # 0
  <2> DEFINE h == Only(w, {p \in Pcb : p_prio[p] = 1})
  <2>1. h \in Seq(Pcb) /\ Entries(h) = Entries(w) \cap {p \in Pcb : p_prio[p] = 1}
    BY OnlyType, OnlyEntries
  <2> HIDE DEF h
  <2>2. Entries(high_ready_q \o h) = Entries(high_ready_q) \cup Entries(h)
    BY <2>1, EntriesConcat DEF CpuTypeOK
  <2>3. HighWith(w) = high_ready_q \o h
    BY DEF HighWith, h
  <2> QED
    BY <2>1, <2>2, <2>3 DEF HighIsHigh
<1>2. ASSUME NEW K
      PROVE  \A p \in Entries(HighWithout(K)) : p_prio[p] # 0
  <2>1. \A S : Entries(Only(high_ready_q, S)) \subseteq Entries(high_ready_q)
    BY OnlyEntries DEF CpuTypeOK
  <2> QED
    BY <2>1 DEF HighWithout, HighIsHigh
<1> QED
  BY <1>1, <1>2

\* The scheduler empties the high queue before it turns to the low one.
LEMMA SchedulerHigh ==
  ASSUME NEW hq \in Seq(Pcb), NEW lq \in Seq(Pcb),
         NEW y \in {yielded, current_p}, NEW t,
         \A p \in Entries(hq) : p_prio[p] # 0, y # NULL => p_prio[y] # 0,
         p_prio' = p_prio, Scheduler(hq, lq, y, t)
  PROVE  HighIsHigh' /\ Dispatch
<1>1. CASE hq # <<>>
  <2>1. current_p' = Head(hq) /\ high_ready_q' = Tail(hq) /\ yielded' = y
    BY <1>1 DEF Scheduler
  <2>2. Entries(hq) = Entries(Tail(hq)) \cup {Head(hq)}
    BY <1>1, EntriesTail
  <2> QED
    BY <2>1, <2>2 DEF HighIsHigh, Dispatch
<1>2. CASE hq = <<>> /\ lq # <<>>
  <2> DEFINE h == IF y # NULL THEN <<y>> ELSE <<>>
  <2>1. high_ready_q' = h /\ yielded' = NULL
    BY <1>2 DEF Scheduler
  <2>2. \A p \in Entries(h) : p = y /\ y # NULL
    BY DEF Entries
  <2> HIDE DEF h
  <2> QED
    BY <2>1, <2>2 DEF HighIsHigh, Dispatch
<1>3. CASE hq = <<>> /\ lq = <<>>
  <2>1. current_p' = NULL /\ high_ready_q' = hq /\ yielded' = y
    BY <1>3 DEF Scheduler
  <2> QED
    BY <2>1 DEF HighIsHigh, Dispatch
<1> QED
  BY <1>1, <1>2, <1>3

\* A handler that resumes the process it interrupted dispatches nobody.
LEMMA ResumeHigh ==
  ASSUME HighIsHigh, p_prio' = p_prio, UNCHANGED <<current_p, yielded>>,
         \A p \in Entries(high_ready_q') : p_prio[p] # 0
  PROVE  HighIsHigh' /\ Dispatch
  BY DEF HighIsHigh, Dispatch

\* Interrupts end with a resumption or with the scheduler.
LEMMA HandbackHigh ==
  ASSUME TypeOK, HighIsHigh, p_prio' = p_prio, NEW w \in Seq(Pcb),
         Handback(HighWith(w), LowWith(w))
  PROVE  HighIsHigh' /\ Dispatch
<1>1. \A p \in Entries(HighWith(w)) : p_prio[p] # 0
  BY HighQueues DEF TypeOK
<1>2. HighWith(w) \in Seq(Pcb) /\ LowWith(w) \in Seq(Pcb)
  BY WithType DEF TypeOK
<1>3. CASE current_p = NULL /\ Scheduler(HighWith(w), LowWith(w), yielded, slice)
  BY <1>1, <1>2, <1>3, SchedulerHigh DEF HighIsHigh
<1>4. CASE high_ready_q' = HighWith(w) /\ Resume
  BY <1>1, <1>4, ResumeHigh DEF Resume, cpuVars
<1> QED
  BY <1>3, <1>4 DEF Handback

\* Termination takes processes out of the high queue.
LEMMA DieHigh ==
  ASSUME TypeOK, HighIsHigh, Die
  PROVE  HighIsHigh' /\ Dispatch
<1> DEFINE K == Subtree(current_p)
<1>1. \A p \in Entries(HighWithout(K)) : p_prio[p] # 0
  BY HighQueues DEF TypeOK
<1>2. HighWithout(K) \in Seq(Pcb) /\ LowWithout(K) \in Seq(Pcb)
  BY WithoutType DEF TypeOK
<1>3. p_prio' = p_prio /\ Scheduler(HighWithout(K), LowWithout(K), yielded, slice)
  BY DEF Die, Exterminate
<1> QED
  BY <1>1, <1>2, <1>3, SchedulerHigh DEF HighIsHigh

\* PassUpOrDie ends one process, with its progeny, or changes nothing.
LEMMA PassUpOrDieHigh ==
  ASSUME TypeOK, HighIsHigh, PassUpOrDie
  PROVE  HighIsHigh' /\ Dispatch
<1>1. CASE Die
  BY <1>1, DieHigh
<1>2. CASE UNCHANGED <<cpuVars, queues, procVars, semVars, soft_count>>
  BY <1>2 DEF HighIsHigh, Dispatch, cpuVars, queues, procVars
<1> QED
  BY <1>1, <1>2 DEF PassUpOrDie

\* A new process gets its priority while no list holds its control block.
LEMMA CreateHigh ==
  ASSUME TypeOK, HighIsHigh, NEW prio \in Prios, NEW supportp \in Supports,
         CreateProcess(prio, supportp)
  PROVE  HighIsHigh' /\ Dispatch
<1>1. PICK child \in Pcb :
        /\ AllocPcb(child)
        /\ p_prio' = [p_prio EXCEPT ![child] = prio]
        /\ high_ready_q' = IF prio # 0 THEN Append(high_ready_q, child) ELSE high_ready_q
  BY DEF CreateProcess
<1>2. UNCHANGED <<current_p, yielded>> /\ Intact
  BY DEF CreateProcess, Running, Resume, cpuVars
<1>3. child # yielded /\ child \notin Entries(high_ready_q)
  BY <1>1, <1>2 DEF AllocPcb, Intact, Holding
<1>4. high_ready_q \in Seq(Pcb) /\ Entries(high_ready_q) \subseteq Pcb
      /\ p_prio \in [Pcb -> Int] /\ yielded \in Pcb \cup {NULL}
  BY EntriesType DEF TypeOK, CpuTypeOK, ProcTypeOK
<1>5. \A p \in Pcb : p # child => p_prio'[p] = p_prio[p]
  BY <1>1, <1>4
<1>6. Entries(high_ready_q') =
        IF prio # 0 THEN Entries(high_ready_q) \cup {child} ELSE Entries(high_ready_q)
  <2>1. Entries(Append(high_ready_q, child)) = Entries(high_ready_q) \cup {child}
    BY <1>4, EntriesAppend
  <2>2. CASE prio # 0
    BY <1>1, <2>1, <2>2
  <2>3. CASE prio = 0
    BY <1>1, <2>3
  <2> QED
    BY <2>2, <2>3
<1>7. p_prio'[child] = prio
  BY <1>1, <1>4
<1> QED
  BY <1>2, <1>3, <1>4, <1>5, <1>6, <1>7 DEF HighIsHigh, Dispatch

\* Every step dispatches as it should and keeps the high queue high.
LEMMA NextHigh == TypeOK /\ HighIsHigh /\ [Next]_vars => HighIsHigh' /\ [Dispatch]_vars
<1> SUFFICES ASSUME TypeOK, HighIsHigh, [Next]_vars
             PROVE  HighIsHigh' /\ Dispatch
  OBVIOUS
<1>0. /\ high_ready_q \in Seq(Pcb) /\ low_ready_q \in Seq(Pcb)
      /\ current_p \in Pcb => Append(high_ready_q, current_p) \in Seq(Pcb)
                              /\ Append(low_ready_q, current_p) \in Seq(Pcb)
      /\ <<>> \in Seq(Pcb) /\ Entries(<<>>) = {}
      /\ cpu = "RUN" => current_p \in Pcb
  BY EntriesOfNothing, RunningPcb DEF TypeOK, CpuTypeOK
<1>1. ASSUME p_prio' = p_prio, Scheduler(high_ready_q, low_ready_q, yielded, slice)
      PROVE  HighIsHigh' /\ Dispatch
  BY <1>0, <1>1, SchedulerHigh DEF HighIsHigh
<1>2. ASSUME NEW w \in Seq(Pcb), p_prio' = p_prio,
             \/ Scheduler(HighWith(w), LowWith(w), yielded, slice)
             \/ high_ready_q' = HighWith(w) /\ Resume
      PROVE  HighIsHigh' /\ Dispatch
  <2>1. /\ \A p \in Entries(HighWith(w)) : p_prio[p] # 0
        /\ HighWith(w) \in Seq(Pcb) /\ LowWith(w) \in Seq(Pcb)
    BY HighQueues, WithType DEF TypeOK
  <2>2. CASE Scheduler(HighWith(w), LowWith(w), yielded, slice)
    BY <1>2, <2>1, <2>2, SchedulerHigh DEF HighIsHigh
  <2>3. CASE high_ready_q' = HighWith(w) /\ Resume
    BY <1>2, <2>1, <2>3, ResumeHigh DEF Resume, cpuVars
  <2> QED
    BY <1>2, <2>2, <2>3
<1>3. ASSUME NEW s \in UserSem, NEW full \in {0, 1}, UNCHANGED procVars,
             \/ Scheduler(high_ready_q, low_ready_q, yielded, slice)
             \/ high_ready_q' = HighWith(Woken(s, full)) /\ Resume
      PROVE  HighIsHigh' /\ Dispatch
  BY <1>1, <1>2, <1>3, WokenType DEF procVars, TypeOK, Sem
<1>4. CASE Boot
  BY <1>1, <1>4 DEF Boot, procVars
<1>5. ASSUME NEW prio \in Prios, NEW supportp \in Supports, CreateProcess(prio, supportp)
      PROVE  HighIsHigh' /\ Dispatch
  BY <1>5, CreateHigh
<1>6. CASE CreateProcessFails \/ GetParentId \/ ProgramTrap
  BY <1>6, PassUpOrDieHigh DEF CreateProcessFails, GetParentId, ProgramTrap
<1>7. CASE TerminateSelf
  BY <1>7, DieHigh DEF TerminateSelf
<1>8. ASSUME NEW t \in Pcb, TerminatePid(t)
      PROVE  HighIsHigh' /\ Dispatch
  <2>1. CASE PassUpOrDie
    BY <2>1, PassUpOrDieHigh
  <2>2. CASE Exterminate(Subtree(t)) /\ high_ready_q' = HighWithout(Subtree(t)) /\ Resume
    BY <2>2, HighQueues, ResumeHigh DEF TypeOK, Exterminate, Resume, cpuVars
  <2> QED
    BY <1>8, <2>1, <2>2 DEF TerminatePid
<1>9. ASSUME NEW s \in UserSem, Passeren(s)
      PROVE  HighIsHigh' /\ Dispatch
  BY <1>3, <1>9 DEF Passeren
<1>10. ASSUME NEW s \in UserSem, Verhogen(s)
       PROVE  HighIsHigh' /\ Dispatch
  BY <1>3, <1>10 DEF Verhogen
<1>11. ASSUME NEW u \in Unit, DoIO(u)
       PROVE  HighIsHigh' /\ Dispatch
  BY <1>2, <1>11, WokenType, UnitSem DEF DoIO, procVars, TypeOK
<1>12. CASE WaitForClock
  BY <1>2, <1>12, WokenType, ClockSem DEF WaitForClock, procVars, TypeOK
<1>13. CASE Yield
  <2>1. current_p \in Pcb /\ p_prio' = p_prio
    BY <1>0, <1>13 DEF Yield, Running, procVars
  <2>2. Entries(Append(high_ready_q, current_p)) = Entries(high_ready_q) \cup {current_p}
    BY <1>0, <2>1, EntriesAppend
  <2>3. CASE /\ p_prio[current_p] = 0
             /\ Scheduler(high_ready_q, Append(low_ready_q, current_p), yielded, slice)
    BY <1>0, <2>1, <2>3, SchedulerHigh DEF HighIsHigh
  <2>4. CASE p_prio[current_p] # 0 /\ Scheduler(<<>>, low_ready_q, current_p, slice)
    BY <1>0, <2>1, <2>4, SchedulerHigh DEF HighIsHigh
  <2>5. CASE /\ p_prio[current_p] # 0
             /\ Scheduler(Append(high_ready_q, current_p), low_ready_q, yielded, slice)
    BY <1>0, <2>1, <2>2, <2>5, SchedulerHigh DEF HighIsHigh
  <2> QED
    BY <1>13, <2>3, <2>4, <2>5 DEF Yield
<1>14. CASE UnknownSyscall
  BY <1>1, <1>14 DEF UnknownSyscall, procVars
<1>15. ASSUME NEW d \in Device, DeviceInterrupt(d)
       PROVE  HighIsHigh' /\ Dispatch
  <2> DEFINE s == InterruptSem(d[1], d[2], Served(d)[3])
  <2>1. s \in Sem
    BY ServedUnit
  <2>2. \/ UNCHANGED <<current_p, yielded, queues>>
        \/ Scheduler(high_ready_q, low_ready_q, yielded, slice)
        \/ Handback(HighWith(Woken(s, 1)), LowWith(Woken(s, 1)))
    BY <1>15 DEF DeviceInterrupt
  <2> HIDE DEF s
  <2>3. p_prio' = p_prio /\ Woken(s, 1) \in Seq(Pcb)
    BY <1>15, <2>1, WokenType DEF DeviceInterrupt, procVars, TypeOK
  <2>4. CASE UNCHANGED <<current_p, yielded, queues>>
    BY <2>3, <2>4, ResumeHigh DEF HighIsHigh, queues
  <2> QED
    BY <1>1, <2>2, <2>3, <2>4, HandbackHigh
<1>16. CASE IntervalTimerInterrupt
  <2>1. s_procq[CLOCK] \in Seq(Pcb)
    BY ClockSem DEF TypeOK, SemTypeOK
  <2> QED
    BY <1>16, <2>1, HandbackHigh DEF IntervalTimerInterrupt, procVars
<1>17. CASE PLTTimerInterrupt
  BY <1>0, <1>17, SchedulerHigh DEF PLTTimerInterrupt, procVars, HighIsHigh
<1>18. ASSUME NEW u \in Unit, DeviceCompletes(u)
       PROVE  HighIsHigh' /\ Dispatch
  BY <1>18 DEF DeviceCompletes, HighIsHigh, Dispatch, cpuVars, queues, procVars
<1>19. CASE UNCHANGED vars
  BY <1>19 DEF vars, HighIsHigh, Dispatch, cpuVars, queues, procVars
<1> QED
  BY <1>4, <1>5, <1>6, <1>7, <1>8, <1>9, <1>10, <1>11, <1>12, <1>13, <1>14, <1>15,
     <1>16, <1>17, <1>18, <1>19 DEF Next, Syscall, Interrupt

\* The scheduler puts nobody into the low queue.
LEMMA SchedulerLow ==
  ASSUME NEW hq \in Seq(Pcb), NEW lq \in Seq(Pcb), NEW y, NEW t, Scheduler(hq, lq, y, t)
  PROVE  Entries(low_ready_q') \subseteq Entries(lq)
<1>1. CASE hq = <<>> /\ lq # <<>>
  BY <1>1, EntriesTail DEF Scheduler
<1>2. CASE low_ready_q' = lq
  BY <1>2
<1> QED
  BY <1>1, <1>2 DEF Scheduler

\* Whoever is woken into the low queue has another priority than 1.
LEMMA LowQueues ==
  ASSUME CpuTypeOK
  PROVE  /\ \A w \in Seq(Pcb) : \A p \in Entries(LowWith(w)) \ Entries(low_ready_q) : p_prio[p] # 1
         /\ \A K : Entries(LowWithout(K)) \subseteq Entries(low_ready_q)
<1>1. ASSUME NEW w \in Seq(Pcb)
      PROVE  \A p \in Entries(LowWith(w)) \ Entries(low_ready_q) : p_prio[p] # 1
  <2> DEFINE l == Only(w, {p \in Pcb : p_prio[p] # 1})
  <2>1. l \in Seq(Pcb) /\ Entries(l) = Entries(w) \cap {p \in Pcb : p_prio[p] # 1}
    BY OnlyType, OnlyEntries
  <2> HIDE DEF l
  <2>2. Entries(low_ready_q \o l) = Entries(low_ready_q) \cup Entries(l)
    BY <2>1, EntriesConcat DEF CpuTypeOK
  <2>3. LowWith(w) = low_ready_q \o l
    BY DEF LowWith, l
  <2> QED
    BY <2>1, <2>2, <2>3
<1>2. ASSUME NEW K
      PROVE  Entries(LowWithout(K)) \subseteq Entries(low_ready_q)
  BY OnlyEntries DEF LowWithout, CpuTypeOK
<1> QED
  BY <1>1, <1>2

\* A handler that ends with the scheduler or a resumption, lq being its low queue.
LEMMA LowKept ==
  ASSUME NEW hq \in Seq(Pcb), NEW lq \in Seq(Pcb), NEW y, NEW t,
         Scheduler(hq, lq, y, t) \/ low_ready_q' = lq, p_prio' = p_prio,
         \A p \in Entries(lq) \ Entries(low_ready_q) :
            p_prio[p] = 1 => p = current_p /\ slice
  PROVE  Demotion
<1>1. Entries(low_ready_q') \subseteq Entries(lq)
  BY SchedulerLow
<1> QED
  BY <1>1 DEF Demotion

\* Wakeups, by any handler.
LEMMA WakeLow ==
  ASSUME TypeOK, NEW w \in Seq(Pcb), p_prio' = p_prio, NEW y, NEW t,
         Scheduler(HighWith(w), LowWith(w), y, t) \/ low_ready_q' = LowWith(w)
  PROVE  Demotion
<1>1. HighWith(w) \in Seq(Pcb) /\ LowWith(w) \in Seq(Pcb)
  BY WithType DEF TypeOK
<1>2. \A p \in Entries(LowWith(w)) \ Entries(low_ready_q) : p_prio[p] # 1
  BY LowQueues DEF TypeOK
<1> QED
  BY <1>1, <1>2, LowKept

\* Terminations, by any handler.
LEMMA DieLow ==
  ASSUME TypeOK, NEW K, p_prio' = p_prio, NEW y, NEW t,
         Scheduler(HighWithout(K), LowWithout(K), y, t) \/ low_ready_q' = LowWithout(K)
  PROVE  Demotion
<1>1. HighWithout(K) \in Seq(Pcb) /\ LowWithout(K) \in Seq(Pcb)
  BY WithoutType DEF TypeOK
<1>2. Entries(LowWithout(K)) \subseteq Entries(low_ready_q)
  BY LowQueues DEF TypeOK
<1> QED
  BY <1>1, <1>2, LowKept

\* PassUpOrDie.
LEMMA PassUpOrDieLow ==
  ASSUME TypeOK, PassUpOrDie
  PROVE  Demotion
<1>1. CASE Die
  BY <1>1, DieLow DEF Die, Exterminate
<1>2. CASE UNCHANGED <<cpuVars, queues, procVars, semVars, soft_count>>
  BY <1>2 DEF Demotion, queues
<1> QED
  BY <1>1, <1>2 DEF PassUpOrDie

\* Only the end of a time slice puts a process of priority 1 into the low queue.
LEMMA NextLow == TypeOK /\ [Next]_vars => Demotion
<1> SUFFICES ASSUME TypeOK, [Next]_vars PROVE Demotion
  OBVIOUS
<1>0. /\ high_ready_q \in Seq(Pcb) /\ low_ready_q \in Seq(Pcb)
      /\ cpu = "RUN" => current_p \in Pcb
  BY RunningPcb DEF TypeOK, CpuTypeOK
<1>1. ASSUME p_prio' = p_prio, NEW hq \in Seq(Pcb), NEW y, NEW t,
             Scheduler(hq, low_ready_q, y, t)
      PROVE  Demotion
  BY <1>0, <1>1, LowKept
<1>2. ASSUME NEW s \in UserSem, NEW full \in {0, 1}, UNCHANGED procVars,
             \/ Scheduler(high_ready_q, low_ready_q, yielded, slice)
             \/ low_ready_q' = LowWith(Woken(s, full))
      PROVE  Demotion
  BY <1>0, <1>1, <1>2, WakeLow, WokenType DEF procVars, TypeOK, Sem
<1>3. CASE Boot
  BY <1>0, <1>1, <1>3 DEF Boot, procVars
<1>4. ASSUME NEW prio \in Prios, NEW supportp \in Supports, CreateProcess(prio, supportp)
      PROVE  Demotion
  <2>1. PICK child \in Pcb :
          /\ p_prio' = [p_prio EXCEPT ![child] = prio]
          /\ low_ready_q' = IF prio # 0 THEN low_ready_q ELSE Append(low_ready_q, child)
    BY <1>4 DEF CreateProcess
  <2>2. p_prio'[child] = prio
    BY <2>1 DEF TypeOK, ProcTypeOK
  <2>3. CASE prio # 0
    BY <2>1, <2>3 DEF Demotion
  <2>4. CASE prio = 0
    <3>1. Entries(low_ready_q') = Entries(low_ready_q) \cup {child}
      BY <1>0, <2>1, <2>4, EntriesAppend
    <3> QED
      BY <2>2, <2>4, <3>1 DEF Demotion
  <2> QED
    BY <2>3, <2>4
<1>5. CASE CreateProcessFails \/ GetParentId \/ ProgramTrap
  BY <1>5, PassUpOrDieLow DEF CreateProcessFails, GetParentId, ProgramTrap
<1>6. CASE TerminateSelf
  BY <1>6, DieLow DEF TerminateSelf, Die, Exterminate
<1>7. ASSUME NEW t \in Pcb, TerminatePid(t)
      PROVE  Demotion
  <2>1. CASE PassUpOrDie
    BY <2>1, PassUpOrDieLow
  <2>2. CASE Exterminate(Subtree(t)) /\ low_ready_q' = LowWithout(Subtree(t))
    BY <2>2, DieLow DEF Exterminate
  <2> QED
    BY <1>7, <2>1, <2>2 DEF TerminatePid
<1>8. ASSUME NEW s \in UserSem, Passeren(s) \/ Verhogen(s)
      PROVE  Demotion
  BY <1>2, <1>8 DEF Passeren, Verhogen
<1>9. ASSUME NEW u \in Unit, DoIO(u)
      PROVE  Demotion
  BY <1>9, WakeLow, WokenType, UnitSem DEF DoIO, procVars, TypeOK
<1>10. CASE WaitForClock
  BY <1>10, WakeLow, WokenType, ClockSem DEF WaitForClock, procVars, TypeOK
<1>11. CASE Yield
  <2>1. current_p \in Pcb /\ p_prio' = p_prio
    BY <1>0, <1>11 DEF Yield, Running, procVars
  <2>2. CASE /\ p_prio[current_p] = 0
             /\ Scheduler(high_ready_q, Append(low_ready_q, current_p), yielded, slice)
    <3>1. /\ Append(low_ready_q, current_p) \in Seq(Pcb)
          /\ Entries(Append(low_ready_q, current_p)) = Entries(low_ready_q) \cup {current_p}
      BY <1>0, <2>1, EntriesAppend
    <3>2. \A p \in Entries(Append(low_ready_q, current_p)) \ Entries(low_ready_q) :
             p_prio[p] # 1
      BY <2>2, <3>1
    <3> QED
      BY <1>0, <2>1, <2>2, <3>1, <3>2, LowKept
  <2>3. CASE \/ Scheduler(<<>>, low_ready_q, current_p, slice)
             \/ Scheduler(Append(high_ready_q, current_p), low_ready_q, yielded, slice)
    <3>1. <<>> \in Seq(Pcb) /\ Append(high_ready_q, current_p) \in Seq(Pcb)
      BY <1>0, <2>1, EntriesAppend
    <3> QED
      BY <1>1, <2>1, <2>3, <3>1
  <2> QED
    BY <1>11, <2>2, <2>3 DEF Yield
<1>12. CASE UnknownSyscall
  BY <1>0, <1>1, <1>12 DEF UnknownSyscall, procVars
<1>13. ASSUME NEW d \in Device, DeviceInterrupt(d)
       PROVE  Demotion
  <2> DEFINE s == InterruptSem(d[1], d[2], Served(d)[3])
  <2>1. s \in Sem
    BY ServedUnit
  <2>2. \/ UNCHANGED queues
        \/ Scheduler(high_ready_q, low_ready_q, yielded, slice)
        \/ Handback(HighWith(Woken(s, 1)), LowWith(Woken(s, 1)))
    BY <1>13 DEF DeviceInterrupt
  <2> HIDE DEF s
  <2>3. p_prio' = p_prio /\ Woken(s, 1) \in Seq(Pcb)
    BY <1>13, <2>1, WokenType DEF DeviceInterrupt, procVars, TypeOK
  <2>4. CASE UNCHANGED queues
    BY <2>4 DEF Demotion, queues
  <2>5. CASE Handback(HighWith(Woken(s, 1)), LowWith(Woken(s, 1)))
    BY <2>3, <2>5, WakeLow DEF Handback
  <2> QED
    BY <1>0, <1>1, <2>2, <2>3, <2>4, <2>5
<1>14. CASE IntervalTimerInterrupt
  <2>1. s_procq[CLOCK] \in Seq(Pcb)
    BY ClockSem DEF TypeOK, SemTypeOK
  <2> QED
    BY <1>14, <2>1, WakeLow DEF IntervalTimerInterrupt, Handback, procVars
<1>15. CASE PLTTimerInterrupt
  <2>1. current_p \in Pcb /\ p_prio' = p_prio /\ slice
    BY <1>0, <1>15 DEF PLTTimerInterrupt, procVars
  <2>2. /\ Append(low_ready_q, current_p) \in Seq(Pcb)
        /\ Entries(Append(low_ready_q, current_p)) = Entries(low_ready_q) \cup {current_p}
    BY <1>0, <2>1, EntriesAppend
  <2> QED
    BY <1>0, <1>15, <2>1, <2>2, LowKept DEF PLTTimerInterrupt
<1>16. ASSUME NEW u \in Unit, DeviceCompletes(u)
       PROVE  Demotion
  BY <1>16 DEF DeviceCompletes, Demotion, queues
<1>17. CASE UNCHANGED vars
  BY <1>17 DEF vars, Demotion, queues
<1> QED
  BY <1>3, <1>4, <1>5, <1>6, <1>7, <1>8, <1>9, <1>10, <1>11, <1>12, <1>13, <1>14,
     <1>15, <1>16, <1>17 DEF Next, Syscall, Interrupt

\* On every path of every handler, whatever the priorities and the calls: a high
\* process in its own queue gives way to a low one only after it has yielded, and
\* the only way of a process of priority 1 into the low queue is the end of a
\* time slice while it runs.
THEOREM HighGivesWayCorrect == Spec => HighGivesWay
<1>1. Init => HighIsHigh
  BY EntriesOfNothing DEF Init, HighIsHigh
<1>2. Spec => [][Dispatch /\ Demotion]_vars
  BY <1>1, NextHigh, NextLow, TypeCorrect, PTL DEF Spec
<1> QED
  BY <1>2 DEF HighGivesWay
=============================================================================
