---------------------------- MODULE P2TestProofs ----------------------------
(***************************************************************************)
(* The test of phase 2 prints with the terminal to itself, for any number  *)
(* of processes and rounds, up to four leaves, and any parts of p1.        *)
(***************************************************************************)
EXTENDS P2TestProps, PlacesProofs

-----------------------------------------------------------------------------
(* The programs.                                                           *)

\* The stages of FlattenSeq, up to the n-th.
Joined(seqs, g, n) ==
  /\ g[1] = seqs[1]
  /\ \A i \in 2..n : g[i] = g[i - 1] \o seqs[i]

\* The recursion can be followed to any length.
LEMMA JoinedExists ==
  ASSUME NEW seqs, NEW N \in Nat
  PROVE  \A n \in 1..N : \E g : Joined(seqs, g, n)
<1> DEFINE Bad == {n \in 1..N : ~ \E g : Joined(seqs, g, n)}
<1>1. SUFFICES ASSUME Bad # {} PROVE FALSE
  OBVIOUS
<1>2. PICK n \in Bad : \A i \in Bad : n <= i
  <2>1. Bad \in SUBSET Nat
    OBVIOUS
  <2> HIDE DEF Bad
  <2> QED
    BY <1>1, <2>1, LeastNat
<1>3. n # 1
  <2>1. Joined(seqs, [i \in {1} |-> seqs[1]], 1)
    BY DEF Joined
  <2> QED
    BY <2>1
<1>4. n \in 2..N /\ n - 1 \in 1..N /\ n - 1 \notin Bad
  <2>1. n \in 1..N
    OBVIOUS
  <2> HIDE DEF Bad
  <2> QED
    BY <1>2, <1>3, <2>1
<1>5. PICK g : Joined(seqs, g, n - 1)
  BY <1>4
<1> DEFINE last == g[n - 1] \o seqs[n]
           h == [i \in 1..n |-> IF i = n THEN last ELSE g[i]]
<1>6. Joined(seqs, h, n)
  <2>0. n \in 1..n /\ 1 \in 1..(n - 1) /\ \A i \in 1..(n - 1) : i \in 1..n /\ i # n
    BY <1>4
  <2>1. h[1] = g[1] /\ \A i \in 1..(n - 1) : h[i] = g[i]
    BY <2>0
  <2>2. h[n] = last
    BY <2>0
  <2>3. ASSUME NEW k \in 2..n
        PROVE  h[k] = h[k - 1] \o seqs[k]
    <3>1. k - 1 \in 1..(n - 1) /\ h[k - 1] = g[k - 1]
      BY <1>4, <2>1
    <3> HIDE DEF h
    <3>2. CASE k = n
      BY <2>2, <3>1, <3>2
    <3>3. CASE k # n
      <4>1. k \in 2..(n - 1) /\ k \in 1..(n - 1)
        BY <1>4, <3>3
      <4> QED
        BY <1>5, <2>1, <3>1, <4>1 DEF Joined
    <3> QED
      BY <3>2, <3>3
  <2> HIDE DEF h
  <2> QED
    BY <1>5, <2>1, <2>3 DEF Joined
<1> QED
  BY <1>4, <1>6

\* FlattenSeq is the last of such stages.
LEMMA FlattenUnfolds ==
  ASSUME NEW seqs, Len(seqs) \in Nat \ {0}
  PROVE  \E f : Joined(seqs, f, Len(seqs)) /\ FlattenSeq(seqs) = f[Len(seqs)]
<1> DEFINE N == Len(seqs)
           Next1(f) == [i \in 1..Len(seqs) |-> IF i = 1 THEN seqs[i] ELSE f[i - 1] \o seqs[i]]
           flatten == CHOOSE f : f = Next1(f)
<1>1. PICK g : Joined(seqs, g, N)
  <2>1. N \in Nat /\ N \in 1..N
    OBVIOUS
  <2> HIDE DEF N
  <2> QED
    BY <2>1, JoinedExists
<1> DEFINE h == [i \in 1..N |-> g[i]]
<1>2. h = Next1(h)
  <2>1. ASSUME NEW i \in 1..N
        PROVE  g[i] = IF i = 1 THEN seqs[i] ELSE h[i - 1] \o seqs[i]
    <3>1. CASE i = 1
      BY <1>1, <3>1 DEF Joined
    <3>2. CASE i # 1
      <4>1. i \in 2..N /\ i - 1 \in 1..N
        BY <3>2
      <4>2. h[i - 1] = g[i - 1]
        BY <4>1
      <4> HIDE DEF h
      <4> QED
        BY <1>1, <3>2, <4>1, <4>2 DEF Joined
    <3> QED
      BY <3>1, <3>2
  <2> QED
    BY <2>1
<1>3. flatten = Next1(flatten)
  <2> HIDE DEF h
  <2> QED
    BY <1>2
<1>4. FlattenSeq(seqs) = flatten[N]
  BY DEF FlattenSeq
<1> HIDE DEF flatten
<1>5. /\ flatten[1] = seqs[1]
      /\ \A i \in 2..N : flatten[i] = flatten[i - 1] \o seqs[i]
  <2>1. \A i \in 1..N : flatten[i] = IF i = 1 THEN seqs[i] ELSE flatten[i - 1] \o seqs[i]
    BY <1>3
  <2>2. 1 \in 1..N /\ \A i \in 2..N : i \in 1..N /\ i # 1
    OBVIOUS
  <2> QED
    BY <2>1, <2>2
<1> QED
  BY <1>4, <1>5 DEF Joined

\* Sequences of a kind, of which the empty one and any two together are again.
Closes(G) == <<>> \in G /\ \A a, b \in G : a \o b \in G

\* So is what FlattenSeq makes of any number of them.
LEMMA FlattenCloses ==
  ASSUME NEW G, Closes(G), NEW seqs \in Seq(G)
  PROVE  FlattenSeq(seqs) \in G
<1> DEFINE N == Len(seqs)
<1>1. CASE N = 0
  <2>1. seqs = <<>> /\ FlattenSeq(seqs) = seqs
    BY <1>1 DEF FlattenSeq
  <2> QED
    BY <2>1 DEF Closes
<1>2. CASE N # 0
  <2>1. PICK f : Joined(seqs, f, N) /\ FlattenSeq(seqs) = f[N]
    BY <1>2, FlattenUnfolds
  <2> DEFINE Bad == {n \in 1..N : f[n] \notin G}
  <2>2. SUFFICES ASSUME Bad # {} PROVE FALSE
    BY <1>2, <2>1
  <2>3. PICK n \in Bad : \A i \in Bad : n <= i
    <3>1. Bad \in SUBSET Nat
      OBVIOUS
    <3> HIDE DEF Bad
    <3> QED
      BY <2>2, <3>1, LeastNat
  <2>4. n \in 1..N /\ f[n] \notin G
    OBVIOUS
  <2>5. n # 1
    <3>1. seqs[n] \in G
      BY <2>4
    <3> QED
      BY <2>1, <2>4, <3>1 DEF Joined
  <2>6. n \in 2..N /\ n - 1 \in 1..N /\ f[n - 1] \in G
    <3>1. n \in 2..N /\ n - 1 \in 1..N /\ n - 1 < n
      BY <2>4, <2>5
    <3>2. n - 1 \notin Bad
      <4> HIDE DEF Bad
      <4>1. n \in Nat
        BY <2>4
      <4> QED
        BY <2>3, <3>1, <4>1
    <3> QED
      BY <3>1, <3>2
  <2>7. f[n] = f[n - 1] \o seqs[n] /\ seqs[n] \in G
    <3>1. seqs[n] \in G
      BY <2>4
    <3> HIDE DEF Bad, N
    <3>2. f[n] = f[n - 1] \o seqs[n]
      BY <2>1, <2>6 DEF Joined
    <3> QED
      BY <3>1, <3>2
  <2> QED
    BY <2>4, <2>6, <2>7 DEF Closes
<1> QED
  BY <1>1, <1>2

\* The operations of the programs.
Checks == {"own_pid", "parent_is_p8", "parent_is_p9", "zeros", "synch"}
Others == {CLOCKWAIT, YIELD, TERMPROCESS, DOIO, Trap, RefillTLB, Synch, KillParent, DelayP5,
           ResetSems, Error}

Ops == ({"P", "V"} \X UserSem) \cup ({"create"} \X DOMAIN Processes)
         \cup ({"check"} \X Checks) \cup Others

\* In a program the terminal is used only after a P on its semaphore, which is
\* given back only after that; p5 delays after it waited for the clock, and has
\* its TLB refilled after it printed.
InStep(ops, i) ==
  /\ ops[i][1] = "doio" => i > 1 /\ ops[i - 1] = P(sem_term_mut)
  /\ ops[i] = V(sem_term_mut) => i > 1 /\ ops[i - 1][1] = "doio"
  /\ ops[i][1] = "delay" => i > 1 /\ ops[i - 1][1] = "clock"
  /\ ops[i][1] = "refill" => i > 3 /\ ops[i - 3] = P(sem_term_mut)

Programs     == {ops \in Seq(Ops) : \A i \in 1..Len(ops) : InStep(ops, i)}
TestPrograms == {ops \in Programs : \A i \in 1..Len(ops) : ops[i][1] # "kill_parent"}

\* That is kept when programs are put together.
LEMMA ProgramsClose == Closes(Programs) /\ Closes(TestPrograms)
<1>1. <<>> \in Programs /\ <<>> \in TestPrograms
  BY DEF Programs, TestPrograms
<1>2. ASSUME NEW a \in Programs, NEW b \in Programs
      PROVE  /\ a \o b \in Programs
             /\ a \in TestPrograms /\ b \in TestPrograms => a \o b \in TestPrograms
  <2> DEFINE c == a \o b
  <2>1. a \in Seq(Ops) /\ b \in Seq(Ops)
    BY DEF Programs
  <2>2. /\ c \in Seq(Ops) /\ Len(c) = Len(a) + Len(b)
        /\ \A i \in 1..Len(a) : c[i] = a[i]
        /\ \A i \in (Len(a) + 1)..(Len(a) + Len(b)) : c[i] = b[i - Len(a)]
    BY <2>1
  <2> HIDE DEF c
  <2>3. Len(a) \in Nat /\ Len(b) \in Nat
    BY <2>1
  <2>4. ASSUME NEW i \in 1..Len(c)
        PROVE  \/ i \in 1..Len(a) /\ c[i] = a[i]
               \/ i - Len(a) \in 1..Len(b) /\ c[i] = b[i - Len(a)]
    BY <2>2, <2>3
  <2>5. ASSUME NEW i \in 1..Len(c)
        PROVE  InStep(c, i)
    <3>1. CASE i \in 1..Len(a)
      <4>1. InStep(a, i) /\ c[i] = a[i] /\ (i > 1 => c[i - 1] = a[i - 1])
        BY <2>2, <2>3, <3>1 DEF Programs
      <4>2. i > 3 => c[i - 3] = a[i - 3]
        BY <2>2, <2>3, <3>1
      <4> QED
        BY <4>1, <4>2 DEF InStep
    <3>2. CASE i \notin 1..Len(a)
      <4> DEFINE j == i - Len(a)
      <4>1. j \in 1..Len(b) /\ c[i] = b[j] /\ i \in Int
        BY <2>2, <2>3, <3>2
      <4>2. j > 1 => i > 1 /\ c[i - 1] = b[j - 1]
        <5> SUFFICES ASSUME j > 1 PROVE i > 1 /\ c[i - 1] = b[j - 1]
          OBVIOUS
        <5>1. i - 1 \in (Len(a) + 1)..(Len(a) + Len(b)) /\ (i - 1) - Len(a) = j - 1 /\ i > 1
          BY <2>3, <4>1
        <5> QED
          BY <2>2, <5>1
      <4>3. j > 3 => i > 3 /\ c[i - 3] = b[j - 3]
        <5> SUFFICES ASSUME j > 3 PROVE i > 3 /\ c[i - 3] = b[j - 3]
          OBVIOUS
        <5>1. i - 3 \in (Len(a) + 1)..(Len(a) + Len(b)) /\ (i - 3) - Len(a) = j - 3 /\ i > 3
          BY <2>3, <4>1
        <5> QED
          BY <2>2, <5>1
      <4>4. InStep(b, j)
        BY <4>1 DEF Programs
      <4> HIDE DEF j
      <4> QED
        BY <4>1, <4>2, <4>3, <4>4 DEF InStep
    <3> QED
      BY <3>1, <3>2
  <2>6. c \in Programs
    BY <2>2, <2>5 DEF Programs
  <2>7. a \in TestPrograms /\ b \in TestPrograms => c \in TestPrograms
    BY <2>4, <2>6 DEF TestPrograms
  <2> QED
    BY <2>6, <2>7 DEF c
<1>3. TestPrograms \subseteq Programs
  BY DEF TestPrograms
<1> QED
  BY <1>1, <1>2, <1>3 DEF Closes

\* Operations that may stand anywhere.
PlainOps ==
  {op \in Ops : op[1] \notin {"doio", "delay", "refill", "kill_parent"} /\ op # V(sem_term_mut)}

\* A sequence of them is a program.
LEMMA PlainPrograms == Seq(PlainOps) \subseteq TestPrograms /\ TestPrograms \subseteq Programs
<1>1. ASSUME NEW ops \in Seq(PlainOps)
      PROVE  ops \in TestPrograms
  <2>1. ops \in Seq(Ops)
    <3>1. PlainOps \subseteq Ops
      BY DEF PlainOps
    <3> QED
      BY <3>1
  <2>2. \A i \in 1..Len(ops) : ops[i] \in PlainOps
    OBVIOUS
  <2>3. \A i \in 1..Len(ops) : InStep(ops, i) /\ ops[i][1] # "kill_parent"
    BY <2>2 DEF PlainOps, InStep
  <2> QED
    BY <2>1, <2>3 DEF Programs, TestPrograms
<1> QED
  BY <1>1 DEF TestPrograms

\* Most operations of p2test.c are such.
LEMMA PlainFacts ==
  /\ \A s \in TestSems : P(s) \in PlainOps /\ V(s) \in PlainOps
  /\ P(sem_term_mut) \in PlainOps
  /\ \A prog \in DOMAIN Processes : Create(prog) \in PlainOps
  /\ \A what \in Checks : Check(what) \in PlainOps
  /\ CLOCKWAIT \in PlainOps /\ YIELD \in PlainOps /\ TERMPROCESS \in PlainOps
  /\ Trap \in PlainOps /\ Synch \in PlainOps /\ ResetSems \in PlainOps /\ Error \in PlainOps
<1>1. \A s \in TestSems : s \in UserSem /\ s # sem_term_mut
  BY SemsAssumption
<1>2. sem_term_mut \in UserSem
  BY SemsAssumption
<1> DEFINE Plain(op) == op[1] \notin {"doio", "delay", "refill", "kill_parent"} /\ op # V(sem_term_mut)
<1>3. \A op \in Ops : Plain(op) => op \in PlainOps
  BY DEF PlainOps
<1>4. /\ \A s \in UserSem : P(s) \in Ops /\ V(s) \in Ops
      /\ \A prog \in DOMAIN Processes : Create(prog) \in Ops
      /\ \A what \in Checks : Check(what) \in Ops
  BY DEF Ops, P, V, Create, Check
<1>5. /\ CLOCKWAIT \in Ops /\ YIELD \in Ops /\ TERMPROCESS \in Ops
      /\ Trap \in Ops /\ Synch \in Ops /\ ResetSems \in Ops /\ Error \in Ops
  BY DEF Ops, Others
<1>6. \A s \in UserSem : Plain(P(s)) /\ (s # sem_term_mut => Plain(V(s)))
  BY DEF P, V
<1>7. /\ \A prog \in DOMAIN Processes : Plain(Create(prog))
      /\ \A what \in Checks : Plain(Check(what))
  BY DEF Create, Check, V
<1>8. /\ Plain(CLOCKWAIT) /\ Plain(YIELD) /\ Plain(TERMPROCESS)
      /\ Plain(Trap) /\ Plain(Synch) /\ Plain(ResetSems) /\ Plain(Error)
  BY DEF CLOCKWAIT, YIELD, TERMPROCESS, Trap, Synch, ResetSems, Error, V
<1> HIDE DEF Plain
<1> QED
  BY <1>1, <1>2, <1>3, <1>4, <1>5, <1>6, <1>7, <1>8

\* So is print.
LEMMA PrintProgram == print \in TestPrograms
<1>1. /\ P(sem_term_mut) \in Ops /\ V(sem_term_mut) \in Ops /\ DOIO \in Ops
  BY SemsAssumption DEF Ops, Others, P, V
<1>2. /\ print \in Seq(Ops) /\ Len(print) = 3 /\ print[1] = P(sem_term_mut)
      /\ print[2] = DOIO /\ print[3] = V(sem_term_mut)
  BY <1>1 DEF print
<1>3. /\ P(sem_term_mut)[1] = "P" /\ V(sem_term_mut)[1] = "V" /\ DOIO[1] = "doio"
      /\ V(sem_term_mut) # P(sem_term_mut) /\ V(sem_term_mut) # DOIO
  BY DEF P, V, DOIO
<1>4. InStep(print, 1) /\ InStep(print, 2) /\ InStep(print, 3)
  BY <1>2, <1>3 DEF InStep
<1>5. \A i \in 1..Len(print) : InStep(print, i) /\ print[i][1] # "kill_parent"
  BY <1>2, <1>3, <1>4
<1> QED
  BY <1>2, <1>5 DEF Programs, TestPrograms

\* And p5a's store after the message.
LEMMA RefillProgram == p5a \in TestPrograms
<1>1. print \in Seq(Ops) /\ Len(print) = 3 /\ print[1] = P(sem_term_mut)
  <2>1. print \in Seq(Ops)
    BY PrintProgram DEF TestPrograms, Programs
  <2>2. Len(print) = 3 /\ print[1] = P(sem_term_mut)
    BY DEF print
  <2> QED
    BY <2>1, <2>2
<1>2. RefillTLB \in Ops
  BY DEF Ops, Others
<1>3. /\ p5a \in Seq(Ops) /\ Len(p5a) = 4 /\ p5a[4] = RefillTLB
      /\ \A i \in 1..3 : p5a[i] = print[i]
  <2> DEFINE end == <<RefillTLB>>
  <2>1. end \in Seq(Ops) /\ Len(end) = 1 /\ end[1] = RefillTLB
    BY <1>2
  <2>2. ASSUME NEW a \in Seq(Ops), NEW b \in Seq(Ops), Len(a) = 3, Len(b) = 1
        PROVE  /\ a \o b \in Seq(Ops) /\ Len(a \o b) = 4 /\ (a \o b)[4] = b[1]
               /\ \A i \in 1..3 : (a \o b)[i] = a[i]
    <3>1. a \o b \in Seq(Ops)
      OBVIOUS
    <3>2. Len(a \o b) = Len(a) + Len(b)
      OBVIOUS
    <3>3. \A i \in 1..Len(a) : (a \o b)[i] = a[i]
      OBVIOUS
    <3>4. \A i \in (Len(a) + 1)..(Len(a) + Len(b)) : (a \o b)[i] = b[i - Len(a)]
      OBVIOUS
    <3> QED
      BY <2>2, <3>1, <3>2, <3>3, <3>4
  <2>3. p5a = print \o end
    BY DEF p5a
  <2> HIDE DEF end
  <2> QED
    BY <1>1, <2>1, <2>2, <2>3
<1>4. \A i \in 1..3 : InStep(print, i) /\ print[i][1] # "kill_parent"
  BY <1>1, PrintProgram DEF TestPrograms, Programs
<1>5. ASSUME NEW i \in 1..3
      PROVE  InStep(p5a, i) /\ p5a[i][1] # "kill_parent"
  <2>1. /\ InStep(print, i) /\ print[i][1] # "kill_parent" /\ p5a[i] = print[i]
        /\ i > 1 => p5a[i - 1] = print[i - 1]
    BY <1>3, <1>4
  <2> QED
    BY <2>1 DEF InStep
<1>6. InStep(p5a, 4) /\ p5a[4][1] # "kill_parent"
  BY <1>1, <1>3 DEF InStep, RefillTLB, V
<1>7. \A i \in 1..Len(p5a) : InStep(p5a, i) /\ p5a[i][1] # "kill_parent"
  <2>1. \A i \in 1..Len(p5a) : i \in 1..3 \/ i = 4
    BY <1>3
  <2> QED
    BY <1>5, <1>6, <2>1
<1> QED
  BY <1>3, <1>7 DEF Programs, TestPrograms

\* Rounds of the same.
LEMMA TimesProgram ==
  ASSUME NEW n \in Nat, NEW ops \in TestPrograms
  PROVE  Times(n, ops) \in TestPrograms
<1>1. [i \in 1..n |-> ops] \in Seq(TestPrograms)
  OBVIOUS
<1> QED
  BY <1>1, FlattenCloses, ProgramsClose DEF Times

\* The pieces of p5 and p10 that are not plain.
LEMMA DelayProgram ==
  /\ <<P(sem_endp4), CLOCKWAIT, DelayP5, V(sem_blkp4), V(sem_endp5), TERMPROCESS>> \in TestPrograms
  /\ <<Check("parent_is_p9"), KillParent>> \in Programs
<1> DEFINE ops == <<P(sem_endp4), CLOCKWAIT, DelayP5, V(sem_blkp4), V(sem_endp5), TERMPROCESS>>
           end == <<Check("parent_is_p9"), KillParent>>
<1>1. /\ sem_endp4 \in TestSems /\ sem_blkp4 \in TestSems /\ sem_endp5 \in TestSems
      /\ "parent_is_p9" \in Checks
  BY DEF TestSems, Checks
<1>2. /\ P(sem_endp4) \in PlainOps /\ V(sem_blkp4) \in PlainOps /\ V(sem_endp5) \in PlainOps
      /\ CLOCKWAIT \in PlainOps /\ TERMPROCESS \in PlainOps /\ Check("parent_is_p9") \in PlainOps
  BY <1>1, PlainFacts
<1>3. DelayP5 \in Ops /\ KillParent \in Ops
  BY DEF Ops, Others
<1>4. PlainOps \subseteq Ops
  BY DEF PlainOps
<1>5. ops \in Seq(Ops) /\ end \in Seq(Ops)
  BY <1>2, <1>3, <1>4
<1>6. /\ Len(ops) = 6 /\ ops[2] = CLOCKWAIT /\ ops[3] = DelayP5
      /\ \A i \in {1, 2, 4, 5, 6} : ops[i] \in PlainOps
  BY <1>2
<1>7. /\ Len(end) = 2 /\ end[1] \in PlainOps /\ end[2] = KillParent
  BY <1>2
<1> HIDE DEF ops, end
<1>8. \A i \in {1, 2, 4, 5, 6} : InStep(ops, i) /\ ops[i][1] # "kill_parent"
  BY <1>6 DEF InStep, PlainOps
<1>9. InStep(ops, 3) /\ ops[3][1] # "kill_parent"
  BY <1>6 DEF InStep, DelayP5, CLOCKWAIT, V
<1>10. InStep(end, 1)
  BY <1>7 DEF InStep, PlainOps
<1>11. InStep(end, 2)
  BY <1>7 DEF InStep, KillParent, V
<1>12. \A i \in 1..Len(ops) : InStep(ops, i) /\ ops[i][1] # "kill_parent"
  BY <1>6, <1>8, <1>9
<1>13. \A i \in 1..Len(end) : InStep(end, i)
  BY <1>7, <1>10, <1>11
<1>14. ops \in TestPrograms
  BY <1>5, <1>12 DEF Programs, TestPrograms
<1>15. end \in Programs
  BY <1>5, <1>13 DEF Programs
<1> QED
  BY <1>14, <1>15 DEF ops, end

\* The names of the processes.
LEMMA Names ==
  DOMAIN Processes = {"p2", "p3", "p4", "p5", "p6", "p7", "p8root", "child1", "child2",
                      "p8leaf1", "p8leaf2", "p8leaf3", "p8leaf4", "p9", "p10", "hp_p1", "hp_p2"}
  BY DEF Processes

\* p2 to p7.
LEMMA FirstProcesses ==
  p2 \in TestPrograms /\ p3 \in TestPrograms /\ p4 \in TestPrograms
    /\ p5 \in TestPrograms /\ p6 \in TestPrograms /\ p7 \in TestPrograms
<1>1. \A a, b \in TestPrograms : a \o b \in TestPrograms
  BY ProgramsClose DEF Closes
<1>2. \A ops \in Seq(PlainOps) : ops \in TestPrograms
  BY PlainPrograms
<1>3. {sem_startp2, sem_endp2, sem_endp3, sem_synp4, sem_blkp4, sem_endp4} \subseteq TestSems
        /\ Range(s_array) \subseteq TestSems
  BY DEF TestSems
<1>4. {"own_pid", "zeros", "synch"} \subseteq Checks /\ "p4" \in DOMAIN Processes
  BY Names DEF Checks
<1>5. print \in TestPrograms
  BY PrintProgram
<1>6. p2 \in TestPrograms
  <2> DEFINE loop == [i \in DOMAIN s_array |-> <<V(s_array[i]), P(s_array[i]), Check("zeros")>>]
  <2>1. /\ <<P(sem_startp2)>> \in Seq(PlainOps) /\ <<Check("own_pid")>> \in Seq(PlainOps)
        /\ <<Synch, P(sem_endp2), TERMPROCESS>> \in Seq(PlainOps)
    BY <1>3, <1>4, PlainFacts
  <2>2. FlattenSeq(loop) \in TestPrograms
    <3>1. s_array \in Seq(UserSem)
      BY TestAssumption
    <3>2. \A i \in DOMAIN s_array : s_array[i] \in TestSems
      BY <1>3, <3>1 DEF Range
    <3>3. ASSUME NEW i \in DOMAIN s_array
          PROVE  <<V(s_array[i]), P(s_array[i]), Check("zeros")>> \in TestPrograms
      <4>1. V(s_array[i]) \in PlainOps /\ P(s_array[i]) \in PlainOps /\ Check("zeros") \in PlainOps
        BY <1>4, <3>2, PlainFacts
      <4>2. <<V(s_array[i]), P(s_array[i]), Check("zeros")>> \in Seq(PlainOps)
        BY <4>1
      <4> QED
        BY <1>2, <4>2
    <3>4. loop \in Seq(TestPrograms)
      BY <3>1, <3>3
    <3> QED
      BY <3>4, FlattenCloses, ProgramsClose
  <2> HIDE DEF loop
  <2> QED
    BY <1>1, <1>2, <1>5, <2>1, <2>2 DEF p2, loop
<1>7. p3 \in TestPrograms
  <2>1. /\ <<CLOCKWAIT>> \in Seq(PlainOps)
        /\ <<Check("own_pid"), V(sem_endp3), TERMPROCESS>> \in Seq(PlainOps)
    BY <1>3, <1>4, PlainFacts
  <2>2. Times(ClockWaits, <<CLOCKWAIT>>) \in TestPrograms
    BY <1>2, <2>1, TimesProgram, TestAssumption
  <2> QED
    BY <1>1, <1>2, <1>5, <2>1, <2>2 DEF p3
<1>8. p4 \in TestPrograms
  <2>1. /\ <<Check("own_pid"), V(sem_synp4), P(sem_blkp4), P(sem_synp4), Create("p4"),
              P(sem_synp4)>> \in Seq(PlainOps)
        /\ <<V(sem_endp4), TERMPROCESS>> \in Seq(PlainOps)
    BY <1>3, <1>4, PlainFacts
  <2> QED
    BY <1>1, <1>2, <1>5, <2>1 DEF p4
<1>9. p5 \in TestPrograms /\ p6 \in TestPrograms /\ p7 \in TestPrograms
  <2>1. <<Trap>> \in Seq(PlainOps)
    BY PlainFacts
  <2> QED
    BY <1>1, <1>2, <1>5, <2>1, DelayProgram, RefillProgram DEF p5, p6, p7
<1> QED
  BY <1>6, <1>7, <1>8, <1>9

\* The tree of p8, p9 and p10, the processes of high priority.
LEMMA LastProcesses ==
  /\ p8root \in TestPrograms /\ child1 \in TestPrograms /\ child2 \in TestPrograms
  /\ \A i \in 1..4 : p8leaf(i) \in TestPrograms
  /\ p9 \in TestPrograms /\ p10 \in Programs /\ hp_p1 \in TestPrograms /\ hp_p2 \in TestPrograms
<1>1. \A a, b \in TestPrograms : a \o b \in TestPrograms
  BY ProgramsClose DEF Closes
<1>2. \A ops \in Seq(PlainOps) : ops \in TestPrograms
  BY PlainPrograms
<1>3. /\ {sem_endp8, sem_blkp8, sem_blkp9} \subseteq TestSems
      /\ \A i \in 1..NOLEAVES : sem_endcreate[i] \in TestSems
  <2>1. sem_endcreate \in Seq(UserSem)
    BY TestAssumption
  <2> QED
    BY <2>1 DEF TestSems, Range, NOLEAVES
<1>4. NOLEAVES \in 0..4
  <2>1. sem_endcreate \in Seq(UserSem) /\ Len(sem_endcreate) <= 4
    BY TestAssumption
  <2>2. Len(sem_endcreate) \in Nat
    BY <2>1
  <2>3. NOLEAVES \in Nat /\ NOLEAVES <= 4
    BY <2>1, <2>2 DEF NOLEAVES
  <2> QED
    BY <2>3
<1>5. print \in TestPrograms
  BY PrintProgram
<1>6. "parent_is_p8" \in Checks /\ "parent_is_p9" \in Checks
  BY DEF Checks
<1>7. p8root \in TestPrograms
  <2>1. <<Create("child1"), Create("child2")>> \in Seq(PlainOps)
    BY Names, PlainFacts
  <2>2. [i \in 1..NOLEAVES |-> P(sem_endcreate[i])] \in Seq(PlainOps)
    BY <1>3, <1>4, PlainFacts
  <2>3. <<V(sem_endp8), TERMPROCESS>> \in Seq(PlainOps)
    BY <1>3, PlainFacts
  <2> QED
    BY <1>1, <1>2, <1>5, <2>1, <2>2, <2>3 DEF p8root
<1>8. ASSUME NEW leaves \in Seq(DOMAIN Processes)
      PROVE  child(leaves) \in TestPrograms
  <2>1. <<Check("parent_is_p8")>> \in Seq(PlainOps) /\ <<P(sem_blkp8)>> \in Seq(PlainOps)
    BY <1>3, <1>6, PlainFacts
  <2>2. [i \in DOMAIN leaves |-> Create(leaves[i])] \in Seq(PlainOps)
    BY PlainFacts
  <2> QED
    BY <1>1, <1>2, <1>5, <2>1, <2>2 DEF child
<1>9. child1 \in TestPrograms /\ child2 \in TestPrograms
  <2>1. \A i \in 1..4 : Leaf[i] \in DOMAIN Processes
    <3>1. /\ Leaf[1] \in DOMAIN Processes /\ Leaf[2] \in DOMAIN Processes
          /\ Leaf[3] \in DOMAIN Processes /\ Leaf[4] \in DOMAIN Processes
      BY Names DEF Leaf
    <3> QED
      BY <3>1
  <2>2. NOLEAVES \div 2 \in 0..2
    BY <1>4
  <2>3. /\ SubSeq(Leaf, 1, NOLEAVES \div 2) \in Seq(DOMAIN Processes)
        /\ SubSeq(Leaf, NOLEAVES \div 2 + 1, NOLEAVES) \in Seq(DOMAIN Processes)
    <3>1. ASSUME NEW m \in 1..5, NEW n \in (m - 1)..4
          PROVE  SubSeq(Leaf, m, n) \in Seq(DOMAIN Processes)
      <4>1. m \in Int /\ n \in Int /\ \A i \in m..n : i \in 1..4
        OBVIOUS
      <4> QED
        BY <2>1, <4>1
    <3>2. /\ 1 \in 1..5 /\ NOLEAVES \div 2 \in (1 - 1)..4
          /\ NOLEAVES \div 2 + 1 \in 1..5 /\ NOLEAVES \in ((NOLEAVES \div 2 + 1) - 1)..4
      BY <1>4, <2>2
    <3> QED
      BY <3>1, <3>2
  <2> QED
    BY <1>8, <2>3 DEF child1, child2
<1>10. ASSUME NEW i \in 1..4
       PROVE  p8leaf(i) \in TestPrograms
  <2>1. CASE i > NOLEAVES
    BY <2>1, ProgramsClose DEF p8leaf, Closes
  <2>2. CASE ~(i > NOLEAVES)
    <3>1. i \in 1..NOLEAVES
      BY <1>4, <2>2
    <3>2. <<V(sem_endcreate[i]), P(sem_blkp8)>> \in Seq(PlainOps)
      BY <1>3, <3>1, PlainFacts
    <3> QED
      BY <1>1, <1>2, <1>5, <2>2, <3>2 DEF p8leaf
  <2> QED
    BY <2>1, <2>2
<1>11. p9 \in TestPrograms
  <2>1. <<Create("p10"), P(sem_blkp9)>> \in Seq(PlainOps)
    BY <1>3, Names, PlainFacts
  <2> QED
    BY <1>1, <1>2, <1>5, <2>1 DEF p9
<1>12. p10 \in Programs
  <2>1. print \in Programs /\ \A a, b \in Programs : a \o b \in Programs
    BY <1>5, PlainPrograms, ProgramsClose DEF Closes
  <2> QED
    BY <2>1, DelayProgram DEF p10
<1>13. hp_p1 \in TestPrograms /\ hp_p2 \in TestPrograms
  <2>1. /\ <<YIELD>> \in Seq(PlainOps) /\ <<CLOCKWAIT>> \in Seq(PlainOps)
        /\ <<TERMPROCESS>> \in Seq(PlainOps)
    BY PlainFacts
  <2>2. /\ Times(Yields, <<YIELD>>) \in TestPrograms
        /\ Times(ClockWaits, <<CLOCKWAIT>>) \in TestPrograms
    BY <1>2, <2>1, TimesProgram, TestAssumption
  <2> QED
    BY <1>1, <1>2, <1>5, <2>1, <2>2 DEF hp_p1, hp_p2
<1> QED
  BY <1>7, <1>9, <1>10, <1>11, <1>12, <1>13

\* p1, built with any parts.
LEMMA TestProgram ==
  ASSUME NEW parts \in SUBSET PartNames
  PROVE  test(parts) \in TestPrograms
<1> DEFINE If(part, ops) == IF part \in parts THEN ops ELSE <<>>
<1>1. \A a, b \in TestPrograms : a \o b \in TestPrograms
  BY ProgramsClose DEF Closes
<1>2. \A ops \in Seq(PlainOps) : ops \in TestPrograms
  BY PlainPrograms
<1>3. {sem_testsem, sem_startp2, sem_endp2, sem_endp3, sem_endp5, sem_blkp4, sem_endp8} \subseteq TestSems
        /\ "synch" \in Checks
  BY DEF TestSems, Checks
<1>4. print \in TestPrograms
  BY PrintProgram
<1>5. /\ <<V(sem_testsem)>> \in TestPrograms
      /\ <<P(sem_endp3)>> \in TestPrograms /\ <<P(sem_endp5)>> \in TestPrograms
      /\ <<P(sem_blkp4)>> \in TestPrograms /\ <<Trap>> \in TestPrograms
      /\ <<V(sem_startp2), V(sem_endp2), Check("synch")>> \in TestPrograms
  <2>1. /\ <<V(sem_testsem)>> \in Seq(PlainOps)
        /\ <<P(sem_endp3)>> \in Seq(PlainOps) /\ <<P(sem_endp5)>> \in Seq(PlainOps)
        /\ <<P(sem_blkp4)>> \in Seq(PlainOps) /\ <<Trap>> \in Seq(PlainOps)
        /\ <<V(sem_startp2), V(sem_endp2), Check("synch")>> \in Seq(PlainOps)
    BY <1>3, PlainFacts
  <2> QED
    BY <1>2, <2>1
<1>6. /\ \A prog \in DOMAIN Processes : <<Create(prog)>> \in TestPrograms
      /\ <<Create("hp_p1"), Create("hp_p2")>> \in TestPrograms
      /\ <<Create("p4"), Create("p5")>> \in TestPrograms
  <2>1. /\ \A prog \in DOMAIN Processes : <<Create(prog)>> \in Seq(PlainOps)
        /\ <<Create("hp_p1"), Create("hp_p2")>> \in Seq(PlainOps)
        /\ <<Create("p4"), Create("p5")>> \in Seq(PlainOps)
    BY Names, PlainFacts
  <2> QED
    BY <1>2, <2>1
<1>7. /\ <<Create("p2")>> \in TestPrograms /\ <<Create("p3")>> \in TestPrograms
      /\ <<Create("p6")>> \in TestPrograms /\ <<Create("p7")>> \in TestPrograms
      /\ <<Create("p9")>> \in TestPrograms
  BY <1>6, Names
<1>8. Times(P8Incarnations, <<ResetSems, Create("p8root"), P(sem_endp8)>>) \in TestPrograms
  <2>1. <<ResetSems, Create("p8root"), P(sem_endp8)>> \in Seq(PlainOps)
    BY <1>3, Names, PlainFacts
  <2> QED
    BY <1>2, <2>1, TimesProgram, TestAssumption
<1>9. ASSUME NEW part, NEW ops \in TestPrograms
      PROVE  If(part, ops) \in TestPrograms
  BY ProgramsClose DEF Closes
<1>10. /\ If("p2", <<Create("p2")>> \o print \o <<V(sem_startp2), V(sem_endp2), Check("synch")>>) \in TestPrograms
       /\ If("p3", <<Create("p3")>> \o print \o <<P(sem_endp3)>>) \in TestPrograms
       /\ If("hp", <<Create("hp_p1"), Create("hp_p2")>>) \in TestPrograms
       /\ If("p4", <<Create("p4"), Create("p5")>>) \in TestPrograms
       /\ If("p6", <<Create("p6")>>) \in TestPrograms /\ If("p7", <<Create("p7")>>) \in TestPrograms
       /\ If("p9", <<Create("p9")>>) \in TestPrograms
       /\ If("p4", <<P(sem_endp5)>> \o print \o <<P(sem_blkp4)>>) \in TestPrograms
       /\ If("p8", Times(P8Incarnations, <<ResetSems, Create("p8root"), P(sem_endp8)>>)) \in TestPrograms
  <2> HIDE DEF If
  <2> QED
    BY <1>1, <1>4, <1>5, <1>6, <1>7, <1>8, <1>9
<1> DEFINE a2 == If("p2", <<Create("p2")>> \o print \o <<V(sem_startp2), V(sem_endp2), Check("synch")>>)
           a3 == If("p3", <<Create("p3")>> \o print \o <<P(sem_endp3)>>)
           ah == If("hp", <<Create("hp_p1"), Create("hp_p2")>>)
           a4 == If("p4", <<Create("p4"), Create("p5")>>)
           a6 == If("p6", <<Create("p6")>>)
           a7 == If("p7", <<Create("p7")>>)
           a9 == If("p9", <<Create("p9")>>)
           b4 == If("p4", <<P(sem_endp5)>> \o print \o <<P(sem_blkp4)>>)
           b8 == If("p8", Times(P8Incarnations, <<ResetSems, Create("p8root"), P(sem_endp8)>>))
<1>11. test(parts) = <<V(sem_testsem)>> \o print \o a2 \o a3 \o ah \o a4 \o a6 \o a7 \o a9
                       \o b4 \o b8 \o print \o <<Trap>>
  BY Zenon DEF test
<1>12. /\ a2 \in TestPrograms /\ a3 \in TestPrograms /\ ah \in TestPrograms
       /\ a4 \in TestPrograms /\ a6 \in TestPrograms /\ a7 \in TestPrograms
       /\ a9 \in TestPrograms /\ b4 \in TestPrograms /\ b8 \in TestPrograms
  BY <1>10
<1> HIDE DEF a2, a3, ah, a4, a6, a7, a9, b4, b8
<1>13. <<V(sem_testsem)>> \o print \o a2 \o a3 \o ah \in TestPrograms
  BY <1>1, <1>4, <1>5, <1>12
<1>14. <<V(sem_testsem)>> \o print \o a2 \o a3 \o ah \o a4 \o a6 \o a7 \o a9 \in TestPrograms
  BY <1>1, <1>12, <1>13
<1>15. <<V(sem_testsem)>> \o print \o a2 \o a3 \o ah \o a4 \o a6 \o a7 \o a9
         \o b4 \o b8 \o print \o <<Trap>> \in TestPrograms
  BY <1>1, <1>4, <1>5, <1>12, <1>14
<1> QED
  BY <1>11, <1>15

\* What a process executes, to the end of its program.
Prog(name) == Program[name] \o <<Error>>

\* It is of the kind.
LEMMA ProgFacts ==
  ASSUME NEW name \in DOMAIN Program
  PROVE  /\ Prog(name) \in Programs
         /\ name \in DOMAIN Tests => Prog(name) \in TestPrograms
         /\ Program[name] \in Programs
         /\ Len(Prog(name)) = Len(Program[name]) + 1
         /\ Prog(name)[Len(Prog(name))] = Error
<1>1. name \in DOMAIN Tests \cup DOMAIN Processes
  BY DEF Program
<1>2. name \in DOMAIN Tests => Program[name] \in TestPrograms
  <2> SUFFICES ASSUME name \in DOMAIN Tests PROVE Program[name] \in TestPrograms
    OBVIOUS
  <2>1. Tests[name] \in SUBSET PartNames
    BY TestAssumption
  <2> QED
    BY <1>1, <2>1, TestProgram DEF Program
<1>3. name \notin DOMAIN Tests => Program[name] \in Programs
  <2> SUFFICES ASSUME name \notin DOMAIN Tests PROVE Program[name] \in Programs
    OBVIOUS
  <2>1. Program[name] = Processes[name]
    BY <1>1 DEF Program
  <2>2. \A n \in DOMAIN Processes : Processes[n] \in Programs
    BY FirstProcesses, LastProcesses, PlainPrograms, Names DEF Processes
  <2> QED
    BY <1>1, <2>1, <2>2
<1>4. Program[name] \in Programs
  BY <1>2, <1>3, PlainPrograms
<1>5. <<Error>> \in TestPrograms
  <2>1. <<Error>> \in Seq(PlainOps)
    BY PlainFacts
  <2> QED
    BY <2>1, PlainPrograms
<1>6. Prog(name) \in Programs /\ (name \in DOMAIN Tests => Prog(name) \in TestPrograms)
  BY <1>2, <1>4, <1>5, PlainPrograms, ProgramsClose DEF Prog, Closes
<1>7. Program[name] \in Seq(Ops)
  BY <1>4 DEF Programs
<1> QED
  BY <1>4, <1>6, <1>7 DEF Prog

-----------------------------------------------------------------------------
(* Nobody is in two places, whatever processes call: a termination only     *)
(* takes away, and what it forgets stops the machine before a block that is *)
(* still in use is created from.  The conventions of PlacesProofs, which    *)
(* the test breaks, are not needed.                                         *)

\* The processor, the pending yield and the ready queues.
Standing == ({current_p, yielded} \cap Pcb) \cup Entries(high_ready_q) \cup Entries(low_ready_q)

\* Nobody is in two queues of q, in one of them twice, or in one and in R.
Separate(q, R) ==
  \A s \in Sem : /\ NoRepeats(q[s]) /\ Entries(q[s]) \cap R = {}
                 /\ \A r \in Sem : r # s => Entries(q[s]) \cap Entries(q[r]) = {}

Apart ==
  /\ Hold(current_p, yielded, high_ready_q, low_ready_q, Standing)
  /\ Separate(s_procq, Standing)

\* There are both priorities.
LEMMA BothPrios == ~(Prios \subseteq {0}) /\ LowPrios
  BY SemsAssumption DEF LowPrios

\* Where everybody is after a step, and that it is one place.
LEMMA ApartFrom ==
  ASSUME NEW R, Hold(current_p', yielded', high_ready_q', low_ready_q', R), Separate(s_procq', R)
  PROVE  Apart' /\ Standing' = R
<1>1. Standing' = R
  BY DEF Hold, Standing
<1> QED
  BY <1>1 DEF Apart

\* The scheduler loses nobody that is ready.
LEMMA ScheduledApart ==
  ASSUME NEW hq \in Seq(Pcb), NEW lq \in Seq(Pcb), NEW y \in Pcb \cup {NULL}, NEW t, NEW R,
         Hold(NULL, y, hq, lq, R), Separate(s_procq', R), Scheduler(hq, lq, y, t)
  PROVE  Apart' /\ Standing' = R
<1>1. Hold(current_p', yielded', high_ready_q', low_ready_q', R)
  BY HoldScheduled
<1> QED
  BY <1>1, ApartFrom

\* One of R joins a queue.
LEMMA SeparateBlocked ==
  ASSUME NEW q \in [Sem -> Seq(Pcb)], NEW R, NEW s \in Sem, NEW p \in Pcb, p \in R, Separate(q, R)
  PROVE  Separate([q EXCEPT ![s] = Append(@, p)], R \ {p})
<1> DEFINE n == [q EXCEPT ![s] = Append(@, p)]
<1>1. \A r \in Sem : n[r] = IF r = s THEN Append(q[s], p) ELSE q[r]
  OBVIOUS
<1>2. /\ Entries(Append(q[s], p)) = Entries(q[s]) \cup {p}
      /\ p \notin Entries(q[s]) => NoRepeats(Append(q[s], p))
  <2>1. q[s] \in Seq(Pcb) /\ NoRepeats(q[s])
    BY DEF Separate
  <2> QED
    BY <2>1, EntriesAppend
<1>3. \A r \in Sem : p \notin Entries(q[r])
  BY DEF Separate
<1> HIDE DEF n
<1> QED
  BY <1>1, <1>2, <1>3 DEF Separate, n

\* The first of a queue joins R.
LEMMA SeparateWoken ==
  ASSUME NEW q \in [Sem -> Seq(Pcb)], NEW R, NEW s \in Sem, q[s] # <<>>, Separate(q, R)
  PROVE  Separate([q EXCEPT ![s] = Tail(@)], R \cup {Head(q[s])})
<1> DEFINE n == [q EXCEPT ![s] = Tail(@)]
           h == Head(q[s])
<1>1. \A r \in Sem : n[r] = IF r = s THEN Tail(q[s]) ELSE q[r]
  OBVIOUS
<1>2. /\ Entries(q[s]) = Entries(Tail(q[s])) \cup {h}
      /\ NoRepeats(Tail(q[s])) /\ h \notin Entries(Tail(q[s]))
  <2>1. q[s] \in Seq(Pcb) /\ NoRepeats(q[s])
    BY DEF Separate
  <2> QED
    BY <2>1, EntriesTail
<1> HIDE DEF n, h
<1>3. Separate(n, R \cup {h})
  BY <1>1, <1>2 DEF Separate
<1> QED
  BY <1>3 DEF n, h

\* Queues and R only shrink.
LEMMA SeparateRemoved ==
  ASSUME NEW q, NEW n, NEW R, NEW T, Separate(q, R), T \subseteq R,
         \A s \in Sem : NoRepeats(n[s]) /\ Entries(n[s]) \subseteq Entries(q[s])
  PROVE  Separate(n, T)
  BY DEF Separate

\* A whole queue joins R.
LEMMA SeparateCleared ==
  ASSUME NEW q \in [Sem -> Seq(Pcb)], NEW R, NEW s \in Sem, Separate(q, R)
  PROVE  Separate([q EXCEPT ![s] = <<>>], R \cup Entries(q[s]))
<1>1. \A r \in Sem : [q EXCEPT ![s] = <<>>][r] = IF r = s THEN <<>> ELSE q[r]
  OBVIOUS
<1> QED
  BY <1>1, EntriesOfNothing DEF Separate

\* An operation on a semaphore takes the running process in, or the first one
\* that waits out, if there is one.
LEMMA OpApart ==
  ASSUME TypeOK, NEW R, Separate(s_procq, R), NEW s \in Sem, NEW full, NEW next, SemOp(s, full, next)
  PROVE  /\ value[s] = full /\ current_p \in Pcb /\ current_p \in R =>
              /\ value' = value /\ s_procq' = [s_procq EXCEPT ![s] = Append(@, current_p)]
              /\ Entries(s_procq'[s]) = Entries(s_procq[s]) \cup {current_p}
              /\ Separate(s_procq', R \ {current_p})
         /\ value[s] # full =>
              /\ Separate(s_procq', R \cup Entries(Woken(s, full)))
              /\ Entries(Woken(s, full)) \cap R = {} /\ NoRepeats(Woken(s, full))
              /\ Entries(Woken(s, full)) \subseteq Entries(s_procq[s])
              /\ Entries(s_procq'[s]) = Entries(s_procq[s]) \ Entries(Woken(s, full))
              /\ s_procq[s] # <<>> => value' = value
              /\ s_procq[s] = <<>> => /\ value' = [value EXCEPT ![s] = next]
                                     /\ s_procq' = s_procq
         /\ \A r \in Sem : r # s => value'[r] = value[r] /\ s_procq'[r] = s_procq[r]
<1>1. /\ s_procq \in [Sem -> Seq(Pcb)] /\ s_procq[s] \in Seq(Pcb) /\ value \in [Sem -> {0, 1}]
      /\ NoRepeats(s_procq[s]) /\ Entries(s_procq[s]) \cap R = {}
  BY DEF TypeOK, SemTypeOK, Separate
<1>2. CASE value[s] = full
  <2>1. value' = value /\ s_procq' = [s_procq EXCEPT ![s] = Append(@, current_p)]
    BY <1>2 DEF SemOp, InsertBlocked
  <2>2. s_procq'[s] = Append(s_procq[s], current_p)
    BY <1>1, <2>1
  <2>3. current_p \in Pcb => Entries(s_procq'[s]) = Entries(s_procq[s]) \cup {current_p}
    BY <1>1, <2>2, EntriesAppend
  <2>4. current_p \in Pcb /\ current_p \in R => Separate(s_procq', R \ {current_p})
    BY <1>1, <2>1, SeparateBlocked
  <2> QED
    BY <1>1, <1>2, <2>1, <2>3, <2>4
<1>3. CASE value[s] # full /\ s_procq[s] = <<>>
  <2>1. s_procq' = s_procq /\ value' = [value EXCEPT ![s] = next] /\ Woken(s, full) = <<>>
    BY <1>3 DEF SemOp, Woken
  <2>2. Separate(s_procq', R \cup {})
    BY <2>1
  <2> QED
    BY <1>1, <1>3, <2>1, <2>2, EntriesOfNothing
<1>4. CASE value[s] # full /\ s_procq[s] # <<>>
  <2> DEFINE h == Head(s_procq[s])
  <2>1. /\ s_procq' = [s_procq EXCEPT ![s] = Tail(@)] /\ value' = value
        /\ Woken(s, full) = <<h>>
    BY <1>4 DEF SemOp, RemoveBlocked, Woken
  <2>2. Separate(s_procq', R \cup {h})
    BY <1>1, <1>4, <2>1, SeparateWoken
  <2>3. /\ h \in Pcb /\ Entries(s_procq[s]) = Entries(Tail(s_procq[s])) \cup {h}
        /\ h \notin Entries(Tail(s_procq[s]))
    BY <1>1, <1>4, EntriesTail
  <2>4. s_procq'[s] = Tail(s_procq[s])
    BY <1>1, <2>1
  <2>5. \A r \in Sem : r # s => s_procq'[r] = s_procq[r]
    BY <1>1, <2>1
  <2> HIDE DEF h
  <2>6. Entries(<<h>>) = {h} /\ NoRepeats(<<h>>)
    BY <2>3, EntriesOfOne
  <2> QED
    BY <1>1, <1>4, <2>1, <2>2, <2>3, <2>4, <2>5, <2>6
<1> QED
  BY <1>2, <1>3, <1>4

\* Ready queues that only shrink.
LEMMA HoldFewer ==
  ASSUME NEW c, NEW y, NEW hq, NEW lq, NEW R, Hold(c, y, hq, lq, R),
         NEW h, NEW l, NoRepeats(h), NoRepeats(l),
         Entries(h) \subseteq Entries(hq), Entries(l) \subseteq Entries(lq)
  PROVE  LET T == ({c, y} \cap Pcb) \cup Entries(h) \cup Entries(l)
         IN  Hold(c, y, h, l, T) /\ T \subseteq R
  BY BothPrios DEF Hold

\* The ready queues, typed.
LEMMA ReadyTypes ==
  ASSUME TypeOK
  PROVE  /\ high_ready_q \in Seq(Pcb) /\ low_ready_q \in Seq(Pcb) /\ <<>> \in Seq(Pcb)
         /\ current_p \in Pcb \cup {NULL} /\ yielded \in Pcb \cup {NULL}
         /\ Entries(high_ready_q) \cup Entries(low_ready_q) \subseteq Pcb
         /\ cpu = "RUN" => current_p \in Pcb /\ current_p # NULL /\ current_p \in Standing
  BY EntriesType, RunningPcb, NullFacts DEF TypeOK, CpuTypeOK, Standing

\* The scheduler, with ready processes that were standing before.
LEMMA RescheduledApart ==
  ASSUME Apart, UNCHANGED semVars,
         NEW hq \in Seq(Pcb), NEW lq \in Seq(Pcb), NEW y \in Pcb \cup {NULL}, NEW t,
         NEW R \in SUBSET Standing, Hold(NULL, y, hq, lq, R), Scheduler(hq, lq, y, t)
  PROVE  Apart' /\ Standing' \subseteq Standing
<1>1. Separate(s_procq', R)
  BY SeparateRemoved DEF Apart, Separate, semVars
<1> QED
  BY <1>1, ScheduledApart

\* The start, a preemption and a yield, which may overwrite one that is pending.
LEMMA TurnApart ==
  ASSUME TypeOK, Apart, Boot \/ PLTTimerInterrupt \/ Yield
  PROVE  /\ Apart' /\ Standing' \subseteq Standing
         /\ UNCHANGED <<procVars, semVars, soft_count, status>>
<1> DEFINE R == Standing \ {current_p}
<1>1. /\ high_ready_q \in Seq(Pcb) /\ low_ready_q \in Seq(Pcb) /\ <<>> \in Seq(Pcb)
      /\ current_p \in Pcb \cup {NULL} /\ yielded \in Pcb \cup {NULL}
      /\ cpu = "RUN" => current_p \in Pcb /\ current_p # NULL /\ current_p \in Standing
  BY ReadyTypes
<1>2. Hold(NULL, yielded, high_ready_q, low_ready_q, R)
  BY <1>1, HoldLeft DEF Apart
<1>3. R \subseteq Standing /\ current_p \notin R
  OBVIOUS
<1>4. CASE Boot
  BY <1>1, <1>2, <1>3, <1>4, RescheduledApart DEF Boot
<1>5. ASSUME cpu = "RUN",
             UNCHANGED <<procVars, semVars, soft_count, status>>,
             NEW t, Scheduler(high_ready_q, Append(low_ready_q, current_p), yielded, t)
      PROVE  Apart' /\ Standing' \subseteq Standing
  <2> HIDE DEF R
  <2>1. Hold(NULL, yielded, high_ready_q, Append(low_ready_q, current_p), R \cup {current_p})
    BY <1>1, <1>2, <1>3, <1>5, HoldMore
  <2>2. Append(low_ready_q, current_p) \in Seq(Pcb) /\ R \cup {current_p} \subseteq Standing
    BY <1>1, <1>3, <1>5
  <2> QED
    BY <1>1, <1>5, <2>1, <2>2, RescheduledApart
<1>6. CASE PLTTimerInterrupt
  BY <1>5, <1>6 DEF PLTTimerInterrupt
<1>7. CASE Yield
  <2>1. cpu = "RUN" /\ UNCHANGED <<procVars, semVars, soft_count, status>>
    BY <1>7 DEF Yield, Running
  <2>2. CASE p_prio[current_p] = 0
    BY <1>5, <1>7, <2>1, <2>2 DEF Yield
  <2>3. CASE p_prio[current_p] # 0 /\ high_ready_q = <<>>
    <3>1. Scheduler(<<>>, low_ready_q, current_p, slice)
      BY <1>7, <2>3 DEF Yield
    <3> DEFINE T == Entries(low_ready_q)
    <3>2. Hold(NULL, NULL, high_ready_q, low_ready_q, T) /\ T \subseteq R
      BY <1>2, <2>3, EntriesOfNothing, ReadyTypes, NullFacts, BothPrios DEF Hold
    <3> HIDE DEF R, T
    <3>3. current_p \notin T
      BY <1>3, <3>2
    <3>4. Hold(NULL, current_p, high_ready_q, low_ready_q, T \cup {current_p})
      BY <1>1, <2>1, <3>2, <3>3, HoldMore, BothPrios
    <3>5. T \cup {current_p} \subseteq Standing
      BY <1>1, <1>3, <2>1, <3>2
    <3> QED
      BY <1>1, <2>1, <2>3, <3>1, <3>4, <3>5, RescheduledApart
  <2>4. CASE p_prio[current_p] # 0 /\ high_ready_q # <<>>
    <3>1. Scheduler(Append(high_ready_q, current_p), low_ready_q, yielded, slice)
      BY <1>7, <2>4 DEF Yield
    <3> HIDE DEF R
    <3>2. Hold(NULL, yielded, Append(high_ready_q, current_p), low_ready_q, R \cup {current_p})
      BY <1>1, <1>2, <1>3, <2>1, HoldMore, BothPrios
    <3>3. Append(high_ready_q, current_p) \in Seq(Pcb) /\ R \cup {current_p} \subseteq Standing
      BY <1>1, <1>3, <2>1
    <3> QED
      BY <1>1, <2>1, <3>1, <3>2, <3>3, RescheduledApart
  <2> QED
    BY <2>1, <2>2, <2>3, <2>4
<1> QED
  BY <1>4, <1>6, <1>7 DEF Boot, PLTTimerInterrupt

\* Passeren and Verhogen.
LEMMA SemCallApart ==
  ASSUME TypeOK, Apart, cpu = "RUN", NEW s \in Sem, NEW full, SemOp(s, full, full),
         \/ value[s] = full /\ Scheduler(high_ready_q, low_ready_q, yielded, slice)
         \/ /\ value[s] # full
            /\ high_ready_q' = HighWith(Woken(s, full))
            /\ low_ready_q' = LowWith(Woken(s, full)) /\ Resume
  PROVE  Apart' /\ Standing' = IF value[s] = full THEN Standing \ {current_p}
                               ELSE Standing \cup Entries(Woken(s, full))
<1>1. /\ high_ready_q \in Seq(Pcb) /\ low_ready_q \in Seq(Pcb)
      /\ current_p \in Pcb /\ yielded \in Pcb \cup {NULL} /\ current_p \in Standing
  BY ReadyTypes
<1>2. Separate(s_procq, Standing) /\ Hold(current_p, yielded, high_ready_q, low_ready_q, Standing)
  BY DEF Apart
<1>3. CASE value[s] = full
  <2>1. Separate(s_procq', Standing \ {current_p})
    BY <1>1, <1>2, <1>3, OpApart
  <2>2. Hold(NULL, yielded, high_ready_q, low_ready_q, Standing \ {current_p})
    BY <1>1, <1>2, HoldLeft
  <2> QED
    BY <1>1, <1>3, <2>1, <2>2, ScheduledApart
<1>4. CASE value[s] # full
  <2> DEFINE w == Woken(s, full)
  <2>1. w \in Seq(Pcb)
    BY WokenType DEF TypeOK
  <2>2. /\ Separate(s_procq', Standing \cup Entries(w))
        /\ Entries(w) \cap Standing = {} /\ NoRepeats(w)
    BY <1>2, <1>4, OpApart
  <2>3. Hold(current_p, yielded, HighWith(w), LowWith(w), Standing \cup Entries(w))
    BY <1>1, <1>2, <2>1, <2>2, HoldWith, BothPrios DEF TypeOK
  <2>4. /\ high_ready_q' = HighWith(w) /\ low_ready_q' = LowWith(w)
        /\ current_p' = current_p /\ yielded' = yielded
    BY <1>4 DEF Resume, cpuVars
  <2> HIDE DEF w
  <2>5. Apart' /\ Standing' = Standing \cup Entries(w)
    BY <2>2, <2>3, <2>4, ApartFrom
  <2> QED
    BY <1>4, <2>5 DEF w
<1> QED
  BY <1>3, <1>4

\* WaitForClock and DoIO give the processor up in any case.
LEMMA BlockApart ==
  ASSUME TypeOK, Apart, cpu = "RUN", NEW s \in Sem, SemOp(s, 0, 0),
         Scheduler(HighWith(Woken(s, 0)), LowWith(Woken(s, 0)), yielded, slice)
  PROVE  Apart' /\ Standing' = (Standing \ {current_p}) \cup Entries(Woken(s, 0))
<1> DEFINE w == Woken(s, 0)
           R == Standing \ {current_p}
<1>1. /\ high_ready_q \in Seq(Pcb) /\ low_ready_q \in Seq(Pcb) /\ NULL \in Pcb \cup {NULL}
      /\ current_p \in Pcb /\ yielded \in Pcb \cup {NULL} /\ current_p \in Standing
  BY ReadyTypes
<1>2. Separate(s_procq, Standing) /\ Hold(NULL, yielded, high_ready_q, low_ready_q, R)
  BY <1>1, HoldLeft DEF Apart
<1>3. w \in Seq(Pcb)
  BY WokenType DEF TypeOK
<1>4. Separate(s_procq', R \cup Entries(w)) /\ Entries(w) \cap R = {} /\ NoRepeats(w)
  <2>1. CASE value[s] = 0
    <3>1. w = <<>>
      BY <2>1 DEF Woken
    <3>2. Separate(s_procq', Standing \ {current_p})
      BY <1>1, <1>2, <2>1, OpApart
    <3> HIDE DEF w
    <3>3. Entries(w) = {} /\ NoRepeats(w) /\ R \cup {} = R
      BY <3>1, EntriesOfNothing
    <3> QED
      BY <3>2, <3>3
  <2>2. CASE value[s] # 0
    <3>1. Separate(s_procq, R)
      BY <1>2 DEF Separate
    <3> HIDE DEF R
    <3> QED
      BY <2>2, <3>1, OpApart
  <2> QED
    BY <2>1, <2>2
<1> HIDE DEF R
<1>5. Hold(NULL, yielded, HighWith(w), LowWith(w), R \cup Entries(w))
  BY <1>1, <1>2, <1>3, <1>4, HoldWith, BothPrios DEF TypeOK
<1>6. HighWith(w) \in Seq(Pcb) /\ LowWith(w) \in Seq(Pcb)
  BY <1>3, WithType DEF TypeOK
<1>7. Scheduler(HighWith(w), LowWith(w), yielded, slice)
  OBVIOUS
<1> HIDE DEF w
<1>8. Apart' /\ Standing' = R \cup Entries(w)
  BY <1>1, <1>4, <1>5, <1>6, <1>7, ScheduledApart
<1> QED
  BY <1>8 DEF R, w

\* The end of an interrupt handler that made the processes of w ready.
LEMMA HandbackApart ==
  ASSUME TypeOK, Apart, NEW w \in Seq(Pcb), NoRepeats(w), Entries(w) \cap Standing = {},
         Separate(s_procq', Standing \cup Entries(w)), Handback(HighWith(w), LowWith(w))
  PROVE  Apart' /\ Standing' = Standing \cup Entries(w)
<1>1. /\ current_p \in Pcb \cup {NULL} /\ yielded \in Pcb \cup {NULL}
      /\ HighWith(w) \in Seq(Pcb) /\ LowWith(w) \in Seq(Pcb)
  BY ReadyTypes, WithType DEF TypeOK
<1>2. Hold(current_p, yielded, HighWith(w), LowWith(w), Standing \cup Entries(w))
  BY <1>1, HoldWith, BothPrios DEF Apart, TypeOK
<1>3. CASE current_p = NULL /\ Scheduler(HighWith(w), LowWith(w), yielded, slice)
  BY <1>1, <1>2, <1>3, ScheduledApart
<1>4. CASE /\ current_p # NULL /\ high_ready_q' = HighWith(w) /\ low_ready_q' = LowWith(w)
           /\ Resume
  <2>1. current_p' = current_p /\ yielded' = yielded
    BY <1>4 DEF Resume, cpuVars
  <2> QED
    BY <1>2, <1>4, <2>1, ApartFrom
<1> QED
  BY <1>3, <1>4 DEF Handback

\* A tick of the pseudo-clock.
LEMMA TickApart ==
  ASSUME TypeOK, Apart, IntervalTimerInterrupt
  PROVE  Apart' /\ Standing' = Standing \cup Entries(s_procq[CLOCK])
<1> DEFINE w == s_procq[CLOCK]
<1>1. s_procq \in [Sem -> Seq(Pcb)] /\ CLOCK \in Sem /\ w \in Seq(Pcb)
  BY ClockSem DEF TypeOK, SemTypeOK
<1>2. Separate(s_procq, Standing)
  BY DEF Apart
<1>3. NoRepeats(w) /\ Entries(w) \cap Standing = {}
  BY <1>1, <1>2 DEF Separate
<1>4. s_procq' = [s_procq EXCEPT ![CLOCK] = <<>>]
  BY DEF IntervalTimerInterrupt
<1>5. Separate(s_procq', Standing \cup Entries(w))
  BY <1>1, <1>2, <1>4, SeparateCleared
<1>6. Handback(HighWith(w), LowWith(w))
  BY DEF IntervalTimerInterrupt
<1> HIDE DEF w
<1>7. Apart' /\ Standing' = Standing \cup Entries(w)
  BY <1>1, <1>3, <1>5, <1>6, HandbackApart
<1> QED
  BY <1>7 DEF w

\* A device's interrupt.
LEMMA DeviceApart ==
  ASSUME TypeOK, Apart, NEW d \in Device, DeviceInterrupt(d)
  PROVE  Apart'
<1> DEFINE s == InterruptSem(d[1], d[2], Served(d)[3])
           w == Woken(s, 1)
<1>1. s \in Sem
  BY ServedUnit
<1>2. Separate(s_procq, Standing) /\ Hold(current_p, yielded, high_ready_q, low_ready_q, Standing)
  BY DEF Apart
<1>3. \/ UNCHANGED <<slice, current_p, yielded, queues, semVars>>
      \/ /\ value[s] = 1 /\ current_p # NULL /\ SemOp(s, 1, 1)
         /\ Scheduler(high_ready_q, low_ready_q, yielded, slice)
      \/ value[s] # 1 /\ SemOp(s, 1, 1) /\ Handback(HighWith(w), LowWith(w))
  BY DEF DeviceInterrupt
<1> HIDE DEF s
<1>4. CASE UNCHANGED <<slice, current_p, yielded, queues, semVars>>
  <2>1. /\ s_procq' = s_procq /\ current_p' = current_p /\ yielded' = yielded
        /\ high_ready_q' = high_ready_q /\ low_ready_q' = low_ready_q
    BY <1>4 DEF queues, semVars
  <2> QED
    BY <1>2, <2>1, ApartFrom
<1>5. CASE /\ value[s] = 1 /\ current_p # NULL /\ SemOp(s, 1, 1)
           /\ Scheduler(high_ready_q, low_ready_q, yielded, slice)
  <2>1. /\ high_ready_q \in Seq(Pcb) /\ low_ready_q \in Seq(Pcb)
        /\ current_p \in Pcb /\ yielded \in Pcb \cup {NULL} /\ current_p \in Standing
    BY <1>5, ReadyTypes DEF Standing
  <2>2. Separate(s_procq', Standing \ {current_p})
    BY <1>1, <1>2, <1>5, <2>1, OpApart
  <2>3. Hold(NULL, yielded, high_ready_q, low_ready_q, Standing \ {current_p})
    BY <1>2, <2>1, HoldLeft
  <2> QED
    BY <1>5, <2>1, <2>2, <2>3, ScheduledApart
<1>6. CASE value[s] # 1 /\ SemOp(s, 1, 1) /\ Handback(HighWith(w), LowWith(w))
  <2>1. w \in Seq(Pcb)
    BY <1>1, WokenType DEF TypeOK
  <2>2. /\ Separate(s_procq', Standing \cup Entries(w))
        /\ Entries(w) \cap Standing = {} /\ NoRepeats(w)
    BY <1>1, <1>2, <1>6, OpApart
  <2> QED
    BY <1>6, <2>1, <2>2, HandbackApart
<1> QED
  BY <1>3, <1>4, <1>5, <1>6

\* Exterminate leaves every list in its place, but shorter.
LEMMA ExterminateLists ==
  ASSUME TypeOK, Apart, NEW K \in SUBSET Pcb, Exterminate(K)
  PROVE  LET T == ({current_p, yielded} \cap Pcb)
                    \cup Entries(HighWithout(K)) \cup Entries(LowWithout(K))
         IN  /\ T \subseteq Standing /\ Separate(s_procq', T)
             /\ Hold(current_p, yielded, HighWithout(K), LowWithout(K), T)
             /\ HighWithout(K) \in Seq(Pcb) /\ LowWithout(K) \in Seq(Pcb)
             /\ Live' = Live \ K /\ value' = value
             /\ \A s \in Sem : /\ Entries(s_procq'[s]) \subseteq Entries(s_procq[s])
                               /\ Entries(s_procq[s]) \ K \subseteq Entries(s_procq'[s])
<1> DEFINE h == HighWithout(K)
           l == LowWithout(K)
           T == ({current_p, yielded} \cap Pcb) \cup Entries(h) \cup Entries(l)
<1>1. /\ high_ready_q \in Seq(Pcb) /\ low_ready_q \in Seq(Pcb)
      /\ s_procq \in [Sem -> Seq(Pcb)]
  BY ReadyTypes DEF TypeOK, SemTypeOK
<1>2. /\ Hold(current_p, yielded, high_ready_q, low_ready_q, Standing)
      /\ Separate(s_procq, Standing)
  BY DEF Apart
<1>3. /\ Entries(h) \subseteq Entries(high_ready_q) /\ NoRepeats(h)
      /\ Entries(l) \subseteq Entries(low_ready_q) /\ NoRepeats(l)
      /\ h \in Seq(Pcb) /\ l \in Seq(Pcb)
  <2>1. NoRepeats(high_ready_q) /\ NoRepeats(low_ready_q)
    BY <1>2 DEF Hold
  <2>2. h \in Seq(Pcb) /\ l \in Seq(Pcb)
    BY <1>1, OnlyType DEF HighWithout, LowWithout
  <2>3. Entries(h) \subseteq Entries(high_ready_q) /\ NoRepeats(h)
    BY <1>1, <2>1, OnlyEntries DEF HighWithout
  <2>4. Entries(l) \subseteq Entries(low_ready_q) /\ NoRepeats(l)
    BY <1>1, <2>1, OnlyEntries DEF LowWithout
  <2> QED
    BY <2>2, <2>3, <2>4
<1> HIDE DEF h, l
<1>4. Hold(current_p, yielded, h, l, T) /\ T \subseteq Standing
  BY <1>2, <1>3, HoldFewer
<1>5. ASSUME NEW s \in Sem
      PROVE  /\ NoRepeats(s_procq'[s]) /\ Entries(s_procq'[s]) \subseteq Entries(s_procq[s])
             /\ Entries(s_procq[s]) \ K \subseteq Entries(s_procq'[s])
  <2> DEFINE S == Pcb \ {p \in K : p_semAdd[p] = s}
  <2>1. s_procq'[s] = Only(s_procq[s], S)
    BY DEF Exterminate, OutBlocked
  <2>2. s_procq[s] \in Seq(Pcb) /\ NoRepeats(s_procq[s])
    BY <1>1, <1>2 DEF Separate
  <2>3. Entries(s_procq[s]) \subseteq Pcb
    BY <2>2, EntriesType
  <2>4. Pcb \ K \subseteq S
    OBVIOUS
  <2> HIDE DEF S
  <2>5. /\ Entries(s_procq'[s]) = Entries(s_procq[s]) \cap S
        /\ NoRepeats(s_procq'[s])
    BY <2>1, <2>2, OnlyEntries
  <2> QED
    BY <2>3, <2>4, <2>5
<1> HIDE DEF T
<1>6. Separate(s_procq', T)
  BY <1>2, <1>4, <1>5, SeparateRemoved
<1>7. Live' = Live \ K /\ value' = value
  BY DEF Exterminate, FreePcb, Live
<1> QED
  BY <1>3, <1>4, <1>5, <1>6, <1>7 DEF T, h, l

\* A termination, of the running process or of another one.
LEMMA TerminationApart ==
  ASSUME TypeOK, Apart, NEW K \in SUBSET Pcb, Exterminate(K),
         \/ Scheduler(HighWithout(K), LowWithout(K), yielded, slice)
         \/ high_ready_q' = HighWithout(K) /\ low_ready_q' = LowWithout(K) /\ Resume
  PROVE  /\ Apart' /\ Standing' \subseteq Standing
         /\ Live' = Live \ K /\ value' = value
         /\ \A s \in Sem : /\ Entries(s_procq'[s]) \subseteq Entries(s_procq[s])
                           /\ Entries(s_procq[s]) \ K \subseteq Entries(s_procq'[s])
<1> DEFINE h == HighWithout(K)
           l == LowWithout(K)
           T == ({current_p, yielded} \cap Pcb) \cup Entries(h) \cup Entries(l)
<1>1. /\ T \subseteq Standing /\ Separate(s_procq', T)
      /\ Hold(current_p, yielded, h, l, T) /\ h \in Seq(Pcb) /\ l \in Seq(Pcb)
      /\ Live' = Live \ K /\ value' = value
      /\ \A s \in Sem : /\ Entries(s_procq'[s]) \subseteq Entries(s_procq[s])
                        /\ Entries(s_procq[s]) \ K \subseteq Entries(s_procq'[s])
  BY ExterminateLists
<1>2. yielded \in Pcb \cup {NULL}
  BY ReadyTypes
<1>3. CASE Scheduler(h, l, yielded, slice)
  <2> DEFINE R == T \ {current_p}
  <2> HIDE DEF h, l, T
  <2>1. Hold(NULL, yielded, h, l, R)
    BY <1>1, HoldLeft
  <2>2. Separate(s_procq', R)
    BY <1>1 DEF Separate
  <2>3. R \subseteq Standing
    BY <1>1
  <2> HIDE DEF R
  <2> QED
    BY <1>1, <1>2, <1>3, <2>1, <2>2, <2>3, ScheduledApart
<1>4. CASE high_ready_q' = h /\ low_ready_q' = l /\ Resume
  <2>1. current_p' = current_p /\ yielded' = yielded
    BY <1>4 DEF Resume, cpuVars
  <2> HIDE DEF h, l, T
  <2> QED
    BY <1>1, <1>4, <2>1, ApartFrom
<1> QED
  BY <1>3, <1>4

\* A creation takes a block that is in no list.
LEMMA CreationApart ==
  ASSUME TypeOK, Apart, NEW prio \in Prios, NEW supportp \in Supports, NEW new \in pcbFree,
         CreateProcess(prio, supportp), new \notin pcbFree'
  PROVE  /\ Apart' /\ Standing' = Standing \cup {new} /\ Live' = Live \cup {new}
         /\ UNCHANGED <<value, s_procq, status>>
<1>1. PICK c \in Pcb :
        /\ AllocPcb(c)
        /\ high_ready_q' = IF prio # 0 THEN Append(high_ready_q, c) ELSE high_ready_q
        /\ low_ready_q' = IF prio # 0 THEN low_ready_q ELSE Append(low_ready_q, c)
  BY DEF CreateProcess
<1>2. c = new /\ Live' = Live \cup {new}
  BY <1>1 DEF AllocPcb, Live
<1>3. /\ UNCHANGED <<value, s_procq, status>> /\ Intact
      /\ current_p' = current_p /\ yielded' = yielded
  BY DEF CreateProcess, Running, Resume, cpuVars
<1>4. new \notin Standing /\ \A s \in Sem : new \notin Entries(s_procq[s])
  BY <1>3 DEF Intact, Holding, Standing
<1>5. /\ high_ready_q \in Seq(Pcb) /\ low_ready_q \in Seq(Pcb)
      /\ current_p \in Pcb \cup {NULL} /\ yielded \in Pcb \cup {NULL}
  BY ReadyTypes
<1>6. Hold(current_p', yielded', high_ready_q', low_ready_q', Standing \cup {new})
  <2>1. Hold(current_p, yielded, high_ready_q, low_ready_q, Standing)
    BY DEF Apart
  <2> QED
    BY <1>1, <1>2, <1>3, <1>4, <1>5, <2>1, HoldMore, BothPrios
<1>7. Separate(s_procq', Standing \cup {new})
  BY <1>3, <1>4 DEF Apart, Separate
<1> QED
  BY <1>2, <1>3, <1>6, <1>7, ApartFrom

-----------------------------------------------------------------------------
(* Where processes are in their programs.                                  *)

Located ==
  /\ at \in [Pcb -> (DOMAIN Program) \X Nat]
  /\ \A p \in Pcb : at[p][2] \in 1..Len(Prog(at[p][1]))

\* One component of a function's pairs changes.
LEMMA SecondOfPair ==
  ASSUME NEW S, NEW A, NEW f \in [S -> A \X Nat], NEW c \in S, NEW n \in Nat,
         NEW g, g = [f EXCEPT ![c][2] = n]
  PROVE  /\ \A x \in S : f[x][1] \in A /\ f[x][2] \in Nat
         /\ g \in [S -> A \X Nat] /\ g[c][1] = f[c][1] /\ g[c][2] = n
         /\ \A x \in S : x # c => g[x] = f[x]
<1>1. f[c] \in A \X Nat /\ g[c] = [f[c] EXCEPT ![2] = n]
  OBVIOUS
<1>2. [f[c] EXCEPT ![2] = n] = <<f[c][1], n>>
  BY <1>1
<1>3. \A x \in S : x # c => g[x] = f[x]
  OBVIOUS
<1> QED
  BY <1>1, <1>2, <1>3

\* What a process does next is an operation, in step with the one before.
LEMMA UpcomingFacts ==
  ASSUME Located, NEW p \in Pcb
  PROVE  /\ at[p][1] \in DOMAIN Program /\ at[p][2] \in 1..Len(Prog(at[p][1]))
         /\ Upcoming(p) = Prog(at[p][1])[at[p][2]] /\ Upcoming(p) \in Ops
         /\ InStep(Prog(at[p][1]), at[p][2])
         /\ Prog(at[p][1]) \in Seq(Ops)
<1>1. /\ at[p][1] \in DOMAIN Program /\ at[p][2] \in 1..Len(Prog(at[p][1]))
      /\ Upcoming(p) = Prog(at[p][1])[at[p][2]]
  <2>1. at[p] \in (DOMAIN Program) \X Nat
    BY DEF Located
  <2>2. at[p][1] \in DOMAIN Program
    BY <2>1
  <2>3. at[p][2] \in 1..Len(Prog(at[p][1]))
    BY DEF Located
  <2> QED
    BY <2>2, <2>3 DEF Upcoming, Prog
<1>2. Prog(at[p][1]) \in Programs
  BY <1>1, ProgFacts
<1> QED
  BY <1>1, <1>2 DEF Programs

\* The arguments of the operations.
LEMMA Arguments ==
  ASSUME NEW op \in Ops
  PROVE  /\ op[1] \in {"P", "V"} => op[2] \in UserSem /\ op = <<op[1], op[2]>>
         /\ op[1] = "create" => op[2] \in DOMAIN Processes
  BY DEF Ops, Others, CLOCKWAIT, YIELD, TERMPROCESS, DOIO, Trap, RefillTLB, Synch,
         KillParent, DelayP5, ResetSems, Error

\* At the terminal, but for those who still wait for their turn.
Talks(p) == Upcoming(p)[1] = "doio" \/ Upcoming(p) = V(sem_term_mut)

\* The next operation.  Only after a P for the terminal does a process write to
\* it, and only after that does it give the terminal back.
LEMMA Advance ==
  ASSUME Located, NEW c \in Pcb, Upcoming(c)[1] # "error",
         at' = [at EXCEPT ![c][2] = @ + 1]
  PROVE  /\ Located' /\ \A p \in Pcb : at'[p][1] = at[p][1]
         /\ \A p \in Pcb : p # c => Upcoming(p)' = Upcoming(p)
         /\ (Upcoming(c)[1] = "doio")' => Upcoming(c) = P(sem_term_mut)
         /\ (Upcoming(c) = V(sem_term_mut))' => Upcoming(c)[1] = "doio"
<1> DEFINE prog == Prog(at[c][1])
           i == at[c][2]
<1>1. /\ at[c][1] \in DOMAIN Program /\ i \in 1..Len(prog) /\ Upcoming(c) = prog[i]
      /\ prog \in Seq(Ops)
  BY UpcomingFacts
<1>2. prog \in Programs /\ prog[Len(prog)] = Error
  BY <1>1, ProgFacts
<1>3. i # Len(prog)
  BY <1>1, <1>2 DEF Error
<1>4. i + 1 \in 1..Len(prog) /\ i + 1 > 1 /\ (i + 1) - 1 = i /\ i + 1 \in Nat
  BY <1>1, <1>3
<1>5. InStep(prog, i + 1)
  BY <1>2, <1>4 DEF Programs
<1>6. at \in [Pcb -> (DOMAIN Program) \X Nat]
  BY DEF Located
<1>7. /\ at' \in [Pcb -> (DOMAIN Program) \X Nat] /\ at'[c][1] = at[c][1] /\ at'[c][2] = i + 1
      /\ \A p \in Pcb : p # c => at'[p] = at[p]
  <2>1. at' = [at EXCEPT ![c][2] = i + 1]
    OBVIOUS
  <2> HIDE DEF prog, i
  <2> QED
    BY <1>4, <1>6, <2>1, SecondOfPair
<1>8. Upcoming(c)' = prog[i + 1]
  BY <1>7 DEF Upcoming, Prog
<1>9. \A p \in Pcb : p # c => Upcoming(p)' = Upcoming(p)
  BY <1>7 DEF Upcoming
<1>10. \A p \in Pcb : at'[p][1] = at[p][1]
  BY <1>7
<1>11. Located'
  <2>1. ASSUME NEW p \in Pcb
        PROVE  at'[p][2] \in 1..Len(Prog(at'[p][1]))
    <3>1. CASE p = c
      BY <1>4, <1>7, <3>1
    <3>2. CASE p # c
      BY <1>7, <3>2 DEF Located
    <3> QED
      BY <3>1, <3>2
  <2> QED
    BY <1>7, <2>1 DEF Located, Prog
<1> HIDE DEF prog, i
<1>12. /\ prog[i + 1][1] = "doio" => prog[i] = P(sem_term_mut)
       /\ prog[i + 1] = V(sem_term_mut) => prog[i][1] = "doio"
  BY <1>4, <1>5 DEF InStep
<1> QED
  BY <1>1, <1>8, <1>9, <1>10, <1>11, <1>12

-----------------------------------------------------------------------------
(* Who has the terminal.                                                   *)

\* Ready or in a queue, but for those of the terminal and its semaphore.
Aside == Standing \cup UNION {Entries(s_procq[s]) : s \in Sem \ {sem_term_mut, SemOf(Terminal)}}

\* While its semaphore is up, nobody has the terminal or waits for it.
TerminalFree ==
  value[sem_term_mut] = 1 =>
    s_procq[sem_term_mut] = <<>> /\ status[Terminal] = "READY" /\ \A p \in Pcb : ~Prints(p)

OnePrints == \A p, q \in Pcb : Prints(p) /\ Prints(q) => q = p

\* Whoever waits for the terminal has not written yet.
WaitersFirst == \A p \in Entries(s_procq[sem_term_mut]) : Upcoming(p) # V(sem_term_mut)

\* While the terminal is at work, the process that started it is blocked on it,
\* or nowhere, when it was its operation that an earlier completion let pass.
BusyWaited ==
  status[Terminal] # "READY" => \A p \in Live :
    /\ Upcoming(p)[1] = "doio" => p \in Entries(s_procq[sem_term_mut])
    /\ Upcoming(p) = V(sem_term_mut) => p \notin Aside

\* The test uses no other unit.
OthersIdle == \A u \in Unit : u # Terminal => status[u] = "READY"

Printing == TerminalFree /\ OnePrints /\ WaitersFirst /\ BusyWaited /\ OthersIdle

\* It is what was to be shown.
LEMMA PrintingExclusive == Printing => TerminalExclusive
<1> SUFFICES ASSUME Printing, NEW p \in Pcb, Prints(p)
             PROVE  /\ \A q \in Pcb : Prints(q) => q = p
                    /\ Upcoming(p)[1] = "doio" => status[Terminal] = "READY"
  BY DEF TerminalExclusive
<1>1. \A q \in Pcb : Prints(q) => q = p
  BY DEF Printing, OnePrints
<1>2. Upcoming(p)[1] = "doio" => status[Terminal] = "READY"
  BY DEF Printing, BusyWaited, Prints
<1> QED
  BY <1>1, <1>2

\* The terminal's semaphore has a step of its own or none: nobody but the
\* processes of N comes to life, and its queue loses only the dead.
Calm(N) ==
  /\ Live' \subseteq Live \cup N
  /\ value'[sem_term_mut] = value[sem_term_mut]
  /\ Entries(s_procq'[sem_term_mut]) \subseteq Entries(s_procq[sem_term_mut])
  /\ Live' \cap Entries(s_procq[sem_term_mut]) \subseteq Entries(s_procq'[sem_term_mut])

\* Then nothing changes about the terminal, when whoever moves in its program
\* is not at the terminal afterwards.
LEMMA PrintingKept ==
  ASSUME TypeOK, TypeOK', Printing, NEW N, Calm(N), \A p \in N : ~Talks(p)',
         \A p \in Pcb : Upcoming(p)' = Upcoming(p) \/ ~Talks(p)',
         \A u \in Unit : u # Terminal => status'[u] = "READY",
         status'[Terminal] # "READY" =>
           status[Terminal] # "READY" /\ Aside' \subseteq Aside \cup N
  PROVE  Printing'
<1> DEFINE q == Entries(s_procq[sem_term_mut])
           r == Entries(s_procq'[sem_term_mut])
<1>1. /\ sem_term_mut \in Sem /\ s_procq \in [Sem -> Seq(Pcb)] /\ s_procq' \in [Sem -> Seq(Pcb)]
  BY SemsAssumption DEF TypeOK, SemTypeOK, Sem
<1>2. /\ Entries(s_procq[sem_term_mut]) = {} <=> s_procq[sem_term_mut] = <<>>
      /\ Entries(s_procq'[sem_term_mut]) = {} <=> s_procq'[sem_term_mut] = <<>>
      /\ r \subseteq Pcb
  BY <1>1, EntriesType
<1>3. /\ Live' \subseteq Live \cup N /\ r \subseteq q /\ Live' \cap q \subseteq r
      /\ value'[sem_term_mut] = value[sem_term_mut] /\ Live \subseteq Pcb /\ Live' \subseteq Pcb
  BY DEF Calm, Live
<1>4. ASSUME NEW p \in Pcb, Talks(p)'
      PROVE  Upcoming(p)' = Upcoming(p) /\ Talks(p) /\ p \notin N
  <2>1. Upcoming(p)' = Upcoming(p) /\ p \notin N
    BY <1>4
  <2> QED
    BY <1>4, <2>1 DEF Talks, V
<1>5. ASSUME NEW p \in Pcb, Prints(p)'
      PROVE  Prints(p)
  <2>1. p \in Live' /\ p \notin r /\ Talks(p)'
    BY <1>5 DEF Prints, Talks
  <2>2. Talks(p) /\ p \notin N
    BY <1>4, <2>1
  <2> QED
    BY <1>3, <2>1, <2>2 DEF Prints, Talks
<1>6. TerminalFree'
  <2> SUFFICES ASSUME value'[sem_term_mut] = 1
               PROVE  /\ s_procq'[sem_term_mut] = <<>> /\ status'[Terminal] = "READY"
                      /\ \A p \in Pcb : ~Prints(p)'
    BY DEF TerminalFree, Terminal
  <2>1. /\ s_procq[sem_term_mut] = <<>> /\ status[Terminal] = "READY"
        /\ \A p \in Pcb : ~Prints(p)
    BY <1>3 DEF Printing, TerminalFree
  <2> QED
    BY <1>2, <1>3, <1>5, <2>1
<1>7. OnePrints'
  <2> SUFFICES ASSUME NEW p \in Pcb, NEW o \in Pcb, Prints(p)', Prints(o)'
               PROVE  o = p
    BY DEF OnePrints
  <2> QED
    BY <1>5 DEF Printing, OnePrints
<1>8. WaitersFirst'
  <2> SUFFICES ASSUME NEW p \in r, (Upcoming(p) = V(sem_term_mut))'
               PROVE  FALSE
    BY DEF WaitersFirst
  <2>1. p \in Pcb /\ Talks(p)'
    BY <1>2 DEF Talks
  <2>2. Upcoming(p)' = Upcoming(p)
    BY <1>4, <2>1
  <2> QED
    BY <1>3, <2>2 DEF Printing, WaitersFirst, V
<1>9. BusyWaited'
  <2> SUFFICES ASSUME status'[Terminal] # "READY", NEW p \in Live'
               PROVE  /\ (Upcoming(p)[1] = "doio")' => p \in r
                      /\ (Upcoming(p) = V(sem_term_mut))' => p \notin Aside'
    BY DEF BusyWaited, Terminal
  <2>1. status[Terminal] # "READY" /\ Aside' \subseteq Aside \cup N /\ p \in Pcb
    BY <1>3
  <2>2. ASSUME (Upcoming(p)[1] = "doio")' PROVE p \in r
    <3>1. Upcoming(p)' = Upcoming(p) /\ p \notin N
      BY <1>4, <2>1, <2>2 DEF Talks
    <3>2. p \in Live /\ Upcoming(p)[1] = "doio"
      BY <1>3, <2>2, <3>1
    <3>3. p \in q
      BY <2>1, <3>2 DEF Printing, BusyWaited
    <3> QED
      BY <1>3, <3>3
  <2>3. ASSUME (Upcoming(p) = V(sem_term_mut))' PROVE p \notin Aside'
    <3>1. Upcoming(p)' = Upcoming(p) /\ p \notin N
      BY <1>4, <2>1, <2>3 DEF Talks
    <3>2. p \in Live /\ Upcoming(p) = V(sem_term_mut)
      BY <1>3, <2>3, <3>1 DEF V
    <3>3. p \notin Aside
      BY <2>1, <3>2 DEF Printing, BusyWaited
    <3> QED
      BY <2>1, <3>1, <3>3
  <2> QED
    BY <2>2, <2>3
<1>10. OthersIdle'
  BY DEF OthersIdle, Terminal
<1> QED
  BY <1>6, <1>7, <1>8, <1>9, <1>10 DEF Printing

-----------------------------------------------------------------------------
(* The steps that are not about the terminal.                              *)

\* The terminal, its semaphore and that of processes.
LEMMA TerminalFacts ==
  /\ Terminal \in Unit /\ SemOf(Terminal) \in Sem /\ SemOf(Terminal) \in DevSem
  /\ SemOf(Terminal) # CLOCK /\ CLOCK \in Sem /\ CLOCK \notin UserSem
  /\ sem_term_mut \in UserSem /\ sem_term_mut \in Sem /\ UserSem \subseteq Sem
  /\ sem_term_mut # SemOf(Terminal) /\ sem_term_mut # CLOCK /\ SemOf(Terminal) \notin UserSem
<1>1. Terminal \in Unit
  <2>1. <<TERMLINE, 0>> \in Device
    BY SemsAssumption
  <2>2. <<TERMLINE, 0>>[1] = TERMLINE /\ <<TERMLINE, 0>>[2] = 0 /\ "transm" \in UnitsOf(TERMLINE)
    BY DEF UnitsOf
  <2> QED
    BY <2>1, <2>2 DEF Unit, Terminal
<1>2. sem_term_mut \in UserSem /\ UserSem \subseteq Sem /\ CLOCK \in DevSem
  BY SemsAssumption DEF Sem, DevSem
<1> QED
  BY <1>1, <1>2, UnitSem, UnitSemNumbers, ClockSem

\* Nobody comes to life, and the terminal's semaphore is left alone.
LEMMA CalmWhenKept ==
  ASSUME Live' \subseteq Live, value'[sem_term_mut] = value[sem_term_mut],
         s_procq'[sem_term_mut] = s_procq[sem_term_mut]
  PROVE  Calm({})
  BY DEF Calm

\* The semaphores do not change.
LEMMA StillCalm ==
  ASSUME UNCHANGED semVars, Live' \subseteq Live, Standing' \subseteq Standing
  PROVE  Calm({}) /\ Aside' \subseteq Aside
<1>1. value' = value /\ s_procq' = s_procq
  BY DEF semVars
<1>2. Calm({})
  BY <1>1, CalmWhenKept
<1>3. Aside' \subseteq Aside
  BY <1>1 DEF Aside, Terminal
<1> QED
  BY <1>2, <1>3

\* An operation on another semaphore moves processes from aside to aside.
LEMMA OpCalm ==
  ASSUME TypeOK, Apart, cpu = "RUN", UNCHANGED procVars, NEW s \in Sem, NEW full, NEW next,
         s # sem_term_mut, s # SemOf(Terminal), SemOp(s, full, next),
         Standing' \subseteq Standing \cup Entries(Woken(s, full))
  PROVE  Calm({}) /\ Aside' \subseteq Aside
<1>1. current_p \in Pcb /\ current_p \in Standing
  BY ReadyTypes
<1>2. Separate(s_procq, Standing)
  BY DEF Apart
<1>3. Live' = Live
  BY DEF Live, procVars
<1>4. /\ \A r \in Sem : r # s => value'[r] = value[r] /\ s_procq'[r] = s_procq[r]
      /\ Entries(s_procq'[s]) \subseteq Entries(s_procq[s]) \cup {current_p}
      /\ Entries(Woken(s, full)) \subseteq Entries(s_procq[s])
  <2>1. CASE value[s] = full
    <3>1. Woken(s, full) = <<>>
      BY <2>1 DEF Woken
    <3> QED
      BY <1>1, <1>2, <2>1, <3>1, OpApart, EntriesOfNothing
  <2>2. CASE value[s] # full
    <3>1. /\ Entries(Woken(s, full)) \subseteq Entries(s_procq[s])
          /\ Entries(s_procq'[s]) = Entries(s_procq[s]) \ Entries(Woken(s, full))
      BY <1>2, <2>2, OpApart
    <3>2. \A r \in Sem : r # s => value'[r] = value[r] /\ s_procq'[r] = s_procq[r]
      BY <1>2, OpApart
    <3> QED
      BY <3>1, <3>2
  <2> QED
    BY <2>1, <2>2
<1>5. Calm({})
  BY <1>3, <1>4, CalmWhenKept, TerminalFacts
<1>6. ASSUME NEW p \in Aside'
      PROVE  p \in Aside
  <2>1. CASE p \in Standing'
    BY <1>4, <2>1 DEF Aside
  <2>2. CASE p \notin Standing'
    <3>1. PICK r \in Sem \ {sem_term_mut, SemOf(Terminal)} : p \in Entries(s_procq'[r])
      BY <1>6, <2>2 DEF Aside, Terminal
    <3>2. p \in Entries(s_procq[r]) \/ p = current_p
      BY <1>4, <3>1
    <3> QED
      BY <1>1, <3>1, <3>2 DEF Aside
  <2> QED
    BY <2>1, <2>2
<1> QED
  BY <1>5, <1>6

\* Passeren and Verhogen on one of the test's other semaphores.
LEMMA SemCallCalm ==
  ASSUME TypeOK, Apart, NEW s \in UserSem, s # sem_term_mut, Passeren(s) \/ Verhogen(s)
  PROVE  Apart' /\ Calm({}) /\ Aside' \subseteq Aside /\ status' = status
<1>1. PICK full \in {0, 1} :
        /\ cpu = "RUN" /\ UNCHANGED <<procVars, soft_count, status>> /\ SemOp(s, full, full)
        /\ \/ value[s] = full /\ Scheduler(high_ready_q, low_ready_q, yielded, slice)
           \/ /\ value[s] # full
              /\ high_ready_q' = HighWith(Woken(s, full))
              /\ low_ready_q' = LowWith(Woken(s, full)) /\ Resume
  BY DEF Passeren, Verhogen, Running
<1>2. s \in Sem /\ s # SemOf(Terminal)
  BY TerminalFacts
<1>3. Apart' /\ Standing' = IF value[s] = full THEN Standing \ {current_p}
                            ELSE Standing \cup Entries(Woken(s, full))
  BY <1>1, <1>2, SemCallApart
<1>4. Standing' \subseteq Standing \cup Entries(Woken(s, full))
  BY <1>3
<1> QED
  BY <1>1, <1>2, <1>3, <1>4, OpCalm

\* Waiting for the clock.
LEMMA ClockCalm ==
  ASSUME TypeOK, Apart, WaitForClock
  PROVE  Apart' /\ Calm({}) /\ Aside' \subseteq Aside /\ status' = status
<1>1. /\ cpu = "RUN" /\ SemOp(CLOCK, 0, 0) /\ UNCHANGED <<procVars, status>>
      /\ Scheduler(HighWith(Woken(CLOCK, 0)), LowWith(Woken(CLOCK, 0)), yielded, slice)
  BY DEF WaitForClock, Running
<1>2. CLOCK \in Sem /\ CLOCK # sem_term_mut /\ CLOCK # SemOf(Terminal)
  BY TerminalFacts
<1>3. Apart' /\ Standing' = (Standing \ {current_p}) \cup Entries(Woken(CLOCK, 0))
  BY <1>1, <1>2, BlockApart
<1>4. Standing' \subseteq Standing \cup Entries(Woken(CLOCK, 0))
  BY <1>3
<1> QED
  BY <1>1, <1>2, <1>3, <1>4, OpCalm

\* A tick.
LEMMA TickCalm ==
  ASSUME TypeOK, Apart, IntervalTimerInterrupt
  PROVE  Apart' /\ Calm({}) /\ Aside' \subseteq Aside /\ status' = status
<1>1. Apart' /\ Standing' = Standing \cup Entries(s_procq[CLOCK])
  BY TickApart
<1>2. /\ s_procq \in [Sem -> Seq(Pcb)] /\ value \in [Sem -> {0, 1}]
      /\ CLOCK \in Sem /\ CLOCK # sem_term_mut /\ CLOCK # SemOf(Terminal) /\ sem_term_mut \in Sem
  BY TerminalFacts DEF TypeOK, SemTypeOK
<1>3. /\ s_procq' = [s_procq EXCEPT ![CLOCK] = <<>>] /\ value' = [value EXCEPT ![CLOCK] = 0]
      /\ UNCHANGED procVars /\ status' = status
  BY DEF IntervalTimerInterrupt
<1>4. \A s \in Sem : /\ s # CLOCK => value'[s] = value[s] /\ s_procq'[s] = s_procq[s]
                     /\ s = CLOCK => s_procq'[s] = <<>>
  BY <1>2, <1>3
<1>5. Calm({})
  <2>1. Live' = Live
    BY <1>3 DEF Live, procVars
  <2> QED
    BY <1>2, <1>4, <2>1, CalmWhenKept
<1>6. \A s \in Sem : Entries(s_procq'[s]) \subseteq Entries(s_procq[s])
  BY <1>4, EntriesOfNothing
<1>7. Entries(s_procq[CLOCK]) \subseteq Aside
  BY <1>2 DEF Aside
<1>8. Aside' \subseteq Aside
  BY <1>1, <1>6, <1>7 DEF Aside, Terminal
<1> QED
  BY <1>1, <1>3, <1>5, <1>8

\* Terminations, which take only the dead from the terminal's queue.
LEMMA TerminationCalm ==
  ASSUME TypeOK, Apart, NEW K \in SUBSET Pcb, Exterminate(K),
         \/ Scheduler(HighWithout(K), LowWithout(K), yielded, slice)
         \/ high_ready_q' = HighWithout(K) /\ low_ready_q' = LowWithout(K) /\ Resume
  PROVE  Apart' /\ Calm({}) /\ Aside' \subseteq Aside
<1>1. /\ Apart' /\ Standing' \subseteq Standing
      /\ Live' = Live \ K /\ value' = value
      /\ \A s \in Sem : /\ Entries(s_procq'[s]) \subseteq Entries(s_procq[s])
                        /\ Entries(s_procq[s]) \ K \subseteq Entries(s_procq'[s])
  BY TerminationApart
<1>2. Calm({})
  BY <1>1, TerminalFacts DEF Calm
<1>3. Aside' \subseteq Aside
  BY <1>1 DEF Aside, Terminal
<1> QED
  BY <1>1, <1>2, <1>3

\* An exception.
LEMMA PassUpOrDieCalm ==
  ASSUME TypeOK, Apart, cpu = "RUN", PassUpOrDie
  PROVE  Apart' /\ Calm({}) /\ Aside' \subseteq Aside
<1>1. CASE UNCHANGED <<cpuVars, queues, procVars, semVars, soft_count>>
  <2>1. /\ current_p' = current_p /\ yielded' = yielded /\ s_procq' = s_procq
        /\ high_ready_q' = high_ready_q /\ low_ready_q' = low_ready_q /\ Live' = Live
    BY <1>1 DEF cpuVars, queues, semVars, procVars, Live
  <2>2. Apart' /\ Standing' = Standing
    <3>1. Hold(current_p, yielded, high_ready_q, low_ready_q, Standing) /\ Separate(s_procq, Standing)
      BY DEF Apart
    <3> QED
      BY <2>1, <3>1, ApartFrom
  <2> QED
    BY <1>1, <2>1, <2>2, StillCalm
<1>2. CASE Die
  <2>1. Subtree(current_p) \in SUBSET Pcb
    BY RunningPcb, SubtreeType
  <2> QED
    BY <1>2, <2>1, TerminationCalm DEF Die
<1> QED
  BY <1>1, <1>2 DEF PassUpOrDie

\* TERMPROCESS, in both forms, and the traps.
LEMMA EndCalm ==
  ASSUME TypeOK, Apart, TerminateSelf \/ ProgramTrap \/ \E t \in Pcb : TerminatePid(t)
  PROVE  Apart' /\ Calm({}) /\ Aside' \subseteq Aside /\ status' = status
<1>1. CASE TerminateSelf
  <2>1. /\ Subtree(current_p) \in SUBSET Pcb /\ Die /\ status' = status
    BY <1>1, RunningPcb, SubtreeType DEF TerminateSelf, Running
  <2> QED
    BY <2>1, TerminationCalm DEF Die
<1>2. CASE ProgramTrap
  BY <1>2, PassUpOrDieCalm DEF ProgramTrap, Running
<1>3. ASSUME NEW t \in Pcb, TerminatePid(t)
      PROVE  Apart' /\ Calm({}) /\ Aside' \subseteq Aside /\ status' = status
  <2>1. Subtree(t) \in SUBSET Pcb /\ cpu = "RUN" /\ status' = status
    BY <1>3, SubtreeType DEF TerminatePid, Running
  <2>2. \/ /\ Exterminate(Subtree(t))
           /\ high_ready_q' = HighWithout(Subtree(t)) /\ low_ready_q' = LowWithout(Subtree(t))
           /\ Resume
        \/ PassUpOrDie
    BY <1>3 DEF TerminatePid
  <2> QED
    BY <2>1, <2>2, TerminationCalm, PassUpOrDieCalm
<1> QED
  BY <1>1, <1>2, <1>3

\* The start, a preemption and a yield.
LEMMA TurnCalm ==
  ASSUME TypeOK, Apart, Boot \/ PLTTimerInterrupt \/ Yield
  PROVE  Apart' /\ Calm({}) /\ Aside' \subseteq Aside /\ status' = status
<1>1. /\ Apart' /\ Standing' \subseteq Standing
      /\ UNCHANGED <<procVars, semVars, soft_count, status>>
  BY TurnApart
<1>2. Live' = Live
  BY <1>1 DEF procVars, Live
<1> QED
  BY <1>1, <1>2, StillCalm

-----------------------------------------------------------------------------
(* The steps that are.                                                     *)

\* Who makes a call is alive and waits for nothing.
LEMMA CallerFacts ==
  ASSUME TypeOK, Apart, cpu = "RUN", Intact
  PROVE  /\ current_p \in Pcb /\ current_p \in Live /\ current_p \in Standing
         /\ \A s \in Sem : current_p \notin Entries(s_procq[s])
         /\ Talks(current_p) => Prints(current_p)
<1>1. current_p \in Pcb /\ current_p \in Live /\ current_p \in Standing
  BY ReadyTypes, CurrentLive
<1>2. \A s \in Sem : current_p \notin Entries(s_procq[s])
  BY <1>1 DEF Apart, Separate
<1> QED
  BY <1>1, <1>2, TerminalFacts DEF Prints, Talks

\* The program moves on from a call.
LEMMA CallerMoves ==
  ASSUME Located, NEW c \in Pcb, c = current_p, Upcoming(c)[1] # "error", Done
  PROVE  /\ Located' /\ \A p \in Pcb : at'[p][1] = at[p][1]
         /\ \A p \in Pcb : p # c => Upcoming(p)' = Upcoming(p) /\ (Talks(p)' <=> Talks(p))
         /\ Upcoming(c)'[1] = "doio" => Upcoming(c) = P(sem_term_mut)
         /\ Upcoming(c)' = V(sem_term_mut) => Upcoming(c)[1] = "doio"
         /\ Talks(c)' => Upcoming(c)'[1] = "doio" \/ Upcoming(c)' = V(sem_term_mut)
<1>1. at' = [at EXCEPT ![c][2] = @ + 1]
  BY DEF Done
<1>2. ASSUME NEW p \in Pcb
      PROVE  Talks(p)' <=> (Upcoming(p)'[1] = "doio" \/ Upcoming(p)' = V(sem_term_mut))
  BY DEF Talks, V
<1>3. /\ Located' /\ \A p \in Pcb : at'[p][1] = at[p][1]
      /\ \A p \in Pcb : p # c => Upcoming(p)' = Upcoming(p)
      /\ (Upcoming(c)[1] = "doio")' => Upcoming(c) = P(sem_term_mut)
      /\ (Upcoming(c) = V(sem_term_mut))' => Upcoming(c)[1] = "doio"
  BY <1>1, Advance
<1>4. ASSUME NEW p \in Pcb, p # c
      PROVE  Talks(p)' <=> Talks(p)
  BY <1>2, <1>3, <1>4 DEF Talks
<1> QED
  BY <1>2, <1>3, <1>4 DEF V

\* Each part of Printing for a step, in terms of what it talks about.
LEMMA PrintingParts ==
  ASSUME value'[sem_term_mut] = 1 =>
           /\ s_procq'[sem_term_mut] = <<>> /\ status'[Terminal] = "READY"
           /\ \A p \in Pcb : ~Prints(p)',
         \A p, q \in Pcb : Prints(p)' /\ Prints(q)' => q = p,
         \A p \in Entries(s_procq'[sem_term_mut]) : Upcoming(p)' # V(sem_term_mut),
         status'[Terminal] # "READY" => \A p \in Live' :
           /\ Upcoming(p)'[1] = "doio" => p \in Entries(s_procq'[sem_term_mut])
           /\ Upcoming(p)' = V(sem_term_mut) => p \notin Aside',
         \A u \in Unit : u # Terminal => status'[u] = "READY"
  PROVE  Printing'
  BY DEF Printing, TerminalFree, OnePrints, WaitersFirst, BusyWaited, OthersIdle, Terminal, V

\* Who prints, by its parts.
LEMMA PrintsParts ==
  \A p \in Pcb : /\ Prints(p) <=> p \in Live /\ p \notin Entries(s_procq[sem_term_mut]) /\ Talks(p)
                 /\ Prints(p)' <=> p \in Live' /\ p \notin Entries(s_procq'[sem_term_mut]) /\ Talks(p)'
  BY DEF Prints, Talks

\* P for the terminal: the process waits for its turn, or is the one that prints.
LEMMA TakeTerminal ==
  ASSUME TypeOK, Apart, Located, Printing, Passeren(sem_term_mut),
         NEW c \in Pcb, c = current_p, Upcoming(c) = P(sem_term_mut), Done
  PROVE  Apart' /\ Printing' /\ Located' /\ \A p \in Pcb : at'[p][1] = at[p][1]
<1> DEFINE s == sem_term_mut
           q == Entries(s_procq[s])
<1>1. /\ cpu = "RUN" /\ Intact /\ SemOp(s, 0, 0) /\ UNCHANGED <<procVars, soft_count, status>>
      /\ \/ value[s] = 0 /\ Scheduler(high_ready_q, low_ready_q, yielded, slice)
         \/ /\ value[s] # 0
            /\ high_ready_q' = HighWith(Woken(s, 0)) /\ low_ready_q' = LowWith(Woken(s, 0))
            /\ Resume
  BY DEF Passeren, Running
<1>2. /\ s \in Sem /\ c \in Live /\ c \in Standing /\ \A r \in Sem : c \notin Entries(s_procq[r])
      /\ value \in [Sem -> {0, 1}] /\ s_procq \in [Sem -> Seq(Pcb)] /\ Separate(s_procq, Standing)
  BY <1>1, CallerFacts, TerminalFacts DEF TypeOK, SemTypeOK, Apart
<1>3. /\ Located' /\ \A p \in Pcb : at'[p][1] = at[p][1]
      /\ \A p \in Pcb : p # c => Upcoming(p)' = Upcoming(p) /\ (Talks(p)' <=> Talks(p))
      /\ Upcoming(c)' # V(s)
  <2>1. Upcoming(c)[1] = "P"
    BY DEF P
  <2> QED
    BY <2>1, CallerMoves
<1>4. Live' = Live /\ status' = status
  BY <1>1 DEF Live, procVars
<1>5. Apart' /\ Standing' = IF value[s] = 0 THEN Standing \ {current_p}
                            ELSE Standing \cup Entries(Woken(s, 0))
  BY <1>1, <1>2, SemCallApart
<1>6. \A r \in Sem : r # s => s_procq'[r] = s_procq[r]
  BY <1>1, <1>2, OpApart
<1>7. /\ OnePrints /\ WaitersFirst /\ BusyWaited /\ OthersIdle /\ TerminalFree
  BY DEF Printing
<1>8. CASE value[s] = 0
  <2>1. /\ value'[s] = 0 /\ Entries(s_procq'[s]) = q \cup {c} /\ Aside' \subseteq Aside
    <3>1. value' = value /\ Entries(s_procq'[s]) = q \cup {c}
      BY <1>1, <1>2, <1>8, OpApart
    <3>2. Standing' \subseteq Standing
      BY <1>5, <1>8
    <3>3. Aside' \subseteq Aside
      BY <1>6, <3>2 DEF Aside, Terminal
    <3> QED
      BY <1>8, <3>1, <3>3
  <2>2. ASSUME NEW p \in Pcb, Prints(p)' PROVE Prints(p)
    <3>1. p \in Live' /\ p \notin q \cup {c} /\ Talks(p)'
      BY <2>1, <2>2, PrintsParts
    <3> QED
      BY <1>3, <1>4, <3>1, PrintsParts
  <2>3. \A p, o \in Pcb : Prints(p)' /\ Prints(o)' => o = p
    BY <1>7, <2>2 DEF OnePrints
  <2>4. q \subseteq Pcb
    BY <1>2, EntriesType
  <2>5. \A p \in Entries(s_procq'[s]) : Upcoming(p)' # V(s)
    <3> SUFFICES ASSUME NEW p \in q \cup {c} PROVE Upcoming(p)' # V(s)
      BY <2>1
    <3>1. CASE p = c
      BY <1>3, <3>1
    <3>2. CASE p # c
      BY <1>3, <1>7, <2>4, <3>2 DEF WaitersFirst
    <3> QED
      BY <3>1, <3>2
  <2>6. ASSUME status'[Terminal] # "READY", NEW p \in Live'
        PROVE  /\ Upcoming(p)'[1] = "doio" => p \in Entries(s_procq'[s])
               /\ Upcoming(p)' = V(s) => p \notin Aside'
    <3>1. CASE p = c
      BY <1>3, <2>1, <3>1
    <3>2. CASE p # c
      <4>1. p \in Live /\ Upcoming(p)' = Upcoming(p) /\ status[Terminal] # "READY"
        BY <1>3, <1>4, <2>6, <3>2 DEF Live
      <4>2. /\ Upcoming(p)[1] = "doio" => p \in q
            /\ Upcoming(p) = V(s) => p \notin Aside
        BY <1>7, <4>1 DEF BusyWaited
      <4> QED
        BY <2>1, <4>1, <4>2
    <3> QED
      BY <3>1, <3>2
  <2>7. \A u \in Unit : u # Terminal => status'[u] = "READY"
    BY <1>4, <1>7 DEF OthersIdle
  <2>8. Printing'
    <3> HIDE DEF q
    <3> QED
      BY <2>1, <2>3, <2>5, <2>6, <2>7, PrintingParts
  <2> QED
    BY <1>3, <1>5, <2>8
<1>9. CASE value[s] # 0
  <2>1. /\ s_procq[s] = <<>> /\ status[Terminal] = "READY" /\ \A p \in Pcb : ~Prints(p)
    BY <1>2, <1>7, <1>9 DEF TerminalFree
  <2>2. value'[s] = 0 /\ s_procq' = s_procq
    BY <1>1, <1>2, <1>9, <2>1 DEF SemOp
  <2>3. Entries(s_procq'[s]) = {}
    BY <2>1, <2>2, EntriesOfNothing
  <2>4. ASSUME NEW p \in Pcb, Prints(p)' PROVE p = c
    <3>1. p \in Live' /\ Talks(p)'
      BY <2>4, PrintsParts
    <3>2. p # c => Prints(p)
      BY <1>3, <1>4, <2>2, <2>3, <3>1, PrintsParts
    <3> QED
      BY <2>1, <3>2
  <2>5. \A u \in Unit : u # Terminal => status'[u] = "READY"
    BY <1>4, <1>7 DEF OthersIdle
  <2>6. \A p, o \in Pcb : Prints(p)' /\ Prints(o)' => o = p
    BY <2>4
  <2>7. Printing'
    BY <1>4, <2>1, <2>2, <2>3, <2>5, <2>6, PrintingParts
  <2> QED
    BY <1>3, <1>5, <2>7
<1> QED
  BY <1>8, <1>9

\* V for the terminal: the terminal is idle, and the first who waits for it is
\* the next to print.
LEMMA GiveTerminal ==
  ASSUME TypeOK, Apart, Located, Printing, Verhogen(sem_term_mut),
         NEW c \in Pcb, c = current_p, Upcoming(c) = V(sem_term_mut), Done
  PROVE  Apart' /\ Printing' /\ Located' /\ \A p \in Pcb : at'[p][1] = at[p][1]
<1> DEFINE s == sem_term_mut
           q == Entries(s_procq[s])
<1>1. /\ cpu = "RUN" /\ Intact /\ SemOp(s, 1, 1) /\ UNCHANGED <<procVars, soft_count, status>>
      /\ \/ value[s] = 1 /\ Scheduler(high_ready_q, low_ready_q, yielded, slice)
         \/ /\ value[s] # 1
            /\ high_ready_q' = HighWith(Woken(s, 1)) /\ low_ready_q' = LowWith(Woken(s, 1))
            /\ Resume
  BY DEF Verhogen, Running
<1>2. /\ s \in Sem /\ c \in Live /\ c \in Standing /\ \A r \in Sem : c \notin Entries(s_procq[r])
      /\ value \in [Sem -> {0, 1}] /\ s_procq \in [Sem -> Seq(Pcb)] /\ Separate(s_procq, Standing)
  BY <1>1, CallerFacts, TerminalFacts DEF TypeOK, SemTypeOK, Apart
<1>3. /\ Located' /\ \A p \in Pcb : at'[p][1] = at[p][1]
      /\ \A p \in Pcb : p # c => Upcoming(p)' = Upcoming(p) /\ (Talks(p)' <=> Talks(p))
      /\ ~Talks(c)'
  <2>1. Upcoming(c)[1] = "V" /\ Upcoming(c) # P(sem_term_mut)
    BY DEF V, P
  <2> QED
    BY <2>1, CallerMoves
<1>4. Live' = Live /\ status' = status
  BY <1>1 DEF Live, procVars
<1>5. Apart'
  BY <1>1, <1>2, SemCallApart
<1>6. /\ OnePrints /\ WaitersFirst /\ BusyWaited /\ OthersIdle /\ TerminalFree
  BY DEF Printing
<1>7. Prints(c) /\ value[s] = 0 /\ status[Terminal] = "READY"
  <2>1. Prints(c)
    BY <1>2, PrintsParts DEF Talks
  <2>2. value[s] # 1
    BY <1>6, <2>1 DEF TerminalFree
  <2>3. c \in Aside
    BY <1>2 DEF Aside
  <2> QED
    BY <1>2, <1>6, <2>1, <2>2, <2>3 DEF BusyWaited
<1>8. \A u \in Unit : u # Terminal => status'[u] = "READY"
  BY <1>4, <1>6 DEF OthersIdle
<1>9. ASSUME NEW p \in Pcb, Prints(p)' PROVE p # c /\ p \in q /\ p \notin Entries(s_procq'[s])
  <2>1. p \in Live' /\ Talks(p)' /\ p \notin Entries(s_procq'[s])
    BY <1>9, PrintsParts
  <2>2. p # c /\ Talks(p) /\ p \in Live
    BY <1>3, <1>4, <2>1
  <2>3. p \notin q => Prints(p)
    BY <2>2, PrintsParts
  <2> QED
    BY <1>6, <1>7, <2>1, <2>2, <2>3 DEF OnePrints
<1>10. CASE s_procq[s] = <<>>
  <2>1. value'[s] = 1 /\ s_procq' = s_procq
    BY <1>1, <1>2, <1>7, <1>10 DEF SemOp
  <2>2. q = {}
    BY <1>10, EntriesOfNothing
  <2>3. \A p \in Pcb : ~Prints(p)'
    BY <1>9, <2>2
  <2>4. Printing'
    BY <1>4, <1>7, <1>8, <1>10, <2>1, <2>2, <2>3, PrintingParts
  <2> QED
    BY <1>3, <1>5, <2>4
<1>11. CASE s_procq[s] # <<>>
  <2> DEFINE h == Head(s_procq[s])
  <2>1. value'[s] = 0 /\ s_procq'[s] = Tail(s_procq[s])
    BY <1>1, <1>2, <1>7, <1>11 DEF SemOp, RemoveBlocked
  <2>2. q = Entries(Tail(s_procq[s])) \cup {h} /\ q \subseteq Pcb
    BY <1>2, <1>11, EntriesTail, EntriesType
  <2>3. \A p \in Pcb : Prints(p)' => p = h
    BY <1>9, <2>1, <2>2
  <2>4. \A p, o \in Pcb : Prints(p)' /\ Prints(o)' => o = p
    BY <2>3
  <2>5. \A p \in Entries(s_procq'[s]) : Upcoming(p)' # V(s)
    <3> HIDE DEF h
    <3> SUFFICES ASSUME NEW p \in Entries(s_procq'[s]) PROVE Upcoming(p)' # V(s)
      OBVIOUS
    <3>1. p \in q /\ p \in Pcb /\ p # c
      BY <1>2, <2>1, <2>2
    <3> QED
      BY <1>3, <1>6, <3>1 DEF WaitersFirst
  <2> HIDE DEF h
  <2>6. Printing'
    BY <1>4, <1>7, <1>8, <2>1, <2>4, <2>5, PrintingParts
  <2> QED
    BY <1>3, <1>5, <2>6
<1> QED
  BY <1>10, <1>11

\* DOIO on the terminal by the process that has it: the terminal is idle, and
\* the process is not seen before the terminal has finished.
LEMMA UseTerminal ==
  ASSUME TypeOK, Apart, Located, Printing, DoIO(Terminal),
         NEW c \in Pcb, c = current_p, Upcoming(c)[1] = "doio", Done
  PROVE  Apart' /\ Printing' /\ Located' /\ \A p \in Pcb : at'[p][1] = at[p][1]
<1> DEFINE s == sem_term_mut
           t == SemOf(Terminal)
           q == Entries(s_procq[s])
           w == Woken(t, 0)
<1>1. /\ cpu = "RUN" /\ Intact /\ SemOp(t, 0, 0) /\ UNCHANGED procVars
      /\ status' = [status EXCEPT ![Terminal] = IF @ = "READY" THEN "BUSY" ELSE @]
      /\ Scheduler(HighWith(w), LowWith(w), yielded, slice)
  BY DEF DoIO, Running
<1>2. /\ s \in Sem /\ t \in Sem /\ s # t /\ Terminal \in Unit
      /\ c \in Live /\ c \in Standing /\ \A r \in Sem : c \notin Entries(s_procq[r])
      /\ value \in [Sem -> {0, 1}] /\ s_procq \in [Sem -> Seq(Pcb)] /\ Separate(s_procq, Standing)
      /\ status \in [Unit -> {"READY", "BUSY", "DONE"}] /\ Talks(c)
  BY <1>1, CallerFacts, TerminalFacts DEF TypeOK, SemTypeOK, Apart, Talks
<1>3. /\ Located' /\ \A p \in Pcb : at'[p][1] = at[p][1]
      /\ \A p \in Pcb : p # c => Upcoming(p)' = Upcoming(p) /\ (Talks(p)' <=> Talks(p))
      /\ Upcoming(c)'[1] # "doio"
  <2>1. Upcoming(c)[1] # "error" /\ Upcoming(c) # P(sem_term_mut)
    BY DEF P
  <2> QED
    BY <2>1, CallerMoves
<1>4. Live' = Live
  BY <1>1 DEF Live, procVars
<1>5. Apart' /\ Standing' = (Standing \ {current_p}) \cup Entries(w)
  BY <1>1, <1>2, BlockApart
<1>6. \A r \in Sem : r # t => value'[r] = value[r] /\ s_procq'[r] = s_procq[r]
  BY <1>1, <1>2, OpApart
<1>7. OnePrints /\ WaitersFirst /\ BusyWaited /\ OthersIdle /\ TerminalFree
  BY DEF Printing
<1>8. Prints(c) /\ value'[s] # 1 /\ s_procq'[s] = s_procq[s]
  <2>1. Prints(c)
    BY <1>2, PrintsParts
  <2> QED
    BY <1>2, <1>6, <1>7, <2>1 DEF TerminalFree
<1>9. ASSUME NEW p \in Pcb, p \in Live, p # c, Talks(p)
      PROVE  p \in q
  BY <1>7, <1>8, <1>9, PrintsParts DEF OnePrints
<1>10. \A p, o \in Pcb : Prints(p)' /\ Prints(o)' => o = p
  <2>1. ASSUME NEW p \in Pcb, Prints(p)' PROVE p = c
    <3>1. p \in Live /\ p \notin q /\ Talks(p)'
      BY <1>4, <1>8, <2>1, PrintsParts
    <3>2. p # c => Talks(p)
      BY <1>3, <3>1
    <3> QED
      BY <1>9, <3>1, <3>2
  <2> QED
    BY <2>1
<1>11. q \subseteq Pcb
  BY <1>2, EntriesType
<1>12. \A p \in Entries(s_procq'[s]) : Upcoming(p)' # V(s)
  <2> SUFFICES ASSUME NEW p \in q PROVE Upcoming(p)' # V(s)
    BY <1>8
  <2>1. p # c /\ p \in Pcb
    BY <1>2, <1>11
  <2> QED
    BY <1>3, <1>7, <2>1 DEF WaitersFirst
<1>13. c \notin Aside'
  <2>1. c \notin Entries(w)
    <3>1. CASE value[t] = 0
      <4>1. w = <<>>
        BY <3>1 DEF Woken
      <4> QED
        BY <4>1, EntriesOfNothing
    <3>2. CASE value[t] # 0
      <4>1. Entries(Woken(t, 0)) \subseteq Entries(s_procq[t])
        BY <1>1, <1>2, <3>2, OpApart
      <4> QED
        BY <1>2, <4>1
    <3> QED
      BY <3>1, <3>2
  <2>2. c \notin Standing'
    BY <1>5, <2>1
  <2>3. \A r \in Sem \ {s, t} : c \notin Entries(s_procq'[r])
    BY <1>2, <1>6
  <2> HIDE DEF w
  <2> QED
    BY <2>2, <2>3 DEF Aside, Terminal
<1>14. ASSUME NEW p \in Live'
       PROVE  /\ Upcoming(p)'[1] = "doio" => p \in Entries(s_procq'[s])
              /\ Upcoming(p)' = V(s) => p \notin Aside'
  <2>1. p \in Pcb /\ p \in Live
    BY <1>4 DEF Live
  <2>2. CASE p = c
    BY <1>3, <1>13, <2>2
  <2>3. CASE p # c
    <3>1. Upcoming(p)' = Upcoming(p)
      BY <1>3, <2>1, <2>3
    <3>2. Talks(p) => p \in q
      BY <1>9, <2>1, <2>3
    <3>3. p \in q => Upcoming(p) # V(s)
      BY <1>7 DEF WaitersFirst
    <3> QED
      BY <1>8, <3>1, <3>2, <3>3 DEF Talks
  <2> QED
    BY <2>2, <2>3
<1>15. \A u \in Unit : u # Terminal => status'[u] = "READY"
  BY <1>1, <1>2, <1>7 DEF OthersIdle
<1>16. Printing'
  <2> HIDE DEF q, t, w
  <2> QED
    BY <1>8, <1>10, <1>12, <1>14, <1>15, PrintingParts
<1> QED
  BY <1>3, <1>5, <1>16

-----------------------------------------------------------------------------
(* Each step of the test.                                                  *)

\* A step that is not about the terminal, of the processes that were there.
LEMMA QuietStep ==
  ASSUME TypeOK, TypeOK', Printing, Calm({}), Aside' \subseteq Aside, status' = status,
         \A p \in Pcb : Upcoming(p)' = Upcoming(p) \/ ~Talks(p)'
  PROVE  Printing'
<1>1. \A u \in Unit : u # Terminal => status'[u] = "READY"
  BY DEF Printing, OthersIdle
<1>2. status'[Terminal] # "READY" =>
        status[Terminal] # "READY" /\ Aside' \subseteq Aside \cup {}
  OBVIOUS
<1> QED
  BY <1>1, <1>2, PrintingKept

\* Nobody moves in its program.
LEMMA Stays ==
  ASSUME UNCHANGED at
  PROVE  /\ Located => Located'
         /\ \A p \in Pcb : Upcoming(p)' = Upcoming(p) /\ at'[p][1] = at[p][1]
  BY DEF Upcoming, Located, Prog

\* Processes, queues and the processor are left alone.
LEMMA StillApart ==
  ASSUME Apart, UNCHANGED <<cpuVars, queues, procVars, s_procq>>
  PROVE  Apart' /\ Standing' = Standing /\ Live' = Live
<1>1. Hold(current_p, yielded, high_ready_q, low_ready_q, Standing) /\ Separate(s_procq, Standing)
  BY DEF Apart
<1>2. /\ current_p' = current_p /\ yielded' = yielded /\ s_procq' = s_procq
      /\ high_ready_q' = high_ready_q /\ low_ready_q' = low_ready_q
      /\ Live' = Live
  BY DEF cpuVars, queues, procVars, Live
<1> QED
  BY <1>1, <1>2, ApartFrom

\* The only interrupt of a device is the terminal's, which is idle afterwards.
LEMMA DeviceStep ==
  ASSUME TypeOK, TypeOK', Apart, Printing, NEW d \in Device, DeviceInterrupt(d), UNCHANGED at
  PROVE  Apart' /\ Printing'
<1> DEFINE u == Served(d)
           s == InterruptSem(d[1], d[2], u[3])
<1>1. /\ UNCHANGED procVars /\ Pending(d)
      /\ status' = [status EXCEPT ![u] = IF @ = "DONE" THEN "READY" ELSE @]
      /\ UNCHANGED semVars \/ SemOp(s, 1, 1)
  BY DEF DeviceInterrupt
<1>2. u = Terminal /\ status[Terminal] = "DONE"
  <2>1. PICK k \in UnitsOf(d[1]) : status[<<d[1], d[2], k>>] = "DONE"
    BY <1>1 DEF Pending
  <2>2. <<d[1], d[2], k>> \in Unit
    BY <2>1 DEF Unit
  <2>3. <<d[1], d[2], k>> = Terminal
    BY <2>1, <2>2 DEF Printing, OthersIdle
  <2>4. d[1] = TERMLINE /\ d[2] = 0 /\ k = "transm"
    BY <2>3 DEF Terminal
  <2>5. status[<<d[1], d[2], "transm">>] # "READY"
    BY <2>1, <2>4
  <2> QED
    BY <2>1, <2>4, <2>5 DEF Served, Terminal
<1>3. s = SemOf(Terminal)
  BY <1>2, ServedUnit
<1>4. Apart' /\ Separate(s_procq, Standing)
  BY DeviceApart DEF Apart
<1>5. value'[sem_term_mut] = value[sem_term_mut] /\ s_procq'[sem_term_mut] = s_procq[sem_term_mut]
  <2>1. CASE UNCHANGED semVars
    BY <2>1 DEF semVars
  <2>2. CASE SemOp(s, 1, 1)
    <3>1. SemOp(SemOf(Terminal), 1, 1)
      BY <1>3, <2>2
    <3> QED
      BY <1>4, <3>1, OpApart, TerminalFacts
  <2> QED
    BY <1>1, <2>1, <2>2
<1>6. Calm({})
  <2>1. Live' = Live
    BY <1>1 DEF procVars, Live
  <2> QED
    BY <1>5, <2>1, CalmWhenKept
<1>7. /\ status' = [status EXCEPT ![Terminal] = "READY"]
      /\ status \in [Unit -> {"READY", "BUSY", "DONE"}] /\ Terminal \in Unit
  BY <1>1, <1>2, TerminalFacts DEF TypeOK, SemTypeOK
<1>8. status'[Terminal] = "READY" /\ \A v \in Unit : v # Terminal => status'[v] = "READY"
  BY <1>7 DEF Printing, OthersIdle
<1>9. \A p \in Pcb : Upcoming(p)' = Upcoming(p)
  BY Stays
<1> QED
  BY <1>4, <1>6, <1>8, <1>9, PrintingKept

\* The terminal ends its work; nobody notices yet.
LEMMA CompletionStep ==
  ASSUME TypeOK, TypeOK', Apart, Printing, NEW u \in Unit, DeviceCompletes(u), UNCHANGED at
  PROVE  Apart' /\ Printing'
<1>1. /\ UNCHANGED <<cpuVars, queues, procVars, semVars, soft_count>>
      /\ status[u] = "BUSY" /\ status' = [status EXCEPT ![u] = "DONE"]
  BY DEF DeviceCompletes
<1>2. u = Terminal
  BY <1>1 DEF Printing, OthersIdle
<1>3. Apart' /\ Standing' = Standing /\ Live' = Live
  BY <1>1, StillApart DEF semVars
<1>4. Calm({}) /\ Aside' \subseteq Aside
  BY <1>1, <1>3, StillCalm
<1>5. \A v \in Unit : v # Terminal => status'[v] = "READY"
  BY <1>1, <1>2 DEF Printing, OthersIdle, TypeOK, SemTypeOK
<1>6. \A p \in Pcb : Upcoming(p)' = Upcoming(p)
  BY Stays
<1>7. status[Terminal] # "READY" /\ Aside' \subseteq Aside \cup {}
  BY <1>1, <1>2, <1>4
<1> QED
  BY <1>3, <1>4, <1>5, <1>6, <1>7, PrintingKept

\* Boot, the interrupts and the terminal's work.
LEMMA HardwareStep ==
  ASSUME TypeOK, TypeOK', Apart, Located, Printing, Hardware
  PROVE  Apart' /\ Printing' /\ Located' /\ \A p \in Pcb : at'[p][1] = at[p][1]
<1>1. UNCHANGED at
  BY DEF Hardware, testVars
<1>2. Located' /\ \A p \in Pcb : Upcoming(p)' = Upcoming(p) /\ at'[p][1] = at[p][1]
  BY <1>1, Stays
<1>3. Apart' /\ Printing'
  <2>1. CASE Boot \/ PLTTimerInterrupt
    BY <1>2, <2>1, TurnCalm, QuietStep
  <2>2. CASE IntervalTimerInterrupt
    BY <1>2, <2>2, TickCalm, QuietStep
  <2>3. CASE \E d \in Device : DeviceInterrupt(d)
    BY <1>1, <2>3, DeviceStep
  <2>4. CASE \E u \in Unit : DeviceCompletes(u)
    BY <1>1, <2>4, CompletionStep
  <2> QED
    BY <2>1, <2>2, <2>3, <2>4 DEF Hardware, Interrupt
<1> QED
  BY <1>2, <1>3

\* A call that is not about the terminal, after which its caller may be.
LEMMA QuietCall ==
  ASSUME TypeOK, TypeOK', Located, Printing, Calm({}), Aside' \subseteq Aside, status' = status,
         NEW c \in Pcb, c = current_p, Upcoming(c)[1] \notin {"error", "doio"},
         Upcoming(c) # P(sem_term_mut), Done
  PROVE  Printing' /\ Located' /\ \A p \in Pcb : at'[p][1] = at[p][1]
<1>1. /\ Located' /\ \A p \in Pcb : at'[p][1] = at[p][1]
      /\ \A p \in Pcb : p # c => Upcoming(p)' = Upcoming(p)
      /\ ~Talks(c)'
  BY CallerMoves
<1>2. Printing'
  BY <1>1, QuietStep
<1> QED
  BY <1>1, <1>2
\* A process goes to an operation that is not at the terminal.
LEMMA Jump ==
  ASSUME Located, NEW c \in Pcb, NEW i \in 1..Len(Prog(at[c][1])),
         at' = [at EXCEPT ![c][2] = i],
         Prog(at[c][1])[i][1] # "doio", Prog(at[c][1])[i] # V(sem_term_mut)
  PROVE  /\ Located' /\ ~Talks(c)' /\ \A p \in Pcb : at'[p][1] = at[p][1]
         /\ \A p \in Pcb : p # c => Upcoming(p)' = Upcoming(p)
<1>1. at \in [Pcb -> (DOMAIN Program) \X Nat] /\ i \in Nat /\ at[c][1] \in DOMAIN Program
  <2>1. at[c][1] \in DOMAIN Program
    BY UpcomingFacts
  <2>2. Len(Prog(at[c][1])) \in Nat
    BY <2>1, ProgFacts DEF Programs
  <2> QED
    BY <2>1, <2>2 DEF Located
<1>2. /\ at' \in [Pcb -> (DOMAIN Program) \X Nat] /\ at'[c][1] = at[c][1] /\ at'[c][2] = i
      /\ \A p \in Pcb : p # c => at'[p] = at[p]
  BY <1>1, SecondOfPair
<1>3. Upcoming(c)' = Prog(at[c][1])[i] /\ \A p \in Pcb : p # c => Upcoming(p)' = Upcoming(p)
  BY <1>2 DEF Upcoming, Prog
<1>4. Located'
  <2>1. ASSUME NEW p \in Pcb
        PROVE  at'[p][2] \in 1..Len(Prog(at'[p][1]))
    BY <1>2 DEF Located
  <2> QED
    BY <1>2, <2>1 DEF Located, Prog
<1>5. ~Talks(c)'
  <2>1. (Talks(c))' <=> (Upcoming(c)'[1] = "doio" \/ Upcoming(c)' = V(sem_term_mut))
    BY DEF Talks, V
  <2> QED
    BY <1>3, <2>1
<1> QED
  BY <1>2, <1>3, <1>4, <1>5

\* The first process lives as long as any, and everybody else has a parent.
LEMMA TreeFacts ==
  ASSUME Records, NEW c \in Live
  PROVE  Root \in Live /\ (c # Root => p_parent[c] \in Pcb)
<1>1. /\ ParentsLive /\ Live \subseteq Subtree(Root) /\ Live \subseteq Pcb
      /\ p_parent \in [Pcb -> Pcb \cup {NULL}]
  BY DEF Records, RootReachesAll, TypeOK, ProcTypeOK, Live
<1>2. Root \in Live
  <2> SUFFICES ASSUME Root \notin Live PROVE FALSE
    OBVIOUS
  <2>1. Closed({Root})
    BY <1>1, NullFacts DEF Closed, ParentsLive
  <2>2. Live \subseteq {Root}
    BY <1>1, <2>1, SubtreeLeast
  <2> QED
    BY <2>2
<1>3. ASSUME c # Root, p_parent[c] = NULL PROVE FALSE
  <2>1. Closed(Pcb \ {c})
    BY <1>3, NullFacts DEF Closed
  <2>2. Subtree(Root) \subseteq Pcb \ {c}
    BY <1>3, <2>1, NullFacts, SubtreeLeast
  <2> QED
    BY <1>1, <2>2
<1> QED
  BY <1>1, <1>2, <1>3

\* The first process's programs have no such call.
LEMMA KillerHasParent ==
  ASSUME Records, Located, at[Root][1] \in DOMAIN Tests,
         NEW c \in Live, Upcoming(c)[1] = "kill_parent"
  PROVE  p_parent[c] \in Pcb
<1>1. c # Root
  <2> SUFFICES ASSUME c = Root PROVE FALSE
    OBVIOUS
  <2>1. /\ at[c][1] \in DOMAIN Program /\ at[c][2] \in 1..Len(Prog(at[c][1]))
        /\ Upcoming(c) = Prog(at[c][1])[at[c][2]]
    BY NullFacts, UpcomingFacts
  <2>2. Prog(at[c][1]) \in TestPrograms
    BY <2>1, ProgFacts
  <2> QED
    BY <2>1, <2>2 DEF TestPrograms
<1> QED
  BY <1>1, TreeFacts

\* p1 and its offspring create processes of priorities and supports there are.
LEMMA CreatesOne ==
  ASSUME CreateProgram
  PROVE  \E prio \in Prios, supportp \in Supports : CreateProcess(prio, supportp)
<1>1. (IF Arg \in {"hp_p1", "hp_p2"} THEN 1 ELSE 0) \in Prios
  BY SemsAssumption
<1>2. (Arg = "p5") \in Supports
  BY SemsAssumption
<1> QED
  BY <1>1, <1>2 DEF CreateProgram

\* The system calls but CREATEPROCESS.
LEMMA CallStep ==
  ASSUME Records, TypeOK', Apart, Located, Printing, at[Root][1] \in DOMAIN Tests, Call
  PROVE  Apart' /\ Printing' /\ Located' /\ \A p \in Pcb : at'[p][1] = at[p][1]
<1>1. TypeOK /\ cpu = "RUN" /\ Intact /\ Done
  BY DEF Records, Call, Now
<1>2. PICK c \in Pcb : c = current_p
  BY <1>1, RunningPcb
<1>3. c \in Live
  BY <1>1, <1>2, CurrentLive
<1> DEFINE op == Upcoming(c)
<1>4. op \in Ops /\ (op[1] \in {"P", "V"} => op[2] \in UserSem /\ op = <<op[1], op[2]>>)
  <2>1. op \in Ops
    BY UpcomingFacts
  <2> HIDE DEF op
  <2> QED
    BY <2>1, Arguments
<1>5. ASSUME op[1] = "P", Passeren(op[2])
      PROVE  Apart' /\ Printing' /\ Located' /\ \A p \in Pcb : at'[p][1] = at[p][1]
  <2>1. CASE op[2] = sem_term_mut
    <3>1. Upcoming(c) = P(sem_term_mut) /\ Passeren(sem_term_mut)
      BY <1>4, <1>5, <2>1 DEF P
    <3> QED
      BY <1>1, <1>2, <3>1, TakeTerminal
  <2>2. CASE op[2] # sem_term_mut
    <3>1. Apart' /\ Calm({}) /\ Aside' \subseteq Aside /\ status' = status
      BY <1>1, <1>4, <1>5, <2>2, SemCallCalm
    <3>2. op[1] \notin {"error", "doio"} /\ op # P(sem_term_mut)
      BY <1>5, <2>2 DEF P
    <3> QED
      BY <1>1, <1>2, <3>1, <3>2, QuietCall
  <2> QED
    BY <2>1, <2>2
<1>6. ASSUME op[1] = "V", Verhogen(op[2])
      PROVE  Apart' /\ Printing' /\ Located' /\ \A p \in Pcb : at'[p][1] = at[p][1]
  <2>1. CASE op[2] = sem_term_mut
    <3>1. Upcoming(c) = V(sem_term_mut) /\ Verhogen(sem_term_mut)
      BY <1>4, <1>6, <2>1 DEF V
    <3> QED
      BY <1>1, <1>2, <3>1, GiveTerminal
  <2>2. CASE op[2] # sem_term_mut
    <3>1. Apart' /\ Calm({}) /\ Aside' \subseteq Aside /\ status' = status
      BY <1>1, <1>4, <1>6, <2>2, SemCallCalm
    <3>2. op[1] \notin {"error", "doio"} /\ op # P(sem_term_mut)
      BY <1>6 DEF P
    <3> QED
      BY <1>1, <1>2, <3>1, <3>2, QuietCall
  <2> QED
    BY <2>1, <2>2
<1>7. ASSUME op[1] = "doio", DoIO(Terminal)
      PROVE  Apart' /\ Printing' /\ Located' /\ \A p \in Pcb : at'[p][1] = at[p][1]
  BY <1>1, <1>2, <1>7, UseTerminal
<1>8. ASSUME op[1] \in {"clock", "yield", "exit", "kill_parent", "trap"},
             Apart' /\ Calm({}) /\ Aside' \subseteq Aside /\ status' = status
      PROVE  Apart' /\ Printing' /\ Located' /\ \A p \in Pcb : at'[p][1] = at[p][1]
  <2>1. op[1] \notin {"error", "doio"} /\ op # P(sem_term_mut)
    BY <1>8 DEF P
  <2> QED
    BY <1>1, <1>2, <1>8, <2>1, QuietCall
<1>9. ASSUME op[1] = "kill_parent", TerminatePid(p_parent[c])
      PROVE  Apart' /\ Calm({}) /\ Aside' \subseteq Aside /\ status' = status
  BY <1>1, <1>3, <1>9, KillerHasParent, EndCalm
<1>10. \/ op[1] = "P" /\ Passeren(op[2])
       \/ op[1] = "V" /\ Verhogen(op[2])
       \/ op[1] = "doio" /\ DoIO(Terminal)
       \/ op[1] = "clock" /\ WaitForClock
       \/ op[1] = "yield" /\ Yield
       \/ op[1] = "exit" /\ TerminateSelf
       \/ op[1] = "kill_parent" /\ TerminatePid(p_parent[c])
       \/ op[1] = "trap" /\ ProgramTrap
  BY <1>2 DEF Call, Now, Arg
<1> HIDE DEF op
<1>11. CASE op[1] = "clock" /\ WaitForClock
  BY <1>1, <1>8, <1>11, ClockCalm
<1>12. CASE op[1] = "yield" /\ Yield
  BY <1>1, <1>8, <1>12, TurnCalm
<1>13. CASE op[1] = "exit" /\ TerminateSelf
  BY <1>1, <1>8, <1>13, EndCalm
<1>14. CASE op[1] = "trap" /\ ProgramTrap
  BY <1>1, <1>8, <1>14, EndCalm
<1>15. CASE op[1] = "kill_parent" /\ TerminatePid(p_parent[c])
  BY <1>8, <1>9, <1>15
<1> QED
  BY <1>5, <1>6, <1>7, <1>10, <1>11, <1>12, <1>13, <1>14, <1>15
\* What a process does by itself.
LEMMA ComputeStep ==
  ASSUME TypeOK, TypeOK', Apart, Located, Printing, Compute \/ Delay
  PROVE  Apart' /\ Printing' /\ Located' /\ \A p \in Pcb : at'[p][1] = at[p][1]
<1>1. cpu = "RUN" /\ UNCHANGED vars
  BY DEF Compute, Delay, Now
<1>2. PICK c \in Pcb : c = current_p
  BY <1>1, RunningPcb
<1>3. Apart' /\ Standing' = Standing /\ Live' = Live
  BY <1>1, StillApart DEF vars, semVars
<1>4. Calm({}) /\ Aside' \subseteq Aside /\ status' = status
  BY <1>1, <1>3, StillCalm DEF vars
<1>5. ASSUME Upcoming(c)[1] \in {"check", "synch", "delay"}, Done
      PROVE  Printing' /\ Located' /\ \A p \in Pcb : at'[p][1] = at[p][1]
  <2>1. Upcoming(c)[1] \notin {"error", "doio"} /\ Upcoming(c) # P(sem_term_mut)
    BY <1>5 DEF P
  <2> QED
    BY <1>2, <1>4, <1>5, <2>1, QuietCall
<1>6. ASSUME NEW i \in 1..Len(Prog(at[c][1])), at' = [at EXCEPT ![c][2] = i],
             Prog(at[c][1])[i][1] \in {"error", "clock"}
      PROVE  Printing' /\ Located' /\ \A p \in Pcb : at'[p][1] = at[p][1]
  <2>1. Prog(at[c][1])[i][1] # "doio" /\ Prog(at[c][1])[i] # V(sem_term_mut)
    BY <1>6 DEF V
  <2>2. /\ Located' /\ ~Talks(c)' /\ \A p \in Pcb : at'[p][1] = at[p][1]
        /\ \A p \in Pcb : p # c => Upcoming(p)' = Upcoming(p)
    BY <1>6, <2>1, Jump
  <2>3. Printing'
    BY <1>4, <2>2, QuietStep
  <2> QED
    BY <2>2, <2>3
<1> DEFINE prog == Prog(at[c][1])
<1>7. /\ at[c][1] \in DOMAIN Program /\ at[c][2] \in 1..Len(prog)
      /\ Upcoming(c) = prog[at[c][2]] /\ InStep(prog, at[c][2])
      /\ Len(prog) = Len(Program[at[c][1]]) + 1 /\ prog[Len(prog)] = Error
      /\ Len(prog) \in Nat
  <2>1. /\ at[c][1] \in DOMAIN Program /\ at[c][2] \in 1..Len(prog)
        /\ Upcoming(c) = prog[at[c][2]] /\ InStep(prog, at[c][2])
    BY UpcomingFacts
  <2> QED
    BY <2>1, ProgFacts DEF Programs
<1>8. CASE at' = [at EXCEPT ![c][2] = Len(Program[at[c][1]]) + 1]
  <2>1. Len(prog) \in 1..Len(prog) /\ prog[Len(prog)][1] = "error"
    BY <1>7 DEF Error
  <2>2. at' = [at EXCEPT ![c][2] = Len(prog)]
    BY <1>7, <1>8
  <2> QED
    BY <1>3, <1>6, <2>1, <2>2
<1>9. CASE Upcoming(c)[1] = "delay" /\ at' = [at EXCEPT ![c][2] = @ - 1]
  <2>1. at[c][2] - 1 \in 1..Len(prog) /\ prog[at[c][2] - 1][1] = "clock"
    BY <1>7, <1>9 DEF InStep
  <2> QED
    BY <1>3, <1>6, <1>9, <2>1
<1>10. \/ Upcoming(c)[1] \in {"check", "synch", "delay"} /\ Done
       \/ at' = [at EXCEPT ![c][2] = Len(Program[at[c][1]]) + 1]
       \/ Upcoming(c)[1] = "delay" /\ at' = [at EXCEPT ![c][2] = @ - 1]
  <2>1. CASE Compute
    BY <1>2, <2>1 DEF Compute, Now
  <2>2. CASE Delay
    BY <1>2, <2>2 DEF Delay, Now
  <2> QED
    BY <2>1, <2>2
<1> QED
  BY <1>3, <1>5, <1>8, <1>9, <1>10

\* However p5's store ends, p5 is next at a P.
LEMMA RefillStep ==
  ASSUME Records, TypeOK', Apart, Located, Printing, Refill
  PROVE  Apart' /\ Printing' /\ Located' /\ \A p \in Pcb : at'[p][1] = at[p][1]
<1>1. TypeOK /\ cpu = "RUN" /\ Intact /\ Upcoming(current_p)[1] = "refill" /\ ProgramTrap
  BY DEF Records, Refill, Now
<1>2. PICK c \in Pcb : c = current_p
  BY <1>1, RunningPcb
<1>3. Apart' /\ Calm({}) /\ Aside' \subseteq Aside /\ status' = status
  BY <1>1, EndCalm
<1>4. CASE Done
  <2>1. Upcoming(c)[1] \notin {"error", "doio"} /\ Upcoming(c) # P(sem_term_mut)
    BY <1>1, <1>2 DEF P
  <2> QED
    BY <1>1, <1>2, <1>3, <1>4, <2>1, QuietCall
<1>5. CASE at' = [at EXCEPT ![c][2] = @ - Len(print)]
  <2> DEFINE prog == Prog(at[c][1])
             i == at[c][2] - 3
  <2>1. at[c][2] \in 1..Len(prog) /\ Upcoming(c) = prog[at[c][2]] /\ InStep(prog, at[c][2])
    BY UpcomingFacts
  <2>2. Len(prog) \in Nat
    BY UpcomingFacts
  <2>3. i \in 1..Len(prog) /\ prog[i] = P(sem_term_mut)
    BY <1>1, <1>2, <2>1, <2>2 DEF InStep
  <2>4. prog[i][1] # "doio" /\ prog[i] # V(sem_term_mut)
    BY <2>3 DEF P, V
  <2>5. at' = [at EXCEPT ![c][2] = i]
    BY <1>5 DEF print
  <2> HIDE DEF i
  <2>6. /\ Located' /\ ~Talks(c)' /\ \A p \in Pcb : at'[p][1] = at[p][1]
        /\ \A p \in Pcb : p # c => Upcoming(p)' = Upcoming(p)
    BY <2>3, <2>4, <2>5, Jump
  <2>7. Printing'
    BY <1>1, <1>3, <2>6, QuietStep
  <2> QED
    BY <1>3, <2>6, <2>7
<1> QED
  BY <1>2, <1>4, <1>5 DEF Refill

\* The semaphores that p1 resets are not that of the terminal.
LEMMA ResetStep ==
  ASSUME TypeOK, Apart, Located, Printing, Reset
  PROVE  /\ TypeOK' /\ Apart' /\ Printing' /\ Located' /\ \A p \in Pcb : at'[p][1] = at[p][1]
         /\ UNCHANGED procVars
<1>1. /\ cpu = "RUN" /\ Done /\ Upcoming(current_p)[1] = "reset"
      /\ UNCHANGED <<cpuVars, queues, procVars, s_procq, p_semAdd, soft_count, status>>
  BY DEF Reset, Now
<1>2. PICK c \in Pcb : c = current_p
  BY <1>1, RunningPcb
<1>3. value' \in [Sem -> {0, 1}]
  BY DEF Reset, TypeOK, SemTypeOK
<1>4. TypeOK'
  BY <1>1, <1>3 DEF TypeOK, CpuTypeOK, ProcTypeOK, SemTypeOK, cpuVars, queues, procVars
<1>5. value'[sem_term_mut] = value[sem_term_mut]
  <2>1. sem_term_mut \notin {sem_blkp8, sem_endp8} \cup Range(sem_endcreate)
    BY SemsAssumption DEF TestSems
  <2> QED
    BY <2>1, TerminalFacts DEF Reset
<1>6. Apart' /\ Standing' = Standing /\ Live' = Live
  BY <1>1, StillApart
<1>7. Calm({}) /\ Aside' \subseteq Aside
  <2>1. Calm({})
    BY <1>1, <1>5, <1>6, CalmWhenKept
  <2> QED
    BY <1>1, <1>6, <2>1 DEF Aside, Terminal
<1>8. Upcoming(c)[1] \notin {"error", "doio"} /\ Upcoming(c) # P(sem_term_mut)
  BY <1>1, <1>2 DEF P
<1>9. Printing' /\ Located' /\ \A p \in Pcb : at'[p][1] = at[p][1]
  BY <1>1, <1>2, <1>4, <1>7, <1>8, QuietCall
<1> QED
  BY <1>1, <1>4, <1>6, <1>9
\* A new process starts at the beginning of its program, where it does not use
\* the terminal yet.
LEMMA CreateStep ==
  ASSUME Records, TypeOK', Apart, Located, Printing, CreateProgram
  PROVE  Apart' /\ Printing' /\ Located' /\ at'[Root][1] = at[Root][1]
<1>1. TypeOK /\ cpu = "RUN" /\ Intact /\ Upcoming(current_p)[1] = "create"
  BY DEF Records, CreateProgram, Now
<1>2. PICK c \in Pcb : c = current_p
  BY <1>1, RunningPcb
<1>3. c \in Live /\ Root \in Live
  BY <1>1, <1>2, CurrentLive, TreeFacts
<1>4. /\ Upcoming(c) \in Ops /\ Upcoming(c)[2] \in DOMAIN Processes
      /\ Upcoming(c)[1] = "create" /\ Arg = Upcoming(c)[2]
  <2>1. Upcoming(c) \in Ops /\ Upcoming(c)[1] = "create"
    BY <1>1, <1>2, UpcomingFacts
  <2>2. Upcoming(c)[2] \in DOMAIN Processes
    BY <2>1, Arguments
  <2> QED
    BY <1>2, <2>1, <2>2 DEF Arg
<1>5. PICK name \in DOMAIN Program : name = Upcoming(c)[2]
  BY <1>4 DEF Program
<1>6. PICK new \in pcbFree :
        /\ new \notin pcbFree'
        /\ at' = [at EXCEPT ![c][2] = @ + 1, ![new] = <<name, 1>>]
  <2> DEFINE least == CHOOSE p \in pcbFree : \A q \in pcbFree : p <= q
  <2>1. pcbFree # {}
    BY DEF CreateProgram, CreateProcess, AllocPcb
  <2>2. pcbFree \in SUBSET Nat
    BY <1>1, TestAssumption DEF TypeOK, ProcTypeOK
  <2>3. \E p \in pcbFree : \A q \in pcbFree : p <= q
    BY <2>1, <2>2, LeastNat
  <2>4. least \in pcbFree
    BY <2>3
  <2>5. /\ least \notin pcbFree'
        /\ at' = [at EXCEPT ![c][2] = @ + 1, ![least] = <<name, 1>>]
    BY <1>2, <1>4, <1>5 DEF CreateProgram
  <2> HIDE DEF least
  <2> QED
    BY <2>4, <2>5
<1>7. new \in Pcb /\ new # c /\ new # Root
  BY <1>1, <1>3 DEF Live, TypeOK, ProcTypeOK
<1>8. /\ Apart' /\ Standing' = Standing \cup {new} /\ Live' = Live \cup {new}
      /\ UNCHANGED <<value, s_procq, status>>
  <2>1. PICK prio \in Prios, supportp \in Supports : CreateProcess(prio, supportp)
    BY CreatesOne
  <2> QED
    BY <1>1, <1>6, <2>1, CreationApart
<1> DEFINE i == at[c][2]
           prog == Prog(at[c][1])
           mid == [at EXCEPT ![c][2] = i + 1]
<1>9. /\ at[c][1] \in DOMAIN Program /\ i \in 1..Len(prog) /\ Upcoming(c) = prog[i]
      /\ prog[Len(prog)] = Error /\ Len(prog) \in Nat /\ prog \in Programs
  <2>1. at[c][1] \in DOMAIN Program /\ i \in 1..Len(prog) /\ Upcoming(c) = prog[i]
    BY UpcomingFacts
  <2> QED
    BY <2>1, ProgFacts DEF Programs
<1>10. i + 1 \in 1..Len(prog) /\ i + 1 \in Nat /\ (i + 1) - 1 = i
  <2>1. i # Len(prog)
    BY <1>4, <1>9 DEF Error
  <2> QED
    BY <1>9, <2>1
<1>11. prog[i + 1][1] # "doio" /\ prog[i + 1] # V(sem_term_mut)
  <2>1. InStep(prog, i + 1)
    BY <1>9, <1>10 DEF Programs
  <2> QED
    BY <1>4, <1>9, <1>10, <2>1 DEF InStep, P
<1>12. 1 \in 1..Len(Prog(name)) /\ Prog(name)[1][1] # "doio" /\ Prog(name)[1] # V(sem_term_mut)
  <2>1. Prog(name) \in Programs /\ Program[name] \in Programs
        /\ Len(Prog(name)) = Len(Program[name]) + 1
    BY ProgFacts
  <2>2. 1 \in 1..Len(Prog(name))
    BY <2>1 DEF Programs
  <2>3. InStep(Prog(name), 1)
    BY <2>1, <2>2 DEF Programs
  <2> QED
    BY <2>2, <2>3 DEF InStep
<1>13. at \in [Pcb -> (DOMAIN Program) \X Nat]
  BY DEF Located
<1>14. /\ mid \in [Pcb -> (DOMAIN Program) \X Nat] /\ mid[c][1] = at[c][1] /\ mid[c][2] = i + 1
       /\ \A p \in Pcb : p # c => mid[p] = at[p]
  <2> HIDE DEF i
  <2> QED
    BY <1>10, <1>13, SecondOfPair
<1>15. at' = [mid EXCEPT ![new] = <<name, 1>>]
  BY <1>6
<1> HIDE DEF mid
<1>16. /\ at' \in [Pcb -> (DOMAIN Program) \X Nat] /\ at'[new] = <<name, 1>>
       /\ at'[c][1] = at[c][1] /\ at'[c][2] = i + 1
       /\ \A p \in Pcb : p # c /\ p # new => at'[p] = at[p]
  BY <1>7, <1>14, <1>15
<1>17. Located'
  <2>1. ASSUME NEW p \in Pcb
        PROVE  at'[p][2] \in 1..Len(Prog(at'[p][1]))
    <3>1. CASE p = c
      BY <1>10, <1>16, <3>1
    <3>2. CASE p = new
      BY <1>12, <1>16, <3>2
    <3>3. CASE p # c /\ p # new
      BY <1>16, <3>3 DEF Located
    <3> QED
      BY <3>1, <3>2, <3>3
  <2> QED
    BY <1>16, <2>1 DEF Located, Prog
<1>18. /\ Upcoming(c)' = prog[i + 1] /\ Upcoming(new)' = Prog(name)[1]
       /\ \A p \in Pcb : p # c /\ p # new => Upcoming(p)' = Upcoming(p)
  <2>1. at'[new][1] = name /\ at'[new][2] = 1
    BY <1>16
  <2>2. Upcoming(new)' = Prog(name)[1]
    BY <2>1 DEF Upcoming, Prog
  <2>3. Upcoming(c)' = prog[i + 1]
    BY <1>16 DEF Upcoming, Prog
  <2>4. \A p \in Pcb : p # c /\ p # new => Upcoming(p)' = Upcoming(p)
    BY <1>16 DEF Upcoming
  <2> QED
    BY <2>2, <2>3, <2>4
<1>19. ~Talks(c)' /\ ~Talks(new)'
  <2>1. \A p \in Pcb : Talks(p)' <=> (Upcoming(p)'[1] = "doio" \/ Upcoming(p)' = V(sem_term_mut))
    BY DEF Talks, V
  <2> HIDE DEF i, prog
  <2> QED
    BY <1>7, <1>11, <1>12, <1>18, <2>1
<1>20. Printing'
  <2>1. Calm({new}) /\ Aside' \subseteq Aside \cup {new}
    BY <1>8 DEF Calm, Aside, Terminal
  <2>2. \A p \in Pcb : Upcoming(p)' = Upcoming(p) \/ ~Talks(p)'
    BY <1>18, <1>19
  <2>3. \A u \in Unit : u # Terminal => status'[u] = "READY"
    BY <1>8 DEF Printing, OthersIdle
  <2> QED
    BY <1>1, <1>8, <1>19, <2>1, <2>2, <2>3, PrintingKept
<1>21. at'[Root][1] = at[Root][1]
  BY <1>7, <1>16, NullFacts
<1> QED
  BY <1>8, <1>17, <1>20, <1>21

-----------------------------------------------------------------------------
(* The invariant.                                                          *)

\* The kernel's records, for the kinship of processes; everybody is in one
\* place and somewhere in its program, the first process in a test.
TestInv == Records /\ Apart /\ Located /\ Printing /\ at[Root][1] \in DOMAIN Tests

\* Every step of the test but p1's reset is the kernel's or none for the kernel.
LEMMA TestSteps ==
  ASSUME Records, Located, at[Root][1] \in DOMAIN Tests, TestNext, ~Reset
  PROVE  [Next]_vars
<1>1. CASE Hardware
  BY <1>1 DEF Hardware, Next
<1>2. CASE Compute \/ Delay
  BY <1>2 DEF Compute, Delay
<1>5. CASE Refill
  BY <1>5 DEF Refill, Next, Syscall
<1>3. CASE CreateProgram
  BY <1>3, CreatesOne DEF Next, Syscall
<1>4. CASE Call
  <2>1. TypeOK /\ cpu = "RUN" /\ Intact
    BY <1>4 DEF Records, Call, Now
  <2>2. PICK c \in Pcb : c = current_p
    BY <2>1, RunningPcb
  <2>3. c \in Live
    BY <2>1, <2>2, CurrentLive
  <2> DEFINE op == Upcoming(c)
  <2>4. op[1] \in {"P", "V"} => op[2] \in UserSem
    BY UpcomingFacts, Arguments
  <2>5. op[1] = "kill_parent" => p_parent[c] \in Pcb
    BY <2>3, KillerHasParent
  <2>6. \/ op[1] = "P" /\ Passeren(op[2])
        \/ op[1] = "V" /\ Verhogen(op[2])
        \/ DoIO(Terminal) \/ WaitForClock \/ Yield \/ TerminateSelf
        \/ op[1] = "kill_parent" /\ TerminatePid(p_parent[c])
        \/ ProgramTrap
    BY <1>4, <2>2 DEF Call, Now, Arg
  <2> HIDE DEF op
  <2>7. Syscall
    BY <2>4, <2>5, <2>6, TerminalFacts DEF Syscall
  <2> QED
    BY <2>7 DEF Next
<1> QED
  BY <1>1, <1>2, <1>3, <1>4, <1>5 DEF TestNext, Step

\* At the start everybody is before a P, with the terminal idle.
LEMMA InitTestInv == TestInit => TestInv
<1> SUFFICES ASSUME TestInit PROVE TestInv
  OBVIOUS
<1>1. Init /\ value[sem_term_mut] = 1
  BY TerminalFacts DEF TestInit
<1>2. Records /\ TypeOK
  BY <1>1, InitRecords DEF Records
<1>3. Apart
  <2>1. /\ current_p = NULL /\ yielded = NULL /\ high_ready_q = <<>> /\ low_ready_q = <<Root>>
        /\ s_procq = [s \in Sem |-> <<>>]
    BY <1>1 DEF Init
  <2>2. Entries(high_ready_q) = {} /\ Entries(low_ready_q) = {Root}
    BY <2>1 DEF Entries
  <2>3. Standing = {Root}
    BY <2>1, <2>2, NullFacts DEF Standing
  <2>4. NoRepeats(high_ready_q) /\ NoRepeats(low_ready_q)
    BY <2>1 DEF NoRepeats
  <2>5. Hold(current_p, yielded, high_ready_q, low_ready_q, Standing)
    BY <2>1, <2>2, <2>3, <2>4, NullFacts, BothPrios DEF Hold
  <2>6. \A s \in Sem : s_procq[s] = <<>> /\ Entries(s_procq[s]) = {} /\ NoRepeats(s_procq[s])
    BY <2>1, EntriesOfNothing DEF NoRepeats
  <2>7. Separate(s_procq, Standing)
    BY <2>6 DEF Separate
  <2> QED
    BY <2>5, <2>7 DEF Apart
<1>4. PICK name \in DOMAIN Tests : at = [p \in Pcb |-> <<name, 1>>]
  BY DEF TestInit
<1>5. name \in DOMAIN Program /\ Prog(name) \in Programs /\ 1 \in 1..Len(Prog(name)) /\ 1 \in Nat
  <2>1. name \in DOMAIN Program
    BY DEF Program
  <2>2. /\ Prog(name) \in Programs /\ Program[name] \in Programs
        /\ Len(Prog(name)) = Len(Program[name]) + 1
    BY <2>1, ProgFacts
  <2> QED
    BY <2>1, <2>2 DEF Programs
<1>6. \A p \in Pcb : at[p] = <<name, 1>> /\ at[p][1] = name /\ at[p][2] = 1
  BY <1>4
<1>7. Located /\ at[Root][1] \in DOMAIN Tests
  <2>1. at \in [Pcb -> (DOMAIN Program) \X Nat]
    BY <1>4, <1>5
  <2> QED
    BY <1>5, <1>6, <2>1, NullFacts DEF Located
<1>8. \A p \in Pcb : ~Talks(p)
  <2>1. InStep(Prog(name), 1)
    BY <1>5 DEF Programs
  <2>2. \A p \in Pcb : Upcoming(p) = Prog(name)[1]
    BY <1>6 DEF Upcoming, Prog
  <2> QED
    BY <2>1, <2>2 DEF InStep, Talks
<1>9. Printing
  <2>1. s_procq[sem_term_mut] = <<>> /\ \A u \in Unit : status[u] = "READY"
    BY <1>1, TerminalFacts DEF Init
  <2>2. \A p \in Pcb : ~Prints(p)
    BY <1>8, PrintsParts
  <2>3. Entries(s_procq[sem_term_mut]) = {} /\ status[Terminal] = "READY"
    BY <2>1, EntriesOfNothing, TerminalFacts
  <2> QED
    BY <2>1, <2>2, <2>3 DEF Printing, TerminalFree, OnePrints, WaitersFirst, BusyWaited, OthersIdle
<1> QED
  BY <1>2, <1>3, <1>7, <1>9 DEF TestInv

LEMMA NextTestInv == TestInv /\ [TestNext]_p2testVars => TestInv'
<1> SUFFICES ASSUME TestInv, [TestNext]_p2testVars PROVE TestInv'
  OBVIOUS
<1>1. Records /\ TypeOK /\ Apart /\ Located /\ Printing /\ at[Root][1] \in DOMAIN Tests
  BY DEF TestInv, Records
<1>2. Root \in Pcb
  BY NullFacts
<1>3. CASE TestNext /\ ~Reset
  <2>1. Records' /\ TypeOK'
    <3>1. Records'
      BY <1>1, <1>3, TestSteps, NextRecords
    <3> QED
      BY <3>1 DEF Records
  <2>2. Apart' /\ Printing' /\ Located' /\ at'[Root][1] = at[Root][1]
    <3>1. CASE Hardware
      BY <1>1, <1>2, <2>1, <3>1, HardwareStep
    <3>2. CASE Call
      BY <1>1, <1>2, <2>1, <3>2, CallStep
    <3>3. CASE CreateProgram
      BY <1>1, <2>1, <3>3, CreateStep
    <3>4. CASE Compute \/ Delay
      BY <1>1, <1>2, <2>1, <3>4, ComputeStep
    <3>5. CASE Refill
      BY <1>1, <1>2, <2>1, <3>5, RefillStep
    <3> QED
      BY <1>3, <3>1, <3>2, <3>3, <3>4, <3>5 DEF TestNext, Step
  <2> QED
    BY <1>1, <2>1, <2>2 DEF TestInv
<1>4. CASE Reset
  <2>1. /\ TypeOK' /\ Apart' /\ Printing' /\ Located' /\ at'[Root][1] = at[Root][1]
        /\ UNCHANGED procVars
    BY <1>1, <1>2, <1>4, ResetStep
  <2>2. Records'
    BY <1>1, <2>1 DEF Records, procVars, Live, Subtree, ParentsLive, RootReachesAll,
                      CountIsLive, TableExact
  <2> QED
    BY <1>1, <2>1, <2>2 DEF TestInv
<1>5. CASE UNCHANGED p2testVars
  <2>1. UNCHANGED vars /\ UNCHANGED at
    BY <1>5 DEF p2testVars, testVars
  <2>2. Records'
    BY <1>1, <2>1, NextRecords
  <2>3. Located' /\ \A p \in Pcb : Upcoming(p)' = Upcoming(p) /\ at'[p][1] = at[p][1]
    BY <1>1, <2>1, Stays
  <2>4. Apart' /\ Standing' = Standing /\ Live' = Live
    BY <1>1, <2>1, StillApart DEF vars, semVars
  <2>5. Calm({}) /\ Aside' \subseteq Aside /\ status' = status
    BY <2>1, <2>4, StillCalm DEF vars
  <2>6. Printing'
    BY <1>1, <2>2, <2>3, <2>5, QuietStep DEF Records
  <2> QED
    BY <1>1, <1>2, <2>2, <2>3, <2>4, <2>6 DEF TestInv
<1> QED
  BY <1>3, <1>4, <1>5

\* One process prints at a time, and writes to a terminal that is idle: for any
\* number of processes and up to four leaves, whichever parts of the test p1
\* runs, and under every timing of slices, clock and terminal.  Neither p1's
\* resets nor the terminations that overtake its offspring can break it.
THEOREM TerminalStaysExclusive == TestSpec => []TerminalExclusive
<1>1. TestInv => TerminalExclusive
  BY PrintingExclusive DEF TestInv
<1> QED
  BY <1>1, InitTestInv, NextTestInv, PTL DEF TestSpec
=============================================================================
