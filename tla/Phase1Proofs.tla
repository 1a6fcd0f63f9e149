---------------------------- MODULE Phase1Proofs ----------------------------
(***************************************************************************)
(* The lists of phase 1 for any number of control blocks.                  *)
(***************************************************************************)
EXTENDS Phase1Props, ListXProofs

\* The nodes are finitely many.
LEMMA NodesFinite == IsFiniteSet(Node) /\ Steps \in Nat
<1>1. MaxProc \in Nat /\ IsFiniteSet(1..MaxProc)
  BY TableAssumption, FS_Interval
<1>2. IsFiniteSet({"p_list", "p_child", "p_sib"}) /\ IsFiniteSet({"s_procq", "s_link"})
  <2>1. \A S, x : IsFiniteSet(S) => IsFiniteSet(S \cup {x})
    BY FS_AddElement
  <2>2. IsFiniteSet({}) /\ IsFiniteSet({"p_list"}) /\ IsFiniteSet({"s_procq"})
    BY FS_EmptySet, FS_Singleton
  <2>3. IsFiniteSet({"p_list"} \cup {"p_child"}) /\ IsFiniteSet({"s_procq"} \cup {"s_link"})
    BY <2>1, <2>2
  <2>4. IsFiniteSet(({"p_list"} \cup {"p_child"}) \cup {"p_sib"})
    BY <2>1, <2>3
  <2>5. /\ {"p_list", "p_child", "p_sib"} = ({"p_list"} \cup {"p_child"}) \cup {"p_sib"}
        /\ {"s_procq", "s_link"} = {"s_procq"} \cup {"s_link"}
    OBVIOUS
  <2> QED
    BY <2>3, <2>4, <2>5
<1>3. IsFiniteSet({"p_list", "p_child", "p_sib"} \X Pcb) /\ IsFiniteSet({"s_procq", "s_link"} \X Semd)
  BY <1>1, <1>2, FS_Product DEF Pcb, Semd
<1>4. IsFiniteSet({pcbFree_h, semdFree_h, semd_h, high_ready_q, low_ready_q})
  <2>1. \A S, x : IsFiniteSet(S) => IsFiniteSet(S \cup {x})
    BY FS_AddElement
  <2>2. IsFiniteSet({pcbFree_h})
    BY FS_Singleton
  <2>3. IsFiniteSet({pcbFree_h} \cup {semdFree_h})
    BY <2>1, <2>2
  <2>4. IsFiniteSet(({pcbFree_h} \cup {semdFree_h}) \cup {semd_h})
    BY <2>1, <2>3
  <2>5. IsFiniteSet((({pcbFree_h} \cup {semdFree_h}) \cup {semd_h}) \cup {high_ready_q})
    BY <2>1, <2>4
  <2>6. IsFiniteSet(((({pcbFree_h} \cup {semdFree_h}) \cup {semd_h}) \cup {high_ready_q}) \cup {low_ready_q})
    BY <2>1, <2>5
  <2>7. {pcbFree_h, semdFree_h, semd_h, high_ready_q, low_ready_q} =
          ((({pcbFree_h} \cup {semdFree_h}) \cup {semd_h}) \cup {high_ready_q}) \cup {low_ready_q}
    OBVIOUS
  <2> QED
    BY <2>6, <2>7
<1>5. IsFiniteSet(Node)
  <2>1. IsFiniteSet(({"p_list", "p_child", "p_sib"} \X Pcb) \cup ({"s_procq", "s_link"} \X Semd))
    BY <1>3, FS_Union
  <2> QED
    BY <1>4, <2>1, FS_Union DEF Node
<1> QED
  BY <1>5, FS_CardinalityType DEF Steps

-----------------------------------------------------------------------------
(* list_for_each_entry.                                                    *)

\* The stages of the walk from every node, up to the n-th.
Walked(link, head, g, n) ==
  /\ g[0] = [x \in Node |-> <<>>]
  /\ \A k \in 1..n : g[k] = [x \in Node |-> IF x = head THEN <<>> ELSE <<x>> \o g[k - 1][link[x]]]

\* The recursion can be followed to any length.
LEMMA WalkExists ==
  ASSUME NEW link, NEW head
  PROVE  \A n \in 0..Steps : \E g : Walked(link, head, g, n)
<1> DEFINE Bad == {n \in 0..Steps : ~ \E g : Walked(link, head, g, n)}
<1>0. Steps \in Nat
  BY NodesFinite
<1>1. SUFFICES ASSUME Bad # {} PROVE FALSE
  OBVIOUS
<1>2. PICK n \in Bad : \A i \in Bad : n <= i
  <2>1. Bad \in SUBSET Nat
    BY <1>0
  <2> HIDE DEF Bad
  <2> QED
    BY <1>1, <2>1, LeastNat
<1>3. n # 0
  <2>1. Walked(link, head, [i \in {0} |-> [x \in Node |-> <<>>]], 0)
    BY DEF Walked
  <2> QED
    BY <2>1
<1>4. n \in 1..Steps /\ n - 1 \in 0..Steps /\ n - 1 \notin Bad
  <2>1. n \in 0..Steps
    OBVIOUS
  <2> HIDE DEF Bad
  <2> QED
    BY <1>0, <1>2, <1>3, <2>1
<1>5. PICK g : Walked(link, head, g, n - 1)
  BY <1>4
<1> DEFINE last == [x \in Node |-> IF x = head THEN <<>> ELSE <<x>> \o g[n - 1][link[x]]]
           h == [i \in 0..n |-> IF i = n THEN last ELSE g[i]]
<1>6. Walked(link, head, h, n)
  <2>1. h[0] = g[0] /\ \A i \in 0..(n - 1) : h[i] = g[i]
    BY <1>4
  <2>2. h[n] = last
    BY <1>4
  <2>3. ASSUME NEW k \in 1..n
        PROVE  h[k] = [x \in Node |-> IF x = head THEN <<>> ELSE <<x>> \o h[k - 1][link[x]]]
    <3>1. CASE k = n
      <4>1. h[k - 1] = g[n - 1]
        BY <1>4, <2>1, <3>1
      <4> HIDE DEF h
      <4> QED
        BY <2>2, <3>1, <4>1
    <3>2. CASE k # n
      <4>1. h[k] = g[k] /\ h[k - 1] = g[k - 1] /\ k \in 1..(n - 1)
        BY <1>4, <2>1, <3>2
      <4> HIDE DEF h
      <4> QED
        BY <1>5, <4>1 DEF Walked
    <3> QED
      BY <3>1, <3>2
  <2> HIDE DEF h
  <2> QED
    BY <1>5, <2>1, <2>3 DEF Walked
<1> QED
  BY <1>4, <1>6

\* The walk is the last of such stages.
LEMMA WalkUnfolds ==
  ASSUME NEW link, NEW head
  PROVE  \E f : Walked(link, head, f, Steps) /\ ListForEach(link, head) = f[Steps][link[head]]
<1> DEFINE Step(f) == [k \in 0..Steps |-> [x \in Node |->
              IF x = head \/ k = 0 THEN <<>> ELSE <<x>> \o f[k - 1][link[x]]]]
           from == CHOOSE f : f = Step(f)
<1>0. Steps \in Nat
  BY NodesFinite
<1>1. PICK g : Walked(link, head, g, Steps)
  BY <1>0, WalkExists
<1> DEFINE h == [k \in 0..Steps |-> g[k]]
<1>2. h = Step(h)
  <2>1. ASSUME NEW k \in 0..Steps
        PROVE  h[k] = Step(h)[k]
    <3>1. CASE k = 0
      <4>1. h[k] = [x \in Node |-> <<>>]
        BY <1>0, <1>1, <3>1 DEF Walked
      <4>2. Step(h)[k] = [x \in Node |-> <<>>]
        BY <1>0, <3>1
      <4> QED
        BY <4>1, <4>2
    <3>2. CASE k # 0
      <4>1. k \in 1..Steps /\ k - 1 \in 0..Steps
        BY <1>0, <3>2
      <4>2. h[k] = [x \in Node |-> IF x = head THEN <<>> ELSE <<x>> \o g[k - 1][link[x]]]
        BY <1>1, <4>1 DEF Walked
      <4>3. h[k - 1] = g[k - 1]
        BY <4>1
      <4> HIDE DEF h
      <4>4. Step(h)[k] = [x \in Node |-> IF x = head THEN <<>> ELSE <<x>> \o h[k - 1][link[x]]]
        BY <3>2
      <4> QED
        BY <4>2, <4>3, <4>4
    <3> QED
      BY <3>1, <3>2
  <2>2. h = [k \in 0..Steps |-> h[k]]
    OBVIOUS
  <2>3. Step(h) = [k \in 0..Steps |-> Step(h)[k]]
    OBVIOUS
  <2> HIDE DEF h, Step
  <2> QED
    BY <2>1, <2>2, <2>3
<1>3. from = Step(from)
  <2> HIDE DEF Step
  <2> QED
    BY <1>2
<1>4. ListForEach(link, head) = from[Steps][link[head]]
  BY Zenon DEF ListForEach
<1> HIDE DEF from
<1>5. Walked(link, head, from, Steps)
  <2>1. \A k \in 0..Steps : from[k] = Step(from)[k]
    BY <1>3, Zenon
  <2>2. from[0] = [x \in Node |-> <<>>]
    BY <1>0, <2>1
  <2>3. ASSUME NEW k \in 1..Steps
        PROVE  from[k] = [x \in Node |-> IF x = head THEN <<>> ELSE <<x>> \o from[k - 1][link[x]]]
    <3>1. k \in 0..Steps /\ k # 0
      OBVIOUS
    <3> QED
      BY <2>1, <3>1
  <2> QED
    BY <2>2, <2>3 DEF Walked
<1> QED
  BY <1>4, <1>5

\* A suffix of a sequence is its first element before the suffix after it.
LEMMA SuffixStep ==
  ASSUME NEW S, NEW s \in Seq(S), NEW a \in 1..Len(s)
  PROVE  <<s[a]>> \o SubSeq(s, a + 1, Len(s)) = SubSeq(s, a, Len(s))
OBVIOUS

\* Following the links of a chain one meets its nodes.
LEMMA WalkMeets ==
  ASSUME NEW link, NEW h \in Node, NEW s \in Seq(Node), NoRepeats(s), h \notin Entries(s),
         \A i \in 0..Len(s) : link[At(h, s, i)] = At(h, s, i + 1)
  PROVE  ListForEach(link, h) = s
<1> DEFINE N == Len(s)
<1>0. Steps \in Nat /\ N \in Nat
  BY NodesFinite
<1>1. PICK f : Walked(link, h, f, Steps) /\ ListForEach(link, h) = f[Steps][link[h]]
  BY WalkUnfolds
<1>2. N <= Steps
  <2>1. IsFiniteSet(Entries(s)) /\ Cardinality(Entries(s)) = N
    BY EntriesCount
  <2>2. Entries(s) \subseteq Node
    BY EntriesType
  <2> QED
    BY <2>1, <2>2, NodesFinite, FS_Subset DEF Steps
<1>3. /\ At(h, s, 0) = h /\ At(h, s, N + 1) = h
      /\ \A i \in 0..(N + 1) : At(h, s, i) \in Node
  BY AtFacts
<1> DEFINE Good(j) == \A k \in j..Steps : f[k][At(h, s, N + 1 - j)] = SubSeq(s, N + 1 - j, N)
           Bad == {j \in 0..N : ~Good(j)}
<1>4. Good(0)
  <2> SUFFICES ASSUME NEW k \in 0..Steps
               PROVE  f[k][h] = SubSeq(s, N + 1, N)
    BY <1>0, <1>3
  <2>1. SubSeq(s, N + 1, N) = <<>>
    BY <1>0
  <2>2. f[k][h] = <<>>
    <3>1. CASE k = 0
      BY <1>1, <3>1 DEF Walked
    <3>2. CASE k # 0
      <4>1. k \in 1..Steps
        BY <1>0, <3>2
      <4> QED
        BY <1>1, <4>1 DEF Walked
    <3> QED
      BY <3>1, <3>2
  <2> QED
    BY <2>1, <2>2
<1>5. ASSUME NEW j \in 1..N, Good(j - 1)
      PROVE  Good(j)
  <2> SUFFICES ASSUME NEW k \in j..Steps
               PROVE  f[k][At(h, s, N + 1 - j)] = SubSeq(s, N + 1 - j, N)
    OBVIOUS
  <2> DEFINE a == N + 1 - j
  <2>1. /\ a \in 1..N /\ N + 1 - (j - 1) = a + 1 /\ k - 1 \in (j - 1)..Steps /\ k \in 1..Steps
        /\ a \in 0..N
    BY <1>0
  <2>2. At(h, s, a) = s[a] /\ s[a] # h /\ s[a] \in Node /\ link[s[a]] = At(h, s, a + 1)
    BY <1>0, <2>1, SMTT(30) DEF At, Entries
  <2>3. f[k - 1][At(h, s, a + 1)] = SubSeq(s, a + 1, N)
    BY <1>5, <2>1
  <2> HIDE DEF a
  <2>4. f[k][s[a]] = <<s[a]>> \o f[k - 1][link[s[a]]]
    BY <1>1, <2>1, <2>2, ZenonT(40) DEF Walked
  <2>5. <<s[a]>> \o SubSeq(s, a + 1, N) = SubSeq(s, a, N)
    BY <2>1, SuffixStep, Zenon
  <2> QED
    BY <2>2, <2>3, <2>4, <2>5 DEF a
<1>6. Bad = {}
  <2> SUFFICES ASSUME Bad # {} PROVE FALSE
    OBVIOUS
  <2>1. PICK j \in Bad : \A i \in Bad : j <= i
    <3>1. Bad \in SUBSET Nat
      BY <1>0
    <3> HIDE DEF Bad
    <3> QED
      BY <3>1, LeastNat
  <2>2. j \in 0..N /\ ~Good(j)
    OBVIOUS
  <2> HIDE DEF Good
  <2>3. j # 0
    BY <1>4, <2>2
  <2>4. j \in 1..N /\ j - 1 \in 0..N /\ ~(j <= j - 1)
    BY <1>0, <2>2, <2>3
  <2>5. Good(j - 1)
    BY <2>1, <2>4
  <2> QED
    BY <1>5, <2>2, <2>4, <2>5
<1>7. Good(N)
  <2>1. N \in 0..N
    BY <1>0
  <2> HIDE DEF N
  <2> QED
    BY <1>6, <2>1
<1>8. f[Steps][At(h, s, 1)] = SubSeq(s, 1, N)
  <2>1. N + 1 - N = 1 /\ Steps \in N..Steps
    BY <1>0, <1>2
  <2> QED
    BY <1>7, <2>1
<1>9. link[h] = At(h, s, 1)
  <2>1. link[At(h, s, 0)] = At(h, s, 0 + 1)
    BY <1>0
  <2> QED
    BY <1>3, <2>1
<1> QED
  BY <1>1, <1>8, <1>9

\* Reading a list forwards, and backwards.
LEMMA ChainRead ==
  ASSUME NEW m, NEW h \in Node, NEW s \in Seq(Node), Chain(m, h, s)
  PROVE  Forward(m, h) = s /\ Backward(m, h) = Reverse(s)
<1> DEFINE N == Len(s)
           r == Reverse(s)
<1>1. /\ NoRepeats(s) /\ h \notin Entries(s) /\ N \in Nat /\ DOMAIN s = 1..N
      /\ \A i \in 0..N : /\ m.next[At(h, s, i)] = At(h, s, i + 1)
                         /\ m.prev[At(h, s, i + 1)] = At(h, s, i)
  BY DEF Chain
<1>2. Forward(m, h) = s
  BY <1>1, WalkMeets DEF Forward
<1>3. /\ r \in Seq(Node) /\ Len(r) = N /\ DOMAIN r = 1..N
      /\ \A i \in 1..N : r[i] = s[N + 1 - i] /\ N + 1 - i \in 1..N
  BY <1>1 DEF Reverse
<1> HIDE DEF r
<1>4. NoRepeats(r)
  <2> SUFFICES ASSUME NEW i \in 1..N, NEW j \in 1..N, r[i] = r[j]
               PROVE  i = j
    BY <1>3 DEF NoRepeats
  <2>1. /\ s[N + 1 - i] = s[N + 1 - j]
        /\ N + 1 - i \in DOMAIN s /\ N + 1 - j \in DOMAIN s
    BY <1>1, <1>3
  <2>2. N + 1 - i = N + 1 - j
    BY <1>1, <2>1 DEF NoRepeats
  <2> HIDE DEF N
  <2> QED
    BY <1>1, <2>2
<1>5. h \notin Entries(r)
  BY <1>1, <1>3 DEF Entries
<1>6. \A i \in 0..(N + 1) : At(h, r, i) = At(h, s, N + 1 - i)
  <2> SUFFICES ASSUME NEW i \in 0..(N + 1)
               PROVE  At(h, r, i) = At(h, s, N + 1 - i)
    OBVIOUS
  <2>1. CASE i \in 1..N
    BY <1>1, <1>3, <2>1 DEF At
  <2>2. CASE i \notin 1..N
    <3>1. N + 1 - i \notin 1..N
      BY <1>1, <2>2
    <3> QED
      BY <1>3, <2>2, <3>1 DEF At
  <2> QED
    BY <2>1, <2>2
<1>7. ASSUME NEW i \in 0..N
      PROVE  m.prev[At(h, r, i)] = At(h, r, i + 1)
  <2>1. /\ i \in 0..(N + 1) /\ i + 1 \in 0..(N + 1) /\ N - i \in 0..N
        /\ (N - i) + 1 = N + 1 - i /\ N - i = N + 1 - (i + 1)
    <3> HIDE DEF N
    <3> QED
      BY <1>1
  <2>2. m.prev[At(h, s, (N - i) + 1)] = At(h, s, N - i)
    BY <1>1, <2>1
  <2>3. At(h, r, i) = At(h, s, N + 1 - i) /\ At(h, r, i + 1) = At(h, s, N + 1 - (i + 1))
    BY <1>6, <2>1
  <2> QED
    BY <2>1, <2>2, <2>3
<1>8. Backward(m, h) = r
  BY <1>3, <1>4, <1>5, <1>7, WalkMeets DEF Backward
<1> QED
  BY <1>2, <1>8 DEF r

-----------------------------------------------------------------------------
(* Several lists at once.                                                  *)

Heads == {pcbFree_h, semdFree_h, semd_h, high_ready_q, low_ready_q}
           \cup {PChild(p) : p \in Pcb} \cup {SProcq(d) : d \in Semd}

\* The field by which the structures in the list of h are linked.
Field(h) == IF h \in {PChild(p) : p \in Pcb} THEN "p_sib"
            ELSE IF h \in {semdFree_h, semd_h} THEN "s_link" ELSE "p_list"

\* The nodes that can be in the list of h.
Links(h) == {Field(h)} \X Pcb

\* What mem is, apart from the values of its links.
IsMemory(m) ==
  /\ Memory(m, Node)
  /\ DOMAIN m = {"next", "prev", "p_parent", "p_semAdd", "p_prio", "s_key"}
  /\ m.p_parent = [p \in Pcb |-> m.p_parent[p]] /\ m.p_semAdd = [p \in Pcb |-> m.p_semAdd[p]]
  /\ m.p_prio = [p \in Pcb |-> m.p_prio[p]] /\ m.s_key = [d \in Semd |-> m.s_key[d]]

\* The heads of H have lists, and no node is in two of them.
Intact(m, H) ==
  /\ IsMemory(m) /\ H \subseteq Heads
  /\ \A h \in H : Forward(m, h) \in Seq(Links(h)) /\ Chain(m, h, Forward(m, h))
  /\ \A h, k \in H : h # k => Entries(Forward(m, h)) \cap Entries(Forward(m, k)) = {}

\* All but the links is as before.
SameData(a, m) ==
  /\ a.p_parent = m.p_parent /\ a.p_semAdd = m.p_semAdd
  /\ a.p_prio = m.p_prio /\ a.s_key = m.s_key

SameLists(a, m, H) == \A h \in H : Forward(a, h) = Forward(m, h)

\* All lists of H but that of h.
SameOthers(a, m, H, h) == \A k \in H : h # k => Forward(a, k) = Forward(m, k)

\* Heads and links are nodes, and no head is a link.
LEMMA HeadsAndLinks ==
  /\ Heads \subseteq Node
  /\ \A h \in Heads : Links(h) \subseteq Node /\ Links(h) \cap Heads = {}
  /\ \A p \in Pcb : PList(p) \in Node /\ PSib(p) \in Node /\ SLink(p) \in Node
  /\ \A p \in Pcb : PList(p) \notin Heads /\ PSib(p) \notin Heads /\ SLink(p) \notin Heads
<1>1. Heads \subseteq Node
  BY DEF Heads, Node, PChild, SProcq, Pcb, Semd
<1>2. \A h \in Heads : Field(h) \in {"p_sib", "s_link", "p_list"}
  BY DEF Field
<1>3. ASSUME NEW f \in {"p_sib", "s_link", "p_list"}, NEW p \in Pcb
      PROVE  <<f, p>> \in Node /\ <<f, p>> \notin Heads
  BY DEF Node, Heads, Pcb, Semd, PChild, SProcq, pcbFree_h, semdFree_h, semd_h, high_ready_q, low_ready_q
<1> QED
  BY <1>1, <1>2, <1>3 DEF Links, PList, PSib, SLink

\* The kinds of the heads.
LEMMA FieldOf ==
  /\ Field(pcbFree_h) = "p_list" /\ Field(high_ready_q) = "p_list" /\ Field(low_ready_q) = "p_list"
  /\ Field(semdFree_h) = "s_link" /\ Field(semd_h) = "s_link"
  /\ \A p \in Pcb : Field(PChild(p)) = "p_sib"
  /\ \A d \in Pcb : Field(SProcq(d)) = "p_list"
BY DEF Field, PChild, SProcq, pcbFree_h, semdFree_h, semd_h, high_ready_q, low_ready_q

\* The heads are different.
LEMMA HeadsDiffer ==
  /\ pcbFree_h # high_ready_q /\ pcbFree_h # low_ready_q /\ high_ready_q # low_ready_q
  /\ pcbFree_h # semdFree_h /\ pcbFree_h # semd_h /\ semdFree_h # semd_h
  /\ \A p \in Pcb : PChild(p) \in Heads \ {pcbFree_h, semdFree_h, semd_h, high_ready_q, low_ready_q}
  /\ \A d \in Pcb : SProcq(d) \in Heads \ {pcbFree_h, semdFree_h, semd_h, high_ready_q, low_ready_q}
  /\ \A p, d \in Pcb : /\ PChild(p) # SProcq(d)
                       /\ PChild(p) = PChild(d) => p = d
                       /\ SProcq(p) = SProcq(d) => p = d
  /\ {semdFree_h, semd_h} \cap {high_ready_q, low_ready_q} = {}
BY DEF Heads, PChild, SProcq, pcbFree_h, semdFree_h, semd_h, high_ready_q, low_ready_q, Semd, Pcb

\* What list_for_each_entry meets in a list.
LEMMA MembersFacts ==
  ASSUME NEW m, NEW H, Intact(m, H), NEW h \in H
  PROVE  /\ Members(m, h) \subseteq Pcb
         /\ \A x : x \in Members(m, h) <=> <<Field(h), x>> \in Entries(Forward(m, h))
         /\ list_empty(m, h) <=> Members(m, h) = {}
         /\ ~list_empty(m, h) => /\ First(m, h) \in Members(m, h)
                                 /\ Forward(m, h) # <<>>
                                 /\ <<Field(h), First(m, h)>> = Forward(m, h)[1]
<1> DEFINE s == Forward(m, h)
<1>1. /\ s \in Seq(Links(h)) /\ Chain(m, h, s) /\ h \in Node /\ Len(s) \in Nat /\ DOMAIN s = 1..Len(s)
      /\ h \notin Links(h)
  BY HeadsAndLinks DEF Intact
<1>2. Members(m, h) = {n[2] : n \in Entries(s)} /\ Entries(s) \subseteq Links(h)
  <2>1. Range(s) = Entries(s)
    BY DEF Range, Entries
  <2>2. Entries(s) \subseteq Links(h)
    BY <1>1, EntriesType
  <2> QED
    BY <2>1, <2>2 DEF Members
<1> HIDE DEF s
<1>3. \A n \in Entries(s) : n = <<Field(h), n[2]>> /\ n[2] \in Pcb
  BY <1>2 DEF Links
<1>4. ASSUME NEW x
      PROVE  x \in Members(m, h) <=> <<Field(h), x>> \in Entries(s)
  <2>1. ASSUME x \in Members(m, h)
        PROVE  <<Field(h), x>> \in Entries(s)
    <3>1. PICK n \in Entries(s) : x = n[2]
      BY <1>2, <2>1
    <3> QED
      BY <1>3, <3>1
  <2>2. ASSUME <<Field(h), x>> \in Entries(s)
        PROVE  x \in Members(m, h)
    <3>1. <<Field(h), x>>[2] = x
      OBVIOUS
    <3> QED
      BY <1>2, <2>2, <3>1
  <2> QED
    BY <2>1, <2>2
<1>5. Members(m, h) \subseteq Pcb
  BY <1>2, <1>3
<1>6. m.next[h] = At(h, s, 1)
  <2>1. m.next[At(h, s, 0)] = At(h, s, 0 + 1)
    BY <1>1 DEF Chain
  <2>2. At(h, s, 0) = h /\ 0 + 1 = 1
    BY DEF At
  <2> QED
    BY <2>1, <2>2
<1>7. CASE s = <<>>
  <2>1. m.next[h] = h
    BY <1>6, <1>7 DEF At
  <2>2. Members(m, h) = {}
    BY <1>2, <1>7, EntriesOfNothing
  <2> QED
    BY <1>4, <1>5, <2>1, <2>2 DEF list_empty, s
<1>8. CASE s # <<>>
  <2>1. 1 \in 1..Len(s) /\ m.next[h] = s[1] /\ s[1] \in Entries(s) /\ s[1] \in Links(h)
    BY <1>1, <1>6, <1>8 DEF At, Entries
  <2>2. m.next[h] # h
    BY <1>1, <2>1
  <2>3. First(m, h) = s[1][2]
    BY <2>1, <2>2 DEF First, list_next, list_empty
  <2>4. <<Field(h), First(m, h)>> = s[1]
    BY <1>3, <2>1, <2>3
  <2>5. First(m, h) \in Members(m, h)
    BY <1>4, <2>1, <2>4
  <2> QED
    BY <1>4, <1>5, <1>8, <2>2, <2>4, <2>5 DEF list_empty, s
<1> QED
  BY <1>7, <1>8

-----------------------------------------------------------------------------
(* What the operations of listx.h do to the lists of a memory.             *)

\* A list that is disjoint from what an operation touches is read as before.
LEMMA UntouchedLists ==
  ASSUME NEW m, NEW H, Intact(m, H), NEW a, IsMemory(a), NEW G \in SUBSET H, NEW Touched,
         \A n \in Node \ Touched : a.next[n] = m.next[n] /\ a.prev[n] = m.prev[n],
         \A h \in G : h \notin Touched /\ Entries(Forward(m, h)) \cap Touched = {}
  PROVE  Intact(a, G) /\ SameLists(a, m, G)
<1>1. ASSUME NEW h \in G
      PROVE  Forward(m, h) \in Seq(Links(h)) /\ Chain(a, h, Forward(m, h)) /\ Forward(a, h) = Forward(m, h)
  <2> DEFINE s == Forward(m, h)
  <2>1. s \in Seq(Links(h)) /\ Chain(m, h, s) /\ h \in Node /\ Links(h) \subseteq Node
    BY HeadsAndLinks DEF Intact
  <2>2. s \in Seq(Node) /\ Entries(s) \subseteq Node
    BY <2>1, EntriesType
  <2>3. \A n \in {h} \cup Entries(s) : a.next[n] = m.next[n] /\ a.prev[n] = m.prev[n]
    BY <2>1, <2>2
  <2> HIDE DEF s
  <2>4. Chain(a, h, s)
    BY <2>1, <2>2, <2>3, ChainFrame
  <2> QED
    BY <2>1, <2>2, <2>4, ChainRead DEF s
<1> QED
  BY <1>1 DEF Intact, SameLists

\* What follows for the lists when one of them has changed and the others have not.
LEMMA OneListChanged ==
  ASSUME NEW m, NEW H, Intact(m, H), NEW a, IsMemory(a), NEW h \in H,
         Intact(a, H \ {h}), SameLists(a, m, H \ {h}),
         NEW t \in Seq(Links(h)), Chain(a, h, t),
         \A k \in H \ {h} : Entries(t) \cap Entries(Forward(m, k)) = {}
  PROVE  Intact(a, H) /\ Forward(a, h) = t
<1>1. h \in Node /\ Links(h) \subseteq Node
  BY HeadsAndLinks DEF Intact
<1>2. t \in Seq(Node)
  BY <1>1
<1>3. Forward(a, h) = t
  BY <1>1, <1>2, ChainRead
<1>4. \A k \in H \ {h} : Forward(a, k) = Forward(m, k)
  BY DEF SameLists
<1>5. ASSUME NEW x \in H, NEW k \in H, x # k
      PROVE  Entries(Forward(a, x)) \cap Entries(Forward(a, k)) = {}
  <2>1. CASE x = h
    BY <1>3, <1>4, <1>5, <2>1
  <2>2. CASE k = h
    BY <1>3, <1>4, <1>5, <2>2
  <2>3. CASE x # h /\ k # h
    BY <1>5, <2>3 DEF Intact
  <2> QED
    BY <2>1, <2>2, <2>3
<1>6. \A k \in H : Forward(a, k) \in Seq(Links(k)) /\ Chain(a, k, Forward(a, k))
  BY <1>3 DEF Intact
<1> QED
  BY <1>3, <1>5, <1>6 DEF Intact

\* Writing links leaves a memory a memory.
LEMMA LinkWrites ==
  ASSUME NEW m, IsMemory(m), NEW x \in Node, NEW prv \in Node, NEW nxt \in Node
  PROVE  /\ IsMemory(INIT_LIST_HEAD(m, x)) /\ SameData(INIT_LIST_HEAD(m, x), m)
         /\ IsMemory(ListAddBetween(m, x, prv, nxt)) /\ SameData(ListAddBetween(m, x, prv, nxt), m)
         /\ IsMemory(ListDelBetween(m, prv, nxt)) /\ SameData(ListDelBetween(m, prv, nxt), m)
<1>1. \A n \in {"p_parent", "p_semAdd", "p_prio", "s_key"} : n \in DOMAIN m /\ n # "next" /\ n # "prev"
  BY DEF IsMemory
<1>2. Memory(INIT_LIST_HEAD(m, x), Node)
  BY DEF IsMemory, Memory, INIT_LIST_HEAD
<1>3. Memory(ListAddBetween(m, x, prv, nxt), Node)
  BY AddLinks DEF IsMemory, Added
<1>4. Memory(ListDelBetween(m, prv, nxt), Node)
  BY DelLinks DEF IsMemory, Deleted
<1>5. /\ SameData(INIT_LIST_HEAD(m, x), m) /\ DOMAIN INIT_LIST_HEAD(m, x) = DOMAIN m
      /\ SameData(ListAddBetween(m, x, prv, nxt), m) /\ DOMAIN ListAddBetween(m, x, prv, nxt) = DOMAIN m
      /\ SameData(ListDelBetween(m, prv, nxt), m) /\ DOMAIN ListDelBetween(m, prv, nxt) = DOMAIN m
  BY <1>1 DEF SameData, INIT_LIST_HEAD, ListAddBetween, ListDelBetween
<1> QED
  BY <1>2, <1>3, <1>4, <1>5 DEF IsMemory, SameData

\* A node that is in no list joins one between two neighbours.
LEMMA AddedAt ==
  ASSUME NEW m, NEW H, Intact(m, H), NEW h \in H, NEW n \in Links(h),
         \A x \in H : n \notin Entries(Forward(m, x)),
         NEW k \in 0..Len(Forward(m, h))
  PROVE  LET s == Forward(m, h)
             a == ListAddBetween(m, n, At(h, s, k), At(h, s, k + 1))
         IN  /\ Intact(a, H) /\ SameData(a, m) /\ SameLists(a, m, H \ {h})
             /\ Forward(a, h) = Inserted(s, k, n)
<1> DEFINE s == Forward(m, h)
           prv == At(h, s, k)
           nxt == At(h, s, k + 1)
           a == ListAddBetween(m, n, prv, nxt)
<1>1. /\ s \in Seq(Links(h)) /\ Chain(m, h, s) /\ h \in Node /\ Links(h) \subseteq Node
      /\ IsMemory(m) /\ Memory(m, Node) /\ n # h /\ n \notin Entries(s) /\ H \subseteq Heads
      /\ Links(h) \cap Heads = {}
  BY HeadsAndLinks DEF Intact, IsMemory
<1>2. s \in Seq(Node) /\ NoRepeats(s) /\ h \notin Entries(s) /\ k + 1 \in 0..(Len(s) + 1) /\ k \in 0..(Len(s) + 1)
  BY <1>1 DEF Chain
<1>3. /\ prv \in {h} \cup Entries(s) /\ prv \in Node
      /\ nxt \in {h} \cup Entries(s) /\ nxt \in Node
  BY <1>1, <1>2, AtFacts
<1>4. n \in Node
  BY <1>1
<1>5. IsMemory(a) /\ SameData(a, m)
  BY <1>1, <1>3, <1>4, LinkWrites
<1> DEFINE Touched == {n, prv, nxt}
<1>6. \A x \in Node \ Touched : a.next[x] = m.next[x] /\ a.prev[x] = m.prev[x]
  <2>1. Added(a, m, Node, n, prv, nxt)
    BY <1>1, <1>3, <1>4, AddLinks
  <2> HIDE DEF a, prv, nxt
  <2> QED
    BY <2>1 DEF Added
<1>7. ASSUME NEW x \in H \ {h}
      PROVE  x \notin Touched /\ Entries(Forward(m, x)) \cap Touched = {}
  <2>1. x \notin Entries(s) /\ x # n
    <3>1. Entries(s) \subseteq Links(h)
      BY <1>1, EntriesType
    <3> QED
      BY <1>1, <3>1
  <2>2. h \notin Entries(Forward(m, x))
    <3>1. Entries(Forward(m, x)) \subseteq Links(x)
      BY EntriesType DEF Intact
    <3> QED
      BY <1>1, <3>1, HeadsAndLinks
  <2>3. Entries(s) \cap Entries(Forward(m, x)) = {} /\ n \notin Entries(Forward(m, x))
    BY DEF Intact
  <2> HIDE DEF s, prv, nxt
  <2> QED
    BY <1>3, <2>1, <2>2, <2>3
<1> HIDE DEF a, Touched
<1>8. Intact(a, H \ {h}) /\ SameLists(a, m, H \ {h})
  BY <1>5, <1>6, <1>7, UntouchedLists
<1> DEFINE t == Inserted(s, k, n)
<1>9. t \in Seq(Links(h)) /\ Entries(t) = Entries(s) \cup {n}
  <2>1. /\ \A S : h \in S /\ Links(h) \subseteq S /\ s \in Seq(S) => Entries(t) = Entries(s) \cup {n}
        /\ Len(t) = Len(s) + 1 /\ t \in Seq(Node)
    BY <1>1, <1>2, <1>4, InsertedFacts
  <2>2. Entries(t) = Entries(s) \cup {n} /\ Entries(s) \subseteq Links(h)
    BY <1>1, <1>2, <2>1, EntriesType
  <2>3. Entries(t) \subseteq Links(h)
    BY <2>2
  <2>4. \A i \in 1..Len(t) : t[i] \in Links(h)
    BY <2>1, <2>3 DEF Entries
  <2> HIDE DEF t
  <2>5. t \in Seq(Links(h))
    BY <2>1, <2>4
  <2> QED
    BY <2>2, <2>5
<1>10. Chain(a, h, t)
  BY <1>1, <1>2, <1>4, ChainAdd DEF a
<1>11. \A x \in H \ {h} : Entries(t) \cap Entries(Forward(m, x)) = {}
  <2> HIDE DEF t
  <2> QED
    BY <1>9 DEF Intact
<1> HIDE DEF t, s
<1>12. Intact(a, H) /\ Forward(a, h) = t
  BY <1>5, <1>8, <1>9, <1>10, <1>11, OneListChanged
<1> QED
  BY <1>5, <1>8, <1>12 DEF a, s, t

\* In a the list of h is t, and nothing else has changed.
Becomes(a, m, H, h, t) ==
  Intact(a, H) /\ SameData(a, m) /\ SameOthers(a, m, H, h) /\ Forward(a, h) = t

\* A node of a list leaves it.
LEMMA DeletedAt ==
  ASSUME NEW m, NEW H, Intact(m, H), NEW h \in H, NEW s, s = Forward(m, h),
         NEW k, k \in 1..Len(s), NEW n, n = s[k]
  PROVE  Becomes(list_del(m, n), m, H, h, Dropped(s, k))
<1> DEFINE prv == At(h, s, k - 1)
           nxt == At(h, s, k + 1)
           d == list_del(m, n)
           t == Dropped(s, k)
<1>1. /\ s \in Seq(Links(h)) /\ Chain(m, h, s) /\ h \in Node /\ Links(h) \subseteq Node
      /\ IsMemory(m) /\ Memory(m, Node) /\ H \subseteq Heads
      /\ Links(h) \cap Heads = {}
  BY HeadsAndLinks DEF Intact, IsMemory
<1>2. s \in Seq(Node) /\ NoRepeats(s) /\ h \notin Entries(s) /\ k + 1 \in 0..(Len(s) + 1) /\ k - 1 \in 0..(Len(s) + 1)
  BY <1>1 DEF Chain
<1>3. /\ prv \in {h} \cup Entries(s) /\ prv \in Node
      /\ nxt \in {h} \cup Entries(s) /\ nxt \in Node
  BY <1>1, <1>2, AtFacts
<1>4. Chain(d, h, t) /\ d = ListDelBetween(m, prv, nxt)
  <2>1. Chain(list_del(m, s[k]), h, t) /\ m.prev[s[k]] = prv /\ m.next[s[k]] = nxt
    BY <1>1, <1>2, ChainDel
  <2> QED
    BY <2>1 DEF list_del
<1>5. IsMemory(d) /\ SameData(d, m)
  BY <1>1, <1>3, <1>4, LinkWrites
<1> DEFINE Touched == {prv, nxt}
<1>6. \A x \in Node \ Touched : d.next[x] = m.next[x] /\ d.prev[x] = m.prev[x]
  <2>1. Deleted(d, m, Node, prv, nxt)
    BY <1>1, <1>3, <1>4, DelLinks
  <2> HIDE DEF d, prv, nxt
  <2> QED
    BY <2>1 DEF Deleted
<1>7. ASSUME NEW x \in H \ {h}
      PROVE  x \notin Touched /\ Entries(Forward(m, x)) \cap Touched = {}
  <2>1. x \notin Entries(s)
    <3>1. Entries(s) \subseteq Links(h)
      BY <1>1, EntriesType
    <3> QED
      BY <1>1, <3>1
  <2>2. h \notin Entries(Forward(m, x))
    <3>1. Entries(Forward(m, x)) \subseteq Links(x)
      BY EntriesType DEF Intact
    <3> QED
      BY <1>1, <3>1, HeadsAndLinks
  <2>3. Entries(s) \cap Entries(Forward(m, x)) = {}
    BY DEF Intact
  <2> HIDE DEF d, prv, nxt
  <2> QED
    BY <1>3, <2>1, <2>2, <2>3
<1> HIDE DEF d, Touched
<1>8. Intact(d, H \ {h}) /\ SameLists(d, m, H \ {h})
  BY <1>5, <1>6, <1>7, UntouchedLists
<1>9. t \in Seq(Links(h)) /\ Entries(t) = Entries(s) \ {s[k]}
  <2>1. Entries(t) = Entries(s) \ {s[k]} /\ t \in Seq(Node)
    BY <1>1, <1>2, DroppedFacts
  <2>2. Entries(s) \subseteq Links(h)
    BY <1>1, EntriesType
  <2>3. Len(t) \in Nat /\ DOMAIN t = 1..Len(t) /\ t = [i \in 1..Len(t) |-> t[i]]
    BY <2>1
  <2> HIDE DEF t
  <2>4. \A i \in 1..Len(t) : t[i] \in Links(h)
    BY <2>1, <2>2, <2>3 DEF Entries
  <2>5. t \in Seq(Links(h))
    BY <2>3, <2>4
  <2> QED
    BY <2>1, <2>5
<1>10. \A x \in H \ {h} : Entries(t) \cap Entries(Forward(m, x)) = {}
  <2> HIDE DEF t
  <2> QED
    BY <1>9 DEF Intact
<1> HIDE DEF t
<1>11. Intact(d, H) /\ Forward(d, h) = t
  BY <1>4, <1>5, <1>8, <1>9, <1>10, OneListChanged
<1> QED
  BY <1>5, <1>8, <1>11 DEF Becomes, d, t, SameLists, SameOthers

\* The lists of G are those of a; the structure x has joined, or left, that of h.
Joined(a, m, H, h, x) ==
  /\ Intact(a, H) /\ SameData(a, m) /\ SameOthers(a, m, H, h)
  /\ Members(a, h) = Members(m, h) \cup {x}

Left(a, m, H, h, x) ==
  /\ Intact(a, H) /\ SameData(a, m) /\ SameOthers(a, m, H, h)
  /\ Members(a, h) = Members(m, h) \ {x}

\* Equal lists have equal members.
LEMMA SameMembers ==
  ASSUME NEW a, NEW m, NEW H, SameLists(a, m, H)
  PROVE  \A h \in H : Members(a, h) = Members(m, h) /\ InList(a, h) = InList(m, h)
BY DEF SameLists, Members, InList

\* Adding a structure that is in no list of its kind, at either end.
LEMMA PutIn ==
  ASSUME NEW m, NEW H, Intact(m, H), NEW h \in H, NEW x \in Pcb,
         \A k \in H : Field(k) = Field(h) => x \notin Members(m, k)
  PROVE  LET n == <<Field(h), x>>
             s == Forward(m, h)
         IN  /\ Joined(list_add(m, n, h), m, H, h, x)
             /\ Forward(list_add(m, n, h), h) = Inserted(s, 0, n)
             /\ Joined(list_add_tail(m, n, h), m, H, h, x)
             /\ Forward(list_add_tail(m, n, h), h) = Inserted(s, Len(s), n)
<1> DEFINE n == <<Field(h), x>>
           s == Forward(m, h)
<1>1. /\ s \in Seq(Links(h)) /\ Chain(m, h, s) /\ h \in Node /\ Links(h) \subseteq Node
      /\ n \in Links(h) /\ Len(s) \in Nat
  <2>1. n \in Links(h)
    BY DEF Links
  <2> QED
    BY <2>1, HeadsAndLinks DEF Intact
<1>2. ASSUME NEW k \in H
      PROVE  n \notin Entries(Forward(m, k))
  <2>1. CASE Field(k) = Field(h)
    BY <2>1, MembersFacts
  <2>2. CASE Field(k) # Field(h)
    <3>1. Entries(Forward(m, k)) \subseteq Links(k)
      BY EntriesType DEF Intact
    <3> QED
      BY <2>2, <3>1 DEF Links
  <2> QED
    BY <2>1, <2>2
<1>3. s \in Seq(Node) /\ NoRepeats(s) /\ h \notin Entries(s)
  BY <1>1 DEF Chain
<1>4. /\ At(h, s, 0) = h /\ At(h, s, Len(s) + 1) = h
      /\ m.next[h] = At(h, s, 0 + 1) /\ m.prev[h] = At(h, s, Len(s))
  <2>1. At(h, s, 0) = h /\ At(h, s, Len(s) + 1) = h
    BY <1>1, <1>3, AtFacts
  <2>2. m.next[At(h, s, 0)] = At(h, s, 0 + 1) /\ m.prev[At(h, s, Len(s) + 1)] = At(h, s, Len(s))
    <3>1. 0 \in 0..Len(s) /\ Len(s) \in 0..Len(s)
      BY <1>1
    <3> QED
      BY <1>1, <3>1 DEF Chain
  <2> QED
    BY <2>1, <2>2
<1>5. /\ list_add(m, n, h) = ListAddBetween(m, n, At(h, s, 0), At(h, s, 0 + 1))
      /\ list_add_tail(m, n, h) = ListAddBetween(m, n, At(h, s, Len(s)), At(h, s, Len(s) + 1))
  BY <1>4 DEF list_add, list_add_tail
<1>6. ASSUME NEW k \in 0..Len(s)
      PROVE  LET a == ListAddBetween(m, n, At(h, s, k), At(h, s, k + 1))
             IN  Joined(a, m, H, h, x) /\ Forward(a, h) = Inserted(s, k, n)
  <2> DEFINE a == ListAddBetween(m, n, At(h, s, k), At(h, s, k + 1))
             t == Inserted(s, k, n)
  <2>1. Intact(a, H) /\ SameData(a, m) /\ SameOthers(a, m, H, h) /\ Forward(a, h) = t
    BY <1>1, <1>2, AddedAt DEF SameLists, SameOthers
  <2>2. Entries(t) = Entries(s) \cup {n}
    <3>1. n \in Node /\ n # h /\ n \notin Entries(s)
      BY <1>1, <1>2, HeadsAndLinks DEF Intact
    <3> HIDE DEF n, s
    <3> QED
      BY <1>1, <1>3, <3>1, InsertedFacts
  <2> HIDE DEF a, t
  <2>3. \A y : y \in Members(m, h) <=> <<Field(h), y>> \in Entries(s)
    BY MembersFacts
  <2>4. \A y : y \in Members(a, h) <=> <<Field(h), y>> \in Entries(t)
    BY <2>1, MembersFacts
  <2>5. \A y : y \in Members(a, h) <=> y \in Members(m, h) \cup {x}
    BY <2>2, <2>3, <2>4
  <2> QED
    BY <2>1, <2>5 DEF Joined, a, t
<1>7. 0 \in 0..Len(s) /\ Len(s) \in 0..Len(s)
  BY <1>1
<1> QED
  BY <1>5, <1>6, <1>7

\* Deleting a structure that is in a list.
LEMMA TakeOut ==
  ASSUME NEW m, NEW H, Intact(m, H), NEW h \in H, NEW x \in Members(m, h)
  PROVE  LET d == list_del(m, <<Field(h), x>>)
             s == Forward(m, h)
         IN  /\ Left(d, m, H, h, x)
             /\ \E k \in 1..Len(s) : s[k] = <<Field(h), x>> /\ Forward(d, h) = Dropped(s, k)
<1> DEFINE n == <<Field(h), x>>
           s == Forward(m, h)
           d == list_del(m, n)
<1>1. n \in Entries(s)
  BY MembersFacts
<1>2. PICK k \in 1..Len(s) : s[k] = n
  <2>1. s \in Seq(Links(h))
    BY DEF Intact
  <2> QED
    BY <1>1, <2>1 DEF Entries
<1>3. Becomes(d, m, H, h, Dropped(s, k))
  <2>1. n = s[k] /\ s = Forward(m, h) /\ k \in 1..Len(s)
    BY <1>2
  <2> HIDE DEF n, s
  <2> QED
    BY <2>1, DeletedAt
<1>4. Intact(d, H) /\ SameData(d, m) /\ SameOthers(d, m, H, h) /\ Forward(d, h) = Dropped(s, k)
  BY <1>3 DEF Becomes
<1>5. Entries(Dropped(s, k)) = Entries(s) \ {n}
  <2>1. s \in Seq(Node) /\ h \in Node /\ NoRepeats(s) /\ h \notin Entries(s)
    BY HeadsAndLinks DEF Intact, Chain
  <2> HIDE DEF s, n
  <2> QED
    BY <1>2, <2>1, DroppedFacts
<1> HIDE DEF d, s
<1>6. \A y : y \in Members(m, h) <=> <<Field(h), y>> \in Entries(s)
  BY MembersFacts DEF s
<1>7. \A y : y \in Members(d, h) <=> <<Field(h), y>> \in Entries(Dropped(s, k))
  BY <1>4, MembersFacts
<1>8. Members(d, h) = Members(m, h) \ {x}
  <2>1. \A y : y \in Members(d, h) <=> y \in Members(m, h) \ {x}
    BY <1>5, <1>6, <1>7
  <2> QED
    BY <2>1
<1>9. Left(d, m, H, h, x)
  BY <1>4, <1>8 DEF Left
<1> QED
  BY <1>2, <1>4, <1>9 DEF d, s

\* Initialising a node that is in no list: a head has an empty list then.
LEMMA NewHead ==
  ASSUME NEW m, NEW H, Intact(m, H), NEW h \in Heads, NEW a, a = INIT_LIST_HEAD(m, h),
         NEW G, G = H \cup {h}
  PROVE  /\ Intact(a, G) /\ SameData(a, m) /\ SameOthers(a, m, H, h)
         /\ Members(a, h) = {}
<1>1. h \in Node /\ IsMemory(m) /\ Memory(m, Node) /\ H \subseteq Heads
  BY HeadsAndLinks DEF Intact, IsMemory
<1>2. IsMemory(a) /\ SameData(a, m)
  BY <1>1, LinkWrites
<1>3. \A n \in Node \ {h} : a.next[n] = m.next[n] /\ a.prev[n] = m.prev[n]
  BY <1>1 DEF Memory, INIT_LIST_HEAD
<1>4. \A k \in H \ {h} : k \notin {h} /\ Entries(Forward(m, k)) \cap {h} = {}
  <2> SUFFICES ASSUME NEW k \in H
               PROVE  h \notin Entries(Forward(m, k))
    OBVIOUS
  <2>1. Entries(Forward(m, k)) \subseteq Links(k)
    BY EntriesType DEF Intact
  <2> QED
    BY <1>1, <2>1, HeadsAndLinks
<1>5. Intact(a, H \ {h}) /\ SameLists(a, m, H \ {h})
  BY <1>2, <1>3, <1>4, UntouchedLists
<1>6. Forward(a, h) = <<>> /\ Chain(a, h, <<>>)
  <2>1. Chain(a, h, <<>>)
    BY <1>1, ChainInit
  <2>2. <<>> \in Seq(Node)
    OBVIOUS
  <2> QED
    BY <1>1, <2>1, <2>2, ChainRead
<1>7. Entries(<<>>) = {} /\ <<>> \in Seq(Links(h))
  BY EntriesOfNothing
<1>8. Intact(a, H \cup {h})
  <2>1. \A k \in H \cup {h} : Forward(a, k) \in Seq(Links(k)) /\ Chain(a, k, Forward(a, k))
    BY <1>5, <1>6, <1>7 DEF Intact
  <2>2. \A k, x \in H \cup {h} : k # x => Entries(Forward(a, k)) \cap Entries(Forward(a, x)) = {}
    BY <1>5, <1>6, <1>7 DEF Intact
  <2> QED
    BY <1>1, <1>5, <2>1, <2>2 DEF Intact
<1>9. Members(a, h) = {}
  <2>1. \A x : x \in Members(a, h) <=> <<Field(h), x>> \in Entries(Forward(a, h))
    BY <1>8, MembersFacts
  <2> QED
    BY <1>6, <1>7, <2>1
<1> QED
  BY <1>2, <1>5, <1>8, <1>9 DEF SameLists, SameOthers

\* Initialising a link that is in no list.
LEMMA NewLink ==
  ASSUME NEW m, NEW H, Intact(m, H), NEW n \in Node \ Heads,
         \A k \in H : n \notin Entries(Forward(m, k)), NEW a, a = INIT_LIST_HEAD(m, n)
  PROVE  Intact(a, H) /\ SameData(a, m) /\ SameLists(a, m, H)
<1>1. IsMemory(m) /\ Memory(m, Node) /\ H \subseteq Heads
  BY DEF Intact, IsMemory
<1>2. IsMemory(a) /\ SameData(a, m)
  BY <1>1, LinkWrites
<1>3. \A x \in Node \ {n} : a.next[x] = m.next[x] /\ a.prev[x] = m.prev[x]
  BY <1>1 DEF Memory, INIT_LIST_HEAD
<1>4. \A k \in H : k \notin {n} /\ Entries(Forward(m, k)) \cap {n} = {}
  BY <1>1
<1> QED
  BY <1>2, <1>3, <1>4, UntouchedLists

\* The lists are read from the links alone.
LEMMA SameLinks ==
  ASSUME NEW m, NEW H, Intact(m, H), NEW a, IsMemory(a), a.next = m.next, a.prev = m.prev
  PROVE  Intact(a, H) /\ SameLists(a, m, H)
BY DEF Intact, SameLists, Forward, Chain

\* Fewer heads.
LEMMA FewerHeads ==
  ASSUME NEW m, NEW H, Intact(m, H), NEW G \in SUBSET H
  PROVE  Intact(m, G)
BY DEF Intact

\* A structure is in one list of its kind.
LEMMA Apart ==
  ASSUME NEW m, NEW H, Intact(m, H), NEW h \in H, NEW k \in H, h # k, Field(h) = Field(k)
  PROVE  Members(m, h) \cap Members(m, k) = {}
<1>1. Entries(Forward(m, h)) \cap Entries(Forward(m, k)) = {}
  BY DEF Intact
<1>2. \A x : x \in Members(m, h) <=> <<Field(h), x>> \in Entries(Forward(m, h))
  BY MembersFacts
<1>3. \A x : x \in Members(m, k) <=> <<Field(h), x>> \in Entries(Forward(m, k))
  BY MembersFacts
<1> QED
  BY <1>1, <1>2, <1>3

-----------------------------------------------------------------------------
(* The invariant, for a memory m.                                          *)

Live(m) == Pcb \ Members(m, pcbFree_h)

\* The heads that have lists when the blocks of A are allocated.
InUse(A) == {pcbFree_h, semdFree_h, semd_h, high_ready_q, low_ready_q}
              \cup {PChild(p) : p \in A} \cup {SProcq(d) : d \in Pcb}

\* The children of a block are those that name it, and only blocks in use are
\* named.
TreeInv(m) ==
  /\ \A p \in Live(m) : Members(m, PChild(p)) = {c \in Pcb : m.p_parent[c] = p}
  /\ \A c \in Live(m) : m.p_parent[c] \in Live(m) \cup {NULL}
  /\ \A c \in Pcb \ Live(m) : m.p_parent[c] \in {NULL, Zero}

SemdInv(m) ==
  /\ Members(m, semdFree_h) = Pcb \ Members(m, semd_h)
  /\ \A d, e \in Members(m, semd_h) : m.s_key[d] = m.s_key[e] => d = e
  /\ \A d \in Pcb : Members(m, SProcq(d)) # {} <=> d \in Members(m, semd_h)
  /\ \A d \in Members(m, semd_h) : \A p \in Members(m, SProcq(d)) : m.p_semAdd[p] = m.s_key[d]

\* Exterminate will look in that queue for whoever is in the one of high
\* priority.
QueueInv(m) == \A p \in Members(m, high_ready_q) : m.p_prio[p] # 0

Inv(m) == Intact(m, InUse(Live(m))) /\ TreeInv(m) /\ SemdInv(m) /\ QueueInv(m)

\* No process is its own ancestor: each has a higher rank than its parent.
Ranked(m, rank) ==
  /\ rank \in [Pcb -> Nat]
  /\ \A c \in Pcb : m.p_parent[c] \in Pcb => rank[m.p_parent[c]] < rank[c]

\* Allocated and in no queue.
LooseIn(m, p) ==
  /\ p \in Live(m) /\ p \notin Members(m, high_ready_q) /\ p \notin Members(m, low_ready_q)
  /\ \A d \in Pcb : p \notin Members(m, SProcq(d))

\* The heads of the lists in use, by the field their entries are linked by.
LEMMA InUseFacts ==
  ASSUME NEW A, A \subseteq Pcb
  PROVE  /\ InUse(A) \subseteq Heads
         /\ {pcbFree_h, semdFree_h, semd_h, high_ready_q, low_ready_q} \subseteq InUse(A)
         /\ \A p \in A : PChild(p) \in InUse(A)
         /\ \A d \in Pcb : SProcq(d) \in InUse(A)
         /\ \A h \in InUse(A) :
              /\ Field(h) = "p_list" => h \in {pcbFree_h, high_ready_q, low_ready_q} \cup {SProcq(d) : d \in Pcb}
              /\ Field(h) = "p_sib" => h \in {PChild(p) : p \in A}
              /\ Field(h) = "s_link" => h \in {semdFree_h, semd_h}
<1>1. InUse(A) \subseteq Heads
  BY DEF InUse, Heads, Pcb, Semd
<1>2. \A p \in A : Field(PChild(p)) = "p_sib"
  BY FieldOf
<1> QED
  BY <1>1, <1>2, FieldOf DEF InUse

\* Which lists are disjoint.
LEMMA ListsApart ==
  ASSUME NEW m, Inv(m)
  PROVE  /\ IsMemory(m) /\ Intact(m, InUse(Live(m))) /\ Live(m) \subseteq Pcb
         /\ \A h \in InUse(Live(m)) : Members(m, h) \subseteq Pcb
         /\ Members(m, pcbFree_h) \cap Members(m, high_ready_q) = {}
         /\ Members(m, pcbFree_h) \cap Members(m, low_ready_q) = {}
         /\ Members(m, high_ready_q) \cap Members(m, low_ready_q) = {}
         /\ Members(m, semdFree_h) \cap Members(m, semd_h) = {}
         /\ \A d \in Pcb : /\ Members(m, SProcq(d)) \cap Members(m, pcbFree_h) = {}
                           /\ Members(m, SProcq(d)) \cap Members(m, high_ready_q) = {}
                           /\ Members(m, SProcq(d)) \cap Members(m, low_ready_q) = {}
         /\ \A d, e \in Pcb : d # e => Members(m, SProcq(d)) \cap Members(m, SProcq(e)) = {}
         /\ \A p, q \in Live(m) : p # q => Members(m, PChild(p)) \cap Members(m, PChild(q)) = {}
<1> DEFINE H == InUse(Live(m))
<1>1. Intact(m, H) /\ Live(m) \subseteq Pcb /\ IsMemory(m)
  BY DEF Inv, Live, Intact
<1>2. /\ {pcbFree_h, semdFree_h, semd_h, high_ready_q, low_ready_q} \subseteq H
      /\ \A p \in Live(m) : PChild(p) \in H
      /\ \A d \in Pcb : SProcq(d) \in H
  BY <1>1, InUseFacts
<1> HIDE DEF H
<1>3. \A h \in H : Members(m, h) \subseteq Pcb
  BY <1>1, MembersFacts
<1>4. \A h, k \in H : h # k /\ Field(h) = Field(k) => Members(m, h) \cap Members(m, k) = {}
  BY <1>1, Apart
<1>5. /\ Members(m, pcbFree_h) \cap Members(m, high_ready_q) = {}
      /\ Members(m, pcbFree_h) \cap Members(m, low_ready_q) = {}
      /\ Members(m, high_ready_q) \cap Members(m, low_ready_q) = {}
      /\ Members(m, semdFree_h) \cap Members(m, semd_h) = {}
  BY <1>2, <1>4, FieldOf, HeadsDiffer
<1>6. ASSUME NEW d \in Pcb
      PROVE  /\ Members(m, SProcq(d)) \cap Members(m, pcbFree_h) = {}
             /\ Members(m, SProcq(d)) \cap Members(m, high_ready_q) = {}
             /\ Members(m, SProcq(d)) \cap Members(m, low_ready_q) = {}
             /\ \A e \in Pcb : d # e => Members(m, SProcq(d)) \cap Members(m, SProcq(e)) = {}
  BY <1>2, <1>4, FieldOf, HeadsDiffer
<1>7. ASSUME NEW p \in Live(m), NEW q \in Live(m), p # q
      PROVE  Members(m, PChild(p)) \cap Members(m, PChild(q)) = {}
  BY <1>1, <1>2, <1>4, <1>7, FieldOf, HeadsDiffer
<1> QED
  BY <1>1, <1>3, <1>5, <1>6, <1>7 DEF H

-----------------------------------------------------------------------------
(* The lists as sequences of structures, which is what the module Kernel   *)
(* has of the queues.                                                      *)

\* A list has each of its members once.
LEMMA InListFacts ==
  ASSUME NEW m, NEW H, Intact(m, H), NEW h \in H
  PROVE  /\ InList(m, h) \in Seq(Pcb) /\ NoRepeats(InList(m, h)) /\ Entries(InList(m, h)) = Members(m, h)
         /\ Len(InList(m, h)) = Len(Forward(m, h))
         /\ \A i \in 1..Len(Forward(m, h)) : Forward(m, h)[i] = <<Field(h), InList(m, h)[i]>>
         /\ InList(m, h) = <<>> <=> Members(m, h) = {}
         /\ ~list_empty(m, h) => InList(m, h) # <<>> /\ First(m, h) = Head(InList(m, h))
<1> DEFINE s == Forward(m, h)
           q == InList(m, h)
<1>1. s \in Seq(Links(h)) /\ Chain(m, h, s)
  BY DEF Intact
<1>2. \A x : x \in Members(m, h) <=> <<Field(h), x>> \in Entries(s)
  BY MembersFacts
<1>3. ~list_empty(m, h) => s # <<>> /\ <<Field(h), First(m, h)>> = s[1]
  BY MembersFacts
<1>4. q = [i \in DOMAIN s |-> s[i][2]]
  BY DEF InList
<1> HIDE DEF s, q
<1>5. /\ Len(s) \in Nat /\ DOMAIN s = 1..Len(s) /\ NoRepeats(s)
      /\ \A i \in 1..Len(s) : s[i] \in {Field(h)} \X Pcb
  BY <1>1 DEF Links, Chain
<1>6. /\ q \in Seq(Pcb) /\ Len(q) = Len(s) /\ DOMAIN q = 1..Len(s)
      /\ \A i \in 1..Len(s) : q[i] = s[i][2] /\ s[i] = <<Field(h), q[i]>>
  BY <1>4, <1>5
<1>7. NoRepeats(q)
  BY <1>5, <1>6 DEF NoRepeats
<1>8. Entries(q) = Members(m, h)
  <2>1. \A x : x \in Entries(q) <=> \E i \in 1..Len(s) : x = q[i]
    BY <1>6 DEF Entries
  <2>2. \A x : <<Field(h), x>> \in Entries(s) <=> \E i \in 1..Len(s) : <<Field(h), x>> = s[i]
    BY <1>5 DEF Entries
  <2>3. \A i \in 1..Len(s) : \A x : <<Field(h), x>> = s[i] <=> x = q[i]
    BY <1>6
  <2>4. ASSUME NEW x
        PROVE  x \in Entries(q) <=> x \in Members(m, h)
    <3>1. (\E i \in 1..Len(s) : x = q[i]) <=> \E i \in 1..Len(s) : <<Field(h), x>> = s[i]
      BY <2>3
    <3>2. x \in Entries(q) <=> \E i \in 1..Len(s) : x = q[i]
      BY <2>1
    <3>3. <<Field(h), x>> \in Entries(s) <=> \E i \in 1..Len(s) : <<Field(h), x>> = s[i]
      BY <2>2
    <3>4. x \in Members(m, h) <=> <<Field(h), x>> \in Entries(s)
      BY <1>2
    <3> QED
      BY <3>1, <3>2, <3>3, <3>4, Zenon
  <2> QED
    BY <2>4
<1>9. ASSUME ~list_empty(m, h)
      PROVE  q # <<>> /\ First(m, h) = Head(q)
  <2>1. 1 \in 1..Len(s) /\ Len(q) # 0
    BY <1>1, <1>3, <1>5, <1>6, <1>9
  <2>2. q[1] = First(m, h)
    BY <1>3, <1>6, <1>9, <2>1
  <2> QED
    BY <1>6, <2>1, <2>2
<1>10. q = <<>> <=> Members(m, h) = {}
  BY <1>6, <1>8, EntriesType
<1> QED
  BY <1>6, <1>7, <1>8, <1>9, <1>10 DEF s, q

\* Equal chains are equal sequences.
LEMMA SameInList ==
  ASSUME NEW a, NEW m, NEW h, Forward(a, h) = Forward(m, h)
  PROVE  InList(a, h) = InList(m, h) /\ Members(a, h) = Members(m, h)
BY DEF InList, Members

\* A structure joins a list at its end, or one that is empty.
LEMMA InListJoined ==
  ASSUME NEW m, NEW a, NEW H, Intact(m, H), Intact(a, H), NEW h \in H, NEW x \in Pcb,
         NEW n, n = <<Field(h), x>>
  PROVE  LET s == Forward(m, h)
         IN  /\ Forward(a, h) = Inserted(s, Len(s), n) => InList(a, h) = Append(InList(m, h), x)
             /\ Forward(a, h) = Inserted(s, 0, n) /\ Members(m, h) = {} => InList(a, h) = <<x>>
<1> DEFINE s == Forward(m, h)
           t == Forward(a, h)
           q == InList(m, h)
           r == InList(a, h)
<1>1. /\ q \in Seq(Pcb) /\ Len(q) = Len(s) /\ \A i \in 1..Len(s) : s[i] = <<Field(h), q[i]>>
      /\ q = <<>> <=> Members(m, h) = {}
  BY InListFacts
<1>2. r \in Seq(Pcb) /\ Len(r) = Len(t) /\ \A i \in 1..Len(t) : t[i] = <<Field(h), r[i]>>
  BY InListFacts
<1> HIDE DEF s, t, q, r
<1>3. Len(s) \in Nat
  BY <1>1
<1>4. ASSUME t = Inserted(s, Len(s), n)
      PROVE  r = Append(q, x)
  <2>1. /\ DOMAIN t = 1..(Len(s) + 1) /\ t[Len(s) + 1] = n
        /\ \A i \in 1..Len(s) : t[i] = s[i]
    BY <1>3, <1>4 DEF Inserted
  <2>2. Len(t) = Len(s) + 1
    BY <1>3, <1>4 DEF Inserted
  <2>3. r[Len(q) + 1] = x /\ \A i \in 1..Len(q) : r[i] = q[i]
    BY <1>1, <1>2, <1>3, <2>1, <2>2
  <2>4. /\ Append(q, x) \in Seq(Pcb) /\ Len(Append(q, x)) = Len(q) + 1
        /\ Append(q, x)[Len(q) + 1] = x /\ \A i \in 1..Len(q) : Append(q, x)[i] = q[i]
    BY <1>1
  <2>5. \A i \in 1..Len(r) : r[i] = Append(q, x)[i]
    <3>1. Len(r) = Len(q) + 1 /\ Len(q) \in Nat
      BY <1>1, <1>2, <1>3, <2>2
    <3> QED
      BY <2>3, <2>4, <3>1
  <2> QED
    BY <1>1, <1>2, <2>2, <2>4, <2>5, SeqEqual
<1>5. ASSUME t = Inserted(s, 0, n), Members(m, h) = {}
      PROVE  r = <<x>>
  <2>1. Len(s) = 0
    BY <1>1, <1>5
  <2>2. Len(t) = 1 /\ t[1] = n
    BY <1>5, <2>1 DEF Inserted
  <2>3. r[1] = x
    BY <1>2, <2>2
  <2> QED
    BY <1>2, <2>2, <2>3
<1> QED
  BY <1>4, <1>5 DEF s, t, q, r

\* A structure leaves a list.
LEMMA InListLeft ==
  ASSUME NEW m, NEW d, NEW H, Intact(m, H), Intact(d, H), NEW h \in H, NEW x \in Pcb,
         NEW k \in 1..Len(Forward(m, h)), Forward(m, h)[k] = <<Field(h), x>>,
         Forward(d, h) = Dropped(Forward(m, h), k)
  PROVE  InList(d, h) = Only(InList(m, h), Pcb \ {x})
<1> DEFINE s == Forward(m, h)
           t == Forward(d, h)
           q == InList(m, h)
           r == InList(d, h)
<1>1. /\ q \in Seq(Pcb) /\ NoRepeats(q) /\ Len(q) = Len(s)
      /\ \A i \in 1..Len(s) : s[i] = <<Field(h), q[i]>>
  BY InListFacts
<1>2. r \in Seq(Pcb) /\ Len(r) = Len(t) /\ \A i \in 1..Len(t) : t[i] = <<Field(h), r[i]>>
  BY InListFacts
<1>3. k \in 1..Len(s) /\ s[k] = <<Field(h), x>> /\ t = Dropped(s, k)
  OBVIOUS
<1> HIDE DEF s, t, q, r
<1>4. q[k] = x /\ Len(s) \in Nat /\ Len(s) - 1 \in Nat
  BY <1>1, <1>3
<1>5. Only(q, Pcb \ {x}) = Dropped(q, k)
  BY <1>1, <1>3, <1>4, OnlyDropped
<1>6. /\ Len(t) = Len(s) - 1
      /\ \A i \in 1..(Len(s) - 1) : t[i] = IF i < k THEN s[i] ELSE s[i + 1]
  BY <1>3, <1>4 DEF Dropped
<1>7. /\ Dropped(q, k) \in Seq(Pcb) /\ Len(Dropped(q, k)) = Len(s) - 1
      /\ \A i \in 1..(Len(s) - 1) : Dropped(q, k)[i] = IF i < k THEN q[i] ELSE q[i + 1]
  BY <1>1, <1>3, <1>4 DEF Dropped
<1>8. \A i \in 1..Len(r) : r[i] = Dropped(q, k)[i]
  BY <1>1, <1>2, <1>3, <1>4, <1>6, <1>7
<1>9. r = Dropped(q, k)
  BY <1>2, <1>6, <1>7, <1>8, SeqEqual
<1> QED
  BY <1>5, <1>9 DEF q, r

\* The ready queues, and the queues of the semaphores.
SameReady(a, m) == \A h \in {high_ready_q, low_ready_q} : InList(a, h) = InList(m, h)
SameWaits(a, m) == \A s : Waiters(a, s) = Waiters(m, s)

\* The waiters of a semaphore are in the queue of its descriptor.
LEMMA WaitersFacts ==
  ASSUME NEW m, Inv(m)
  PROVE  /\ \A d \in Members(m, semd_h) : Waiters(m, m.s_key[d]) = InList(m, SProcq(d))
         /\ \A s : (\A d \in Members(m, semd_h) : m.s_key[d] # s) => Waiters(m, s) = <<>>
         /\ \A s : /\ Waiters(m, s) \in Seq(Pcb) /\ NoRepeats(Waiters(m, s))
                   /\ \A p \in Entries(Waiters(m, s)) : m.p_semAdd[p] = s
<1>1. /\ Members(m, semd_h) \subseteq Pcb /\ SemdInv(m) /\ Intact(m, InUse(Live(m)))
      /\ \A d \in Pcb : SProcq(d) \in InUse(Live(m))
  BY ListsApart DEF Inv, InUse
<1>2. ASSUME NEW d \in Members(m, semd_h)
      PROVE  Waiters(m, m.s_key[d]) = InList(m, SProcq(d))
  <2>1. {e \in Members(m, semd_h) : m.s_key[e] = m.s_key[d]} = {d}
    BY <1>1 DEF SemdInv
  <2>2. (CHOOSE e \in {d} : TRUE) = d
    OBVIOUS
  <2> QED
    BY <2>1, <2>2 DEF Waiters
<1>3. ASSUME NEW s, \A d \in Members(m, semd_h) : m.s_key[d] # s
      PROVE  Waiters(m, s) = <<>>
  <2>1. {e \in Members(m, semd_h) : m.s_key[e] = s} = {}
    BY <1>3
  <2> QED
    BY <2>1 DEF Waiters
<1>4. ASSUME NEW s
      PROVE  /\ Waiters(m, s) \in Seq(Pcb) /\ NoRepeats(Waiters(m, s))
             /\ \A p \in Entries(Waiters(m, s)) : m.p_semAdd[p] = s
  <2>1. CASE \A d \in Members(m, semd_h) : m.s_key[d] # s
    <3>1. <<>> \in Seq(Pcb)
      OBVIOUS
    <3> QED
      BY <1>3, <2>1, <3>1, EntriesOfNothing
  <2>2. ASSUME NEW d \in Members(m, semd_h), m.s_key[d] = s
        PROVE  /\ Waiters(m, s) \in Seq(Pcb) /\ NoRepeats(Waiters(m, s))
               /\ \A p \in Entries(Waiters(m, s)) : m.p_semAdd[p] = s
    <3>1. Waiters(m, s) = InList(m, SProcq(d))
      BY <1>2, <2>2
    <3>2. /\ InList(m, SProcq(d)) \in Seq(Pcb) /\ NoRepeats(InList(m, SProcq(d)))
          /\ Entries(InList(m, SProcq(d))) = Members(m, SProcq(d))
      BY <1>1, InListFacts
    <3> QED
      BY <1>1, <2>2, <3>1, <3>2 DEF SemdInv
  <2> QED
    BY <2>1, <2>2
<1> QED
  BY <1>2, <1>3, <1>4

\* What a change in other lists leaves alone.
LEMMA ViewKept ==
  ASSUME NEW m, Inv(m), NEW h, NEW a, SameOthers(a, m, InUse(Live(m)), h), a.s_key = m.s_key
  PROVE  /\ h \notin {high_ready_q, low_ready_q} => SameReady(a, m)
         /\ h # high_ready_q => InList(a, high_ready_q) = InList(m, high_ready_q)
         /\ h # low_ready_q => InList(a, low_ready_q) = InList(m, low_ready_q)
         /\ h # semd_h /\ (\A d \in Pcb : h # SProcq(d)) => SameWaits(a, m)
<1>1. /\ Members(m, semd_h) \subseteq Pcb
      /\ {semd_h, high_ready_q, low_ready_q} \subseteq InUse(Live(m))
      /\ \A d \in Pcb : SProcq(d) \in InUse(Live(m))
  BY ListsApart DEF InUse
<1>2. \A k \in InUse(Live(m)) : h # k => InList(a, k) = InList(m, k) /\ Members(a, k) = Members(m, k)
  BY SameInList DEF SameOthers
<1>3. ASSUME h # semd_h, \A d \in Pcb : h # SProcq(d)
      PROVE  SameWaits(a, m)
  <2>1. /\ Members(a, semd_h) = Members(m, semd_h)
        /\ \A d \in Pcb : InList(a, SProcq(d)) = InList(m, SProcq(d))
    BY <1>1, <1>2, <1>3
  <2> SUFFICES ASSUME NEW s PROVE Waiters(a, s) = Waiters(m, s)
    BY DEF SameWaits
  <2> DEFINE ds == {d \in Members(m, semd_h) : m.s_key[d] = s}
             da == {d \in Members(a, semd_h) : a.s_key[d] = s}
  <2>2. ds = da
    BY <2>1
  <2>3. ds # {} => (CHOOSE d \in ds : TRUE) \in Pcb
    BY <1>1
  <2>4. /\ Waiters(m, s) = IF ds = {} THEN <<>> ELSE InList(m, SProcq(CHOOSE d \in ds : TRUE))
        /\ Waiters(a, s) = IF ds = {} THEN <<>> ELSE InList(a, SProcq(CHOOSE d \in ds : TRUE))
    <3>1. /\ Waiters(m, s) = IF ds = {} THEN <<>> ELSE InList(m, SProcq(CHOOSE d \in ds : TRUE))
          /\ Waiters(a, s) = IF da = {} THEN <<>> ELSE InList(a, SProcq(CHOOSE d \in da : TRUE))
      BY DEF Waiters
    <3> HIDE DEF ds, da
    <3> QED
      BY <2>2, <3>1
  <2> HIDE DEF ds
  <2> QED
    BY <2>1, <2>3, <2>4
<1> QED
  BY <1>1, <1>2, <1>3 DEF SameReady

-----------------------------------------------------------------------------
(* The queues of control blocks.                                           *)

\* The heads of lists linked by p_list.
PcbQueues == {pcbFree_h, high_ready_q, low_ready_q} \cup {SProcq(d) : d \in Pcb}

\* A process that is in no queue joins one.
LEMMA Enqueue ==
  ASSUME NEW m, Intact(m, InUse(Live(m))), NEW p, LooseIn(m, p), NEW h \in PcbQueues
  PROVE  /\ Joined(list_add(m, PList(p), h), m, InUse(Live(m)), h, p)
         /\ Members(m, h) = {} => InList(list_add(m, PList(p), h), h) = <<p>>
         /\ Joined(list_add_tail(m, PList(p), h), m, InUse(Live(m)), h, p)
         /\ InList(list_add_tail(m, PList(p), h), h) = Append(InList(m, h), p)
<1> DEFINE H == InUse(Live(m))
<1>1. Intact(m, H) /\ Live(m) \subseteq Pcb /\ p \in Pcb
  BY DEF Live, LooseIn
<1>2. h \in H /\ Field(h) = "p_list"
  BY <1>1, InUseFacts, FieldOf DEF PcbQueues
<1>3. \A k \in H : Field(k) = "p_list" => p \notin Members(m, k)
  <2>1. \A k \in H : Field(k) = "p_list" => k \in {pcbFree_h, high_ready_q, low_ready_q} \cup {SProcq(d) : d \in Pcb}
    BY <1>1, InUseFacts
  <2> HIDE DEF H
  <2> QED
    BY <2>1 DEF LooseIn, Live
<1>4. PList(p) = <<Field(h), p>>
  BY <1>2 DEF PList
<1> HIDE DEF H
<1> DEFINE n == <<Field(h), p>>
           a == list_add(m, n, h)
           b == list_add_tail(m, n, h)
<1>5. /\ Joined(a, m, H, h, p) /\ Forward(a, h) = Inserted(Forward(m, h), 0, n)
      /\ Joined(b, m, H, h, p) /\ Forward(b, h) = Inserted(Forward(m, h), Len(Forward(m, h)), n)
  BY <1>1, <1>2, <1>3, PutIn
<1>6. /\ Members(m, h) = {} => InList(a, h) = <<p>>
      /\ InList(b, h) = Append(InList(m, h), p)
  <2>1. Intact(a, H) /\ Intact(b, H) /\ n = <<Field(h), p>>
    BY <1>5 DEF Joined
  <2> HIDE DEF a, b, n
  <2> QED
    BY <1>1, <1>2, <1>5, <2>1, InListJoined
<1> QED
  BY <1>4, <1>5, <1>6 DEF H

\* A process leaves the queue it is in.
LEMMA Dequeue ==
  ASSUME NEW m, Inv(m), NEW h \in PcbQueues, NEW p \in Members(m, h)
  PROVE  /\ Left(list_del(m, PList(p)), m, InUse(Live(m)), h, p)
         /\ InList(list_del(m, PList(p)), h) = Only(InList(m, h), Pcb \ {p})
<1> DEFINE H == InUse(Live(m))
<1>1. Intact(m, H) /\ Live(m) \subseteq Pcb
  BY DEF Inv, Live
<1>2. h \in H /\ Field(h) = "p_list"
  BY <1>1, InUseFacts, FieldOf DEF PcbQueues
<1>3. PList(p) = <<Field(h), p>>
  BY <1>2 DEF PList
<1> HIDE DEF H
<1> DEFINE d == list_del(m, <<Field(h), p>>)
<1>4. /\ Left(d, m, H, h, p)
      /\ \E k \in 1..Len(Forward(m, h)) : /\ Forward(m, h)[k] = <<Field(h), p>>
                                         /\ Forward(d, h) = Dropped(Forward(m, h), k)
  BY <1>1, <1>2, TakeOut
<1>5. InList(d, h) = Only(InList(m, h), Pcb \ {p})
  <2>1. Intact(d, H) /\ p \in Pcb
    BY <1>1, <1>2, <1>4, MembersFacts DEF Left
  <2> HIDE DEF d
  <2> QED
    BY <1>1, <1>2, <1>4, <2>1, InListLeft
<1> QED
  BY <1>3, <1>4, <1>5 DEF H

\* What the three parts of the invariant are about.
LEMMA Frames ==
  ASSUME NEW m, Inv(m), NEW a
  PROVE  /\ Members(a, pcbFree_h) = Members(m, pcbFree_h) => Live(a) = Live(m)
         /\ /\ Members(a, pcbFree_h) = Members(m, pcbFree_h) /\ a.p_parent = m.p_parent
            /\ \A p \in Live(m) : Members(a, PChild(p)) = Members(m, PChild(p))
            => TreeInv(a)
         /\ /\ Members(a, semdFree_h) = Members(m, semdFree_h) /\ Members(a, semd_h) = Members(m, semd_h)
            /\ \A d \in Pcb : Members(a, SProcq(d)) = Members(m, SProcq(d))
            /\ a.s_key = m.s_key /\ a.p_semAdd = m.p_semAdd
            => SemdInv(a)
         /\ Members(a, high_ready_q) = Members(m, high_ready_q) /\ a.p_prio = m.p_prio
            => QueueInv(a)
<1>1. Members(a, pcbFree_h) = Members(m, pcbFree_h) => Live(a) = Live(m)
  BY DEF Live
<1>2. TreeInv(m) /\ SemdInv(m) /\ QueueInv(m) /\ Members(m, semd_h) \subseteq Pcb
  <2>1. semd_h \in InUse(Live(m))
    BY DEF InUse
  <2> QED
    BY <2>1, ListsApart DEF Inv
<1>3. ASSUME /\ Members(a, pcbFree_h) = Members(m, pcbFree_h) /\ a.p_parent = m.p_parent
             /\ \A p \in Live(m) : Members(a, PChild(p)) = Members(m, PChild(p))
      PROVE  TreeInv(a)
  BY <1>1, <1>2, <1>3 DEF TreeInv
<1>4. ASSUME /\ Members(a, semdFree_h) = Members(m, semdFree_h) /\ Members(a, semd_h) = Members(m, semd_h)
             /\ \A d \in Pcb : Members(a, SProcq(d)) = Members(m, SProcq(d))
             /\ a.s_key = m.s_key /\ a.p_semAdd = m.p_semAdd
      PROVE  SemdInv(a)
  BY <1>2, <1>4 DEF SemdInv
<1>5. ASSUME Members(a, high_ready_q) = Members(m, high_ready_q), a.p_prio = m.p_prio
      PROVE  QueueInv(a)
  BY <1>2, <1>5 DEF QueueInv
<1> QED
  BY <1>1, <1>3, <1>4, <1>5

\* The members of the lists that are the same, head by head.
HeadByHead(a, m, A, h) ==
  /\ h # pcbFree_h => Members(a, pcbFree_h) = Members(m, pcbFree_h)
  /\ h # high_ready_q => Members(a, high_ready_q) = Members(m, high_ready_q)
  /\ h # low_ready_q => Members(a, low_ready_q) = Members(m, low_ready_q)
  /\ h # semdFree_h => Members(a, semdFree_h) = Members(m, semdFree_h)
  /\ h # semd_h => Members(a, semd_h) = Members(m, semd_h)
  /\ \A p \in A : h # PChild(p) => Members(a, PChild(p)) = Members(m, PChild(p))
  /\ \A d \in Pcb : h # SProcq(d) => Members(a, SProcq(d)) = Members(m, SProcq(d))

\* What an operation on the list of one head leaves, list by list.
LEMMA SameHeadByHead ==
  ASSUME NEW m, NEW a, NEW A, A \subseteq Pcb, NEW h, SameOthers(a, m, InUse(A), h)
  PROVE  HeadByHead(a, m, A, h)
<1>1. \A k \in InUse(A) : h # k => Members(a, k) = Members(m, k)
  BY DEF SameOthers, Members
<1> QED
  BY <1>1, InUseFacts DEF HeadByHead

\* The queues do not change with another list.
LEMMA QueuesKept ==
  ASSUME NEW m, Inv(m), NEW a, a.s_key = m.s_key,
         NEW h \in {pcbFree_h} \cup {PChild(p) : p \in Pcb}, SameOthers(a, m, InUse(Live(m)), h)
  PROVE  SameReady(a, m) /\ SameWaits(a, m)
<1>1. h # semd_h /\ (\A d \in Pcb : h # SProcq(d)) /\ h \notin {high_ready_q, low_ready_q}
  BY HeadsDiffer
<1>2. /\ h \notin {high_ready_q, low_ready_q} => SameReady(a, m)
      /\ h # semd_h /\ (\A d \in Pcb : h # SProcq(d)) => SameWaits(a, m)
  BY ViewKept
<1> QED
  BY <1>1, <1>2

\* insertProcQ of a process that is in no queue, into a ready queue: into that
\* of high priority only if it has one.
LEMMA ReadyKeeps ==
  ASSUME NEW m, Inv(m), NEW p, LooseIn(m, p), NEW h \in {high_ready_q, low_ready_q},
         h = high_ready_q => m.p_prio[p] # 0, NEW a, a = insertProcQ(m, h, p)
  PROVE  /\ Inv(a) /\ a.p_parent = m.p_parent /\ Live(a) = Live(m) /\ SameData(a, m)
         /\ InList(a, h) = Append(InList(m, h), p) /\ SameWaits(a, m)
         /\ \A k \in {high_ready_q, low_ready_q} : h # k => InList(a, k) = InList(m, k)
<1> DEFINE A == Live(m)
<1>1. h \in PcbQueues /\ A \subseteq Pcb
  BY DEF PcbQueues, Live
<1>2. Joined(a, m, InUse(A), h, p) /\ InList(a, h) = Append(InList(m, h), p)
  BY <1>1, Enqueue DEF insertProcQ, Inv
<1>3. /\ Intact(a, InUse(A)) /\ SameData(a, m) /\ SameOthers(a, m, InUse(A), h)
      /\ Members(a, h) = Members(m, h) \cup {p}
  BY <1>2 DEF Joined
<1>4. /\ SameWaits(a, m)
      /\ \A k \in {high_ready_q, low_ready_q} : h # k => InList(a, k) = InList(m, k)
  <2>1. h # semd_h /\ \A d \in Pcb : h # SProcq(d)
    BY HeadsDiffer
  <2>2. SameOthers(a, m, InUse(Live(m)), h) /\ a.s_key = m.s_key
    BY <1>3 DEF SameData
  <2>3. /\ h # semd_h /\ (\A d \in Pcb : h # SProcq(d)) => SameWaits(a, m)
        /\ h # high_ready_q => InList(a, high_ready_q) = InList(m, high_ready_q)
        /\ h # low_ready_q => InList(a, low_ready_q) = InList(m, low_ready_q)
    BY <2>2, ViewKept
  <2> QED
    BY <2>1, <2>3
<1> HIDE DEF A
<1>5. /\ Members(a, pcbFree_h) = Members(m, pcbFree_h)
      /\ \A q \in A : Members(a, PChild(q)) = Members(m, PChild(q))
      /\ Members(a, semdFree_h) = Members(m, semdFree_h) /\ Members(a, semd_h) = Members(m, semd_h)
      /\ \A d \in Pcb : Members(a, SProcq(d)) = Members(m, SProcq(d))
      /\ h # high_ready_q => Members(a, high_ready_q) = Members(m, high_ready_q)
      /\ h # low_ready_q => Members(a, low_ready_q) = Members(m, low_ready_q)
  <2>1. /\ h # pcbFree_h /\ h # semdFree_h /\ h # semd_h
        /\ \A q \in Pcb : h # PChild(q) /\ h # SProcq(q)
    BY <1>1, HeadsDiffer
  <2> QED
    <3>1. HeadByHead(a, m, A, h)
      BY <1>1, <1>3, SameHeadByHead
    <3> QED
      BY <1>1, <2>1, <3>1 DEF HeadByHead
<1>6. QueueInv(a)
  BY <1>3, <1>5, HeadsDiffer DEF Inv, QueueInv, SameData
<1>7. Live(a) = A /\ TreeInv(a) /\ SemdInv(a)
  BY <1>3, <1>5, Frames DEF SameData, A
<1> QED
  BY <1>2, <1>3, <1>4, <1>6, <1>7 DEF Inv, SameData, A

\* A process taken out of a ready queue is in no queue.
LEMMA UnreadyKeeps ==
  ASSUME NEW m, Inv(m), NEW h \in {high_ready_q, low_ready_q}, NEW p \in Members(m, h),
         NEW a, a = list_del(m, PList(p))
  PROVE  /\ Inv(a) /\ LooseIn(a, p) /\ SameData(a, m) /\ Live(a) = Live(m)
         /\ InList(a, h) = Only(InList(m, h), Pcb \ {p}) /\ SameWaits(a, m)
         /\ \A k \in {high_ready_q, low_ready_q} : h # k => InList(a, k) = InList(m, k)
<1> DEFINE A == Live(m)
<1>1. h \in PcbQueues /\ A \subseteq Pcb /\ p \in A
  BY ListsApart DEF PcbQueues, Live, Inv, InUse
<1>2. Left(a, m, InUse(A), h, p) /\ InList(a, h) = Only(InList(m, h), Pcb \ {p})
  BY <1>1, Dequeue
<1>3. /\ Intact(a, InUse(A)) /\ SameData(a, m) /\ SameOthers(a, m, InUse(A), h)
      /\ Members(a, h) = Members(m, h) \ {p}
  BY <1>2 DEF Left
<1>4. /\ SameWaits(a, m)
      /\ \A k \in {high_ready_q, low_ready_q} : h # k => InList(a, k) = InList(m, k)
  <2>1. h # semd_h /\ \A d \in Pcb : h # SProcq(d)
    BY HeadsDiffer
  <2>2. SameOthers(a, m, InUse(Live(m)), h) /\ a.s_key = m.s_key
    BY <1>3 DEF SameData
  <2>3. /\ h # semd_h /\ (\A d \in Pcb : h # SProcq(d)) => SameWaits(a, m)
        /\ h # high_ready_q => InList(a, high_ready_q) = InList(m, high_ready_q)
        /\ h # low_ready_q => InList(a, low_ready_q) = InList(m, low_ready_q)
    BY <2>2, ViewKept
  <2> QED
    BY <2>1, <2>3
<1> HIDE DEF A
<1>5. /\ Members(a, pcbFree_h) = Members(m, pcbFree_h)
      /\ \A q \in A : Members(a, PChild(q)) = Members(m, PChild(q))
      /\ Members(a, semdFree_h) = Members(m, semdFree_h) /\ Members(a, semd_h) = Members(m, semd_h)
      /\ \A d \in Pcb : Members(a, SProcq(d)) = Members(m, SProcq(d))
      /\ h # high_ready_q => Members(a, high_ready_q) = Members(m, high_ready_q)
      /\ h # low_ready_q => Members(a, low_ready_q) = Members(m, low_ready_q)
  <2>1. /\ h # pcbFree_h /\ h # semdFree_h /\ h # semd_h
        /\ \A q \in Pcb : h # PChild(q) /\ h # SProcq(q)
    BY <1>1, HeadsDiffer
  <2> QED
    <3>1. HeadByHead(a, m, A, h)
      BY <1>1, <1>3, SameHeadByHead
    <3> QED
      BY <1>1, <2>1, <3>1 DEF HeadByHead
<1>6. QueueInv(a)
  BY <1>3, <1>5, HeadsDiffer DEF Inv, QueueInv, SameData
<1>7. Live(a) = A /\ TreeInv(a) /\ SemdInv(a)
  BY <1>3, <1>5, Frames DEF SameData, A
<1>8. LooseIn(a, p)
  BY <1>1, <1>3, <1>5, <1>7, ListsApart DEF LooseIn
<1> QED
  BY <1>2, <1>3, <1>4, <1>6, <1>7, <1>8 DEF Inv, A

-----------------------------------------------------------------------------
(* pcb.c                                                                   *)

\* Writes to fields that are not links: the lists stay, and the field has a
\* new value.
WithParent(m, x, v) == [m EXCEPT !.p_parent[x] = v]
WithSemAdd(m, x, v) == [m EXCEPT !.p_semAdd[x] = v]
WithPrio(m, x, v) == [m EXCEPT !.p_prio[x] = v]
WithKey(m, x, v) == [m EXCEPT !.s_key[x] = v]

ParentWritten(a, m, H, x, v) ==
  /\ Intact(a, H) /\ SameLists(a, m, H) /\ a.p_parent = [m.p_parent EXCEPT ![x] = v]
  /\ a.p_semAdd = m.p_semAdd /\ a.p_prio = m.p_prio /\ a.s_key = m.s_key

SemAddWritten(a, m, H, x, v) ==
  /\ Intact(a, H) /\ SameLists(a, m, H) /\ a.p_semAdd = [m.p_semAdd EXCEPT ![x] = v]
  /\ a.p_parent = m.p_parent /\ a.p_prio = m.p_prio /\ a.s_key = m.s_key

PrioWritten(a, m, H, x, v) ==
  /\ Intact(a, H) /\ SameLists(a, m, H) /\ a.p_prio = [m.p_prio EXCEPT ![x] = v]
  /\ a.p_parent = m.p_parent /\ a.p_semAdd = m.p_semAdd /\ a.s_key = m.s_key

KeyWritten(a, m, H, x, v) ==
  /\ Intact(a, H) /\ SameLists(a, m, H) /\ a.s_key = [m.s_key EXCEPT ![x] = v]
  /\ a.p_parent = m.p_parent /\ a.p_semAdd = m.p_semAdd /\ a.p_prio = m.p_prio

\* An assignment to a p_parent, p_semAdd, p_prio or s_key changes no list; of
\* the four, p_parent first.
LEMMA ParentWrite ==
  ASSUME NEW m, NEW H, Intact(m, H), NEW x, NEW v
  PROVE  ParentWritten(WithParent(m, x, v), m, H, x, v)
<1> DEFINE a == WithParent(m, x, v)
<1>1. IsMemory(a) /\ a.next = m.next /\ a.prev = m.prev
  BY DEF IsMemory, Memory, Intact, WithParent
<1>2. Intact(a, H) /\ SameLists(a, m, H)
  BY <1>1, SameLinks
<1> QED
  BY <1>2 DEF ParentWritten, WithParent, Intact, IsMemory

\* The same for p_semAdd.
LEMMA SemAddWrite ==
  ASSUME NEW m, NEW H, Intact(m, H), NEW x, NEW v
  PROVE  SemAddWritten(WithSemAdd(m, x, v), m, H, x, v)
<1> DEFINE a == WithSemAdd(m, x, v)
<1>1. IsMemory(a) /\ a.next = m.next /\ a.prev = m.prev
  BY DEF IsMemory, Memory, Intact, WithSemAdd
<1>2. Intact(a, H) /\ SameLists(a, m, H)
  BY <1>1, SameLinks
<1> QED
  BY <1>2 DEF SemAddWritten, WithSemAdd, Intact, IsMemory

\* The same for p_prio.
LEMMA PrioWrite ==
  ASSUME NEW m, NEW H, Intact(m, H), NEW x, NEW v
  PROVE  PrioWritten(WithPrio(m, x, v), m, H, x, v)
<1> DEFINE a == WithPrio(m, x, v)
<1>1. IsMemory(a) /\ a.next = m.next /\ a.prev = m.prev
  BY DEF IsMemory, Memory, Intact, WithPrio
<1>2. Intact(a, H) /\ SameLists(a, m, H)
  BY <1>1, SameLinks
<1> QED
  BY <1>2 DEF PrioWritten, WithPrio, Intact, IsMemory

\* The same for s_key.
LEMMA KeyWrite ==
  ASSUME NEW m, NEW H, Intact(m, H), NEW x, NEW v
  PROVE  KeyWritten(WithKey(m, x, v), m, H, x, v)
<1> DEFINE a == WithKey(m, x, v)
<1>1. IsMemory(a) /\ a.next = m.next /\ a.prev = m.prev
  BY DEF IsMemory, Memory, Intact, WithKey
<1>2. Intact(a, H) /\ SameLists(a, m, H)
  BY <1>1, SameLinks
<1> QED
  BY <1>2 DEF KeyWritten, WithKey, Intact, IsMemory

\* The caller of allocPcb sets the priority before the process joins a queue.
LEMMA PrioKeeps ==
  ASSUME NEW m, Inv(m), NEW p, LooseIn(m, p), NEW v, NEW a, a = WithPrio(m, p, v)
  PROVE  /\ Inv(a) /\ LooseIn(a, p) /\ a.p_parent = m.p_parent /\ Live(a) = Live(m)
         /\ SameReady(a, m) /\ SameWaits(a, m) /\ a.p_semAdd = m.p_semAdd
         /\ a.p_prio = [m.p_prio EXCEPT ![p] = v]
<1> DEFINE H == InUse(Live(m))
<1>1. /\ Intact(a, H) /\ SameLists(a, m, H) /\ a.p_prio = [m.p_prio EXCEPT ![p] = v]
      /\ a.p_parent = m.p_parent /\ a.p_semAdd = m.p_semAdd /\ a.s_key = m.s_key
  <2>1. Intact(m, H)
    BY DEF Inv
  <2>3. PrioWritten(a, m, H, p, v)
    BY <2>1, PrioWrite
  <2> QED
    BY <2>3 DEF PrioWritten
<1>2. \A h \in H : Members(a, h) = Members(m, h)
  BY <1>1, SameMembers
<1>3. Live(m) \subseteq Pcb
  BY DEF Live
<1>4. /\ Members(a, pcbFree_h) = Members(m, pcbFree_h)
      /\ \A q \in Live(m) : Members(a, PChild(q)) = Members(m, PChild(q))
      /\ Members(a, semdFree_h) = Members(m, semdFree_h) /\ Members(a, semd_h) = Members(m, semd_h)
      /\ \A d \in Pcb : Members(a, SProcq(d)) = Members(m, SProcq(d))
      /\ Members(a, high_ready_q) = Members(m, high_ready_q)
      /\ Members(a, low_ready_q) = Members(m, low_ready_q)
  BY <1>2, <1>3, InUseFacts
<1>5. Live(a) = Live(m) /\ TreeInv(a) /\ SemdInv(a)
  BY <1>1, <1>4, Frames
<1>6. LooseIn(a, p)
  BY <1>4, <1>5 DEF LooseIn
<1>7. QueueInv(a)
  <2>1. \A q \in Pcb : q # p => a.p_prio[q] = m.p_prio[q]
    BY <1>1 DEF Inv, Intact, IsMemory
  <2>2. Members(m, high_ready_q) \subseteq Pcb \ {p}
    BY <1>3, InUseFacts, ListsApart DEF LooseIn
  <2> QED
    BY <1>4, <2>1, <2>2 DEF Inv, QueueInv
<1>8. SameReady(a, m) /\ SameWaits(a, m)
  <2>1. SameOthers(a, m, InUse(Live(m)), pcbFree_h)
    BY <1>1 DEF SameOthers, SameLists
  <2> QED
    BY <1>1, <2>1, QueuesKept
<1> QED
  BY <1>1, <1>5, <1>6, <1>7, <1>8 DEF Inv

\* freePcb of a block that is in no queue and no tree.
LEMMA FreeKeeps ==
  ASSUME NEW m, Inv(m), NEW p, LooseIn(m, p), m.p_parent[p] = NULL, Members(m, PChild(p)) = {},
         NEW a, a = freePcb(m, p)
  PROVE  /\ Inv(a) /\ SameData(a, m) /\ Live(a) = Live(m) \ {p}
         /\ SameReady(a, m) /\ SameWaits(a, m)
<1> DEFINE A == Live(m)
<1>1. pcbFree_h \in PcbQueues /\ A \subseteq Pcb /\ p \in A
  BY DEF PcbQueues, Live, LooseIn
<1>2. Joined(a, m, InUse(A), pcbFree_h, p)
  BY <1>1, Enqueue DEF freePcb, Inv
<1>3. /\ Intact(a, InUse(A)) /\ SameData(a, m) /\ SameOthers(a, m, InUse(A), pcbFree_h)
      /\ Members(a, pcbFree_h) = Members(m, pcbFree_h) \cup {p}
  BY <1>2 DEF Joined
<1>4. Live(a) = A \ {p}
  BY <1>3 DEF Live
<1> HIDE DEF A
<1>5. /\ \A q \in A : Members(a, PChild(q)) = Members(m, PChild(q))
      /\ Members(a, semdFree_h) = Members(m, semdFree_h) /\ Members(a, semd_h) = Members(m, semd_h)
      /\ \A d \in Pcb : Members(a, SProcq(d)) = Members(m, SProcq(d))
      /\ Members(a, high_ready_q) = Members(m, high_ready_q)
      /\ Members(a, low_ready_q) = Members(m, low_ready_q)
  <2>1. /\ pcbFree_h # high_ready_q /\ pcbFree_h # low_ready_q
        /\ pcbFree_h # semdFree_h /\ pcbFree_h # semd_h
        /\ \A q \in Pcb : pcbFree_h # PChild(q) /\ pcbFree_h # SProcq(q)
    BY HeadsDiffer
  <2> QED
    <3>1. HeadByHead(a, m, A, pcbFree_h)
      BY <1>1, <1>3, SameHeadByHead
    <3> QED
      BY <1>1, <2>1, <3>1 DEF HeadByHead
<1>6. SemdInv(a) /\ QueueInv(a)
  BY <1>3, <1>5, Frames DEF SameData
<1>7. TreeInv(a)
  <2>1. TreeInv(m) /\ a.p_parent = m.p_parent
    BY <1>3 DEF Inv, SameData
  <2>2. \A c \in Pcb : m.p_parent[c] # p
    BY <1>1, <2>1 DEF TreeInv, A
  <2> QED
    BY <1>1, <1>4, <1>5, <2>1, <2>2 DEF TreeInv, A
<1>8. Intact(a, InUse(Live(a)))
  <2>1. InUse(Live(a)) \subseteq InUse(A)
    BY <1>4 DEF InUse
  <2> QED
    BY <1>3, <2>1, FewerHeads
<1>9. SameReady(a, m) /\ SameWaits(a, m)
  BY <1>3, QueuesKept DEF A, SameData
<1> QED
  BY <1>3, <1>4, <1>6, <1>7, <1>8, <1>9 DEF Inv, A

\* allocPcb, when there is a free block.
LEMMA AllocKeeps ==
  ASSUME NEW m, Inv(m), ~list_empty(m, pcbFree_h), NEW p, p = First(m, pcbFree_h),
         NEW a, a = allocPcb(m)
  PROVE  /\ Inv(a) /\ LooseIn(a, p) /\ p \in Pcb \ Live(m) /\ Live(a) = Live(m) \cup {p}
         /\ a.p_parent = [m.p_parent EXCEPT ![p] = NULL]
         /\ a.p_prio = m.p_prio /\ Members(a, PChild(p)) = {}
         /\ a.p_semAdd = [m.p_semAdd EXCEPT ![p] = NULL]
         /\ SameReady(a, m) /\ SameWaits(a, m)
<1> DEFINE A == Live(m)
           B == A \cup {p}
           out == list_del(m, PList(p))
           kids == INIT_LIST_HEAD(out, PChild(p))
           tree1 == INIT_LIST_HEAD(kids, PSib(p))
           orphan == [tree1 EXCEPT !.p_parent[p] = NULL]
<1>1. a = [orphan EXCEPT !.p_semAdd[p] = NULL]
  <2>1. a = [tree1 EXCEPT !.p_parent[p] = NULL, !.p_semAdd[p] = NULL]
    BY DEF allocPcb
  <2> HIDE DEF tree1
  <2> QED
    BY <2>1
<1>2. /\ A \subseteq Pcb /\ p \in Pcb /\ p \notin A /\ p \in Members(m, pcbFree_h) /\ B \subseteq Pcb
      /\ pcbFree_h \in PcbQueues
  <2>1. Intact(m, InUse(A)) /\ pcbFree_h \in InUse(A)
    BY DEF Inv, InUse
  <2>2. p \in Members(m, pcbFree_h) /\ Members(m, pcbFree_h) \subseteq Pcb
    BY <2>1, MembersFacts
  <2> QED
    BY <2>2 DEF Live, PcbQueues
<1>3. /\ Intact(out, InUse(A)) /\ SameData(out, m) /\ SameOthers(out, m, InUse(A), pcbFree_h)
      /\ Members(out, pcbFree_h) = Members(m, pcbFree_h) \ {p}
  <2>1. Left(out, m, InUse(A), pcbFree_h, p)
    BY <1>2, Dequeue
  <2> QED
    BY <2>1 DEF Left
<1> HIDE DEF out
<1>4. /\ Intact(kids, InUse(B)) /\ SameData(kids, out) /\ SameOthers(kids, out, InUse(A), PChild(p))
      /\ Members(kids, PChild(p)) = {}
  <2>1. InUse(B) = InUse(A) \cup {PChild(p)} /\ PChild(p) \in Heads
    BY <1>2, HeadsDiffer DEF InUse
  <2> HIDE DEF A, B
  <2> QED
    BY <1>3, <2>1, NewHead DEF kids
<1> HIDE DEF kids
<1>5. /\ Members(kids, pcbFree_h) = Members(m, pcbFree_h) \ {p}
      /\ \A q \in A : Members(kids, PChild(q)) = Members(m, PChild(q))
      /\ Members(kids, semdFree_h) = Members(m, semdFree_h) /\ Members(kids, semd_h) = Members(m, semd_h)
      /\ \A d \in Pcb : Members(kids, SProcq(d)) = Members(m, SProcq(d))
      /\ Members(kids, high_ready_q) = Members(m, high_ready_q)
      /\ Members(kids, low_ready_q) = Members(m, low_ready_q)
  <2>1. /\ pcbFree_h # high_ready_q /\ pcbFree_h # low_ready_q
        /\ pcbFree_h # semdFree_h /\ pcbFree_h # semd_h
        /\ \A q \in Pcb : pcbFree_h # PChild(q) /\ pcbFree_h # SProcq(q)
    BY HeadsDiffer
  <2>2. /\ PChild(p) # pcbFree_h /\ PChild(p) # high_ready_q /\ PChild(p) # low_ready_q
        /\ PChild(p) # semdFree_h /\ PChild(p) # semd_h
        /\ \A q \in A : PChild(p) # PChild(q)
        /\ \A d \in Pcb : PChild(p) # SProcq(d)
    BY <1>2, HeadsDiffer
  <2> HIDE DEF A
  <2>3. /\ \A q \in A : Members(out, PChild(q)) = Members(m, PChild(q))
        /\ Members(out, semdFree_h) = Members(m, semdFree_h) /\ Members(out, semd_h) = Members(m, semd_h)
        /\ \A d \in Pcb : Members(out, SProcq(d)) = Members(m, SProcq(d))
        /\ Members(out, high_ready_q) = Members(m, high_ready_q)
        /\ Members(out, low_ready_q) = Members(m, low_ready_q)
    <3>1. HeadByHead(out, m, A, pcbFree_h)
      BY <1>2, <1>3, SameHeadByHead
    <3> QED
      BY <1>2, <2>1, <3>1 DEF HeadByHead
  <2>4. /\ Members(kids, pcbFree_h) = Members(out, pcbFree_h)
        /\ \A q \in A : Members(kids, PChild(q)) = Members(out, PChild(q))
        /\ Members(kids, semdFree_h) = Members(out, semdFree_h) /\ Members(kids, semd_h) = Members(out, semd_h)
        /\ \A d \in Pcb : Members(kids, SProcq(d)) = Members(out, SProcq(d))
        /\ Members(kids, high_ready_q) = Members(out, high_ready_q)
        /\ Members(kids, low_ready_q) = Members(out, low_ready_q)
    <3>1. HeadByHead(kids, out, A, PChild(p))
      BY <1>2, <1>4, SameHeadByHead
    <3> QED
      BY <1>2, <2>2, <3>1 DEF HeadByHead
  <2> QED
    BY <1>3, <2>3, <2>4
<1>6. Intact(tree1, InUse(B)) /\ SameData(tree1, kids) /\ SameLists(tree1, kids, InUse(B))
  <2>1. \A q \in A : p \notin Members(m, PChild(q))
    BY <1>2, KeyAssumption DEF Inv, TreeInv
  <2>2. ASSUME NEW k \in InUse(B)
        PROVE  PSib(p) \notin Entries(Forward(kids, k))
    <3>1. \A x : x \in Members(kids, k) <=> <<Field(k), x>> \in Entries(Forward(kids, k))
      BY <1>4, MembersFacts
    <3>2. Entries(Forward(kids, k)) \subseteq Links(k)
      BY <1>4, EntriesType DEF Intact
    <3>3. CASE Field(k) = "p_sib"
      <4>1. PICK q \in B : k = PChild(q)
        BY <1>2, <3>3, InUseFacts
      <4>2. p \notin Members(kids, k)
        BY <1>4, <1>5, <2>1, <4>1
      <4> QED
        BY <3>1, <3>3, <4>2 DEF PSib
    <3>4. CASE Field(k) # "p_sib"
      BY <3>2, <3>4 DEF Links, PSib
    <3> QED
      BY <3>3, <3>4
  <2>3. PSib(p) \in Node \ Heads
    BY <1>2, HeadsAndLinks
  <2> HIDE DEF B
  <2> QED
    BY <1>4, <2>2, <2>3, NewLink
<1> HIDE DEF tree1
<1>7. /\ Intact(a, InUse(B)) /\ \A k \in InUse(B) : Members(a, k) = Members(kids, k)
      /\ a.p_parent = [m.p_parent EXCEPT ![p] = NULL] /\ a.p_semAdd = [m.p_semAdd EXCEPT ![p] = NULL]
      /\ a.p_prio = m.p_prio /\ a.s_key = m.s_key
      /\ \A k \in InUse(B) : Forward(a, k) = Forward(kids, k)
  <2>1. /\ Intact(orphan, InUse(B)) /\ SameLists(orphan, tree1, InUse(B))
        /\ orphan.p_parent = [tree1.p_parent EXCEPT ![p] = NULL]
        /\ orphan.p_semAdd = tree1.p_semAdd /\ orphan.p_prio = tree1.p_prio /\ orphan.s_key = tree1.s_key
    <3>1. orphan = WithParent(tree1, p, NULL)
      BY DEF WithParent
    <3> HIDE DEF B, orphan
    <3>2. ParentWritten(orphan, tree1, InUse(B), p, NULL)
      BY <1>6, <3>1, ParentWrite
    <3> QED
      BY <3>2 DEF ParentWritten
  <2> HIDE DEF orphan
  <2>2. /\ Intact(a, InUse(B)) /\ SameLists(a, orphan, InUse(B))
        /\ a.p_semAdd = [orphan.p_semAdd EXCEPT ![p] = NULL]
        /\ a.p_parent = orphan.p_parent /\ a.p_prio = orphan.p_prio /\ a.s_key = orphan.s_key
    <3>1. a = WithSemAdd(orphan, p, NULL)
      BY <1>1 DEF WithSemAdd
    <3> HIDE DEF B
    <3>2. SemAddWritten(a, orphan, InUse(B), p, NULL)
      BY <2>1, <3>1, SemAddWrite
    <3> QED
      BY <3>2 DEF SemAddWritten
  <2>3. \A k \in InUse(B) : Forward(a, k) = Forward(kids, k) /\ Members(a, k) = Members(kids, k)
    BY <1>6, <2>1, <2>2, SameMembers DEF SameLists
  <2> HIDE DEF B
  <2> QED
    BY <1>3, <1>4, <1>6, <2>1, <2>2, <2>3 DEF SameData
<1>8. /\ Members(a, pcbFree_h) = Members(m, pcbFree_h) \ {p}
      /\ \A q \in A : Members(a, PChild(q)) = Members(m, PChild(q))
      /\ Members(a, PChild(p)) = {}
      /\ Members(a, semdFree_h) = Members(m, semdFree_h) /\ Members(a, semd_h) = Members(m, semd_h)
      /\ \A d \in Pcb : Members(a, SProcq(d)) = Members(m, SProcq(d))
      /\ Members(a, high_ready_q) = Members(m, high_ready_q)
      /\ Members(a, low_ready_q) = Members(m, low_ready_q)
  <2>1. /\ {pcbFree_h, semdFree_h, semd_h, high_ready_q, low_ready_q} \subseteq InUse(B)
        /\ \A q \in A : PChild(q) \in InUse(B)
        /\ PChild(p) \in InUse(B)
        /\ \A d \in Pcb : SProcq(d) \in InUse(B)
    BY DEF InUse
  <2> HIDE DEF A, B
  <2> QED
    BY <1>4, <1>5, <1>7, <2>1
<1>9. Live(a) = B
  BY <1>2, <1>8 DEF Live
<1>10. TreeInv(a)
  <2>1. TreeInv(m) /\ NULL \notin Pcb /\ Zero \notin Pcb
    BY KeyAssumption DEF Inv
  <2>2. a.p_parent[p] = NULL /\ \A c \in Pcb : c # p => a.p_parent[c] = m.p_parent[c]
    BY <1>2, <1>7 DEF Inv, Intact, IsMemory
  <2>3. \A c \in Pcb : a.p_parent[c] # p /\ m.p_parent[c] # p
    BY <1>2, <2>1, <2>2 DEF TreeInv
  <2>4. ASSUME NEW q \in B
        PROVE  Members(a, PChild(q)) = {c \in Pcb : a.p_parent[c] = q}
    <3>1. CASE q = p
      BY <1>8, <2>3, <3>1
    <3>2. CASE q # p
      <4>1. q \in A /\ q \in Pcb
        BY <1>2, <3>2
      <4>2. Members(m, PChild(q)) = {c \in Pcb : m.p_parent[c] = q}
        BY <2>1, <4>1 DEF TreeInv
      <4>3. \A c \in Pcb : a.p_parent[c] = q <=> m.p_parent[c] = q
        BY <1>2, <2>1, <2>2, <4>1 DEF TreeInv
      <4> QED
        BY <1>8, <4>1, <4>2, <4>3
    <3> QED
      BY <3>1, <3>2
  <2> QED
    BY <1>2, <1>9, <2>1, <2>2, <2>4 DEF TreeInv
<1>11. SemdInv(a)
  <2>1. SemdInv(m) /\ Members(m, semd_h) \subseteq Pcb
    BY ListsApart DEF Inv, InUse
  <2>2. \A d \in Pcb : p \notin Members(m, SProcq(d)) /\ Members(m, SProcq(d)) \subseteq Pcb
    BY <1>2, ListsApart DEF InUse
  <2>3. \A q \in Pcb : q # p => a.p_semAdd[q] = m.p_semAdd[q]
    BY <1>2, <1>7 DEF Inv, Intact, IsMemory
  <2> QED
    BY <1>7, <1>8, <2>1, <2>2, <2>3 DEF SemdInv
<1>12. QueueInv(a)
  BY <1>7, <1>8, Frames
<1>13. LooseIn(a, p)
  BY <1>2, <1>8, <1>9, ListsApart DEF LooseIn
<1>14. SameReady(a, m) /\ SameWaits(a, m)
  <2>1. SameOthers(a, m, InUse(A), pcbFree_h)
    <3>1. InUse(A) \subseteq InUse(B)
      BY DEF InUse
    <3>2. \A k \in InUse(A) : k # PChild(p)
      BY <1>2, HeadsDiffer DEF InUse
    <3> HIDE DEF A, B
    <3> QED
      BY <1>3, <1>4, <1>7, <3>1, <3>2 DEF SameOthers
  <2> QED
    BY <1>7, <2>1, QueuesKept
<1> QED
  BY <1>2, <1>7, <1>8, <1>9, <1>10, <1>11, <1>12, <1>13, <1>14 DEF Inv

\* insertChild of a process without a parent.
LEMMA AdoptKeeps ==
  ASSUME NEW m, Inv(m), NEW prnt \in Live(m), NEW p, LooseIn(m, p), p # prnt, m.p_parent[p] = NULL,
         NEW a, a = insertChild(m, prnt, p)
  PROVE  /\ Inv(a) /\ LooseIn(a, p) /\ Live(a) = Live(m)
         /\ a.p_parent = [m.p_parent EXCEPT ![p] = prnt]
         /\ a.p_semAdd = m.p_semAdd /\ a.p_prio = m.p_prio
         /\ SameReady(a, m) /\ SameWaits(a, m)
<1> DEFINE A == Live(m)
           h == PChild(prnt)
           w == WithParent(m, p, prnt)
<1>1. a = list_add(w, PSib(p), h)
  BY DEF insertChild, WithParent
<1>2. /\ A \subseteq Pcb /\ p \in A /\ prnt \in A /\ h \in InUse(A) /\ Field(h) = "p_sib"
      /\ PSib(p) = <<Field(h), p>> /\ Intact(m, InUse(A)) /\ TreeInv(m) /\ NULL \notin Pcb
  <2>1. A \subseteq Pcb /\ p \in A /\ prnt \in A /\ Intact(m, InUse(A)) /\ TreeInv(m)
    BY DEF Live, LooseIn, Inv
  <2> HIDE DEF A
  <2> QED
    BY <2>1, FieldOf, KeyAssumption DEF PSib, InUse
<1>3. ParentWritten(w, m, InUse(A), p, prnt)
  BY <1>2, ParentWrite
<1> HIDE DEF A, h, w
<1>4. /\ Intact(w, InUse(A)) /\ SameLists(w, m, InUse(A)) /\ w.p_parent = [m.p_parent EXCEPT ![p] = prnt]
      /\ w.p_semAdd = m.p_semAdd /\ w.p_prio = m.p_prio /\ w.s_key = m.s_key
  BY <1>3 DEF ParentWritten
<1>5. \A k \in InUse(A) : Members(w, k) = Members(m, k)
  BY <1>4, SameMembers
<1>6. \A k \in InUse(A) : Field(k) = Field(h) => p \notin Members(w, k)
  <2>1. \A q \in A : p \notin Members(m, PChild(q))
    BY <1>2 DEF TreeInv, A
  <2> QED
    BY <1>2, <1>5, <2>1, InUseFacts
<1>7. Joined(a, w, InUse(A), h, p)
  BY <1>1, <1>2, <1>4, <1>6, PutIn
<1>8. /\ Intact(a, InUse(A)) /\ SameData(a, w) /\ SameOthers(a, w, InUse(A), h)
      /\ Members(a, h) = Members(w, h) \cup {p}
  BY <1>7 DEF Joined
<1>9. /\ Members(a, pcbFree_h) = Members(m, pcbFree_h)
      /\ \A q \in A : q # prnt => Members(a, PChild(q)) = Members(m, PChild(q))
      /\ Members(a, PChild(prnt)) = Members(m, PChild(prnt)) \cup {p}
      /\ Members(a, semdFree_h) = Members(m, semdFree_h) /\ Members(a, semd_h) = Members(m, semd_h)
      /\ \A d \in Pcb : Members(a, SProcq(d)) = Members(m, SProcq(d))
      /\ Members(a, high_ready_q) = Members(m, high_ready_q)
      /\ Members(a, low_ready_q) = Members(m, low_ready_q)
  <2>1. /\ h # pcbFree_h /\ h # semdFree_h /\ h # semd_h /\ h # high_ready_q /\ h # low_ready_q
        /\ \A q \in A : q # prnt => h # PChild(q)
        /\ \A d \in Pcb : h # SProcq(d)
    BY <1>2, HeadsDiffer DEF h
  <2>2. /\ {pcbFree_h, semdFree_h, semd_h, high_ready_q, low_ready_q} \subseteq InUse(A)
        /\ \A q \in A : PChild(q) \in InUse(A)
        /\ \A d \in Pcb : SProcq(d) \in InUse(A)
    BY DEF InUse
  <2>3. /\ Members(a, pcbFree_h) = Members(w, pcbFree_h)
        /\ \A q \in A : q # prnt => Members(a, PChild(q)) = Members(w, PChild(q))
        /\ Members(a, semdFree_h) = Members(w, semdFree_h) /\ Members(a, semd_h) = Members(w, semd_h)
        /\ \A d \in Pcb : Members(a, SProcq(d)) = Members(w, SProcq(d))
        /\ Members(a, high_ready_q) = Members(w, high_ready_q)
        /\ Members(a, low_ready_q) = Members(w, low_ready_q)
    <3>1. HeadByHead(a, w, A, h)
      BY <1>2, <1>8, SameHeadByHead
    <3> QED
      BY <1>2, <2>1, <3>1 DEF HeadByHead
  <2>4. Members(a, PChild(prnt)) = Members(m, PChild(prnt)) \cup {p}
    BY <1>2, <1>5, <1>8 DEF h
  <2> QED
    BY <1>2, <1>5, <2>2, <2>3, <2>4
<1>10. /\ a.p_parent = [m.p_parent EXCEPT ![p] = prnt]
       /\ a.p_semAdd = m.p_semAdd /\ a.p_prio = m.p_prio /\ a.s_key = m.s_key
  BY <1>4, <1>8 DEF SameData
<1>11. Live(a) = A /\ SemdInv(a) /\ QueueInv(a)
  BY <1>9, <1>10, Frames DEF A
<1>12. TreeInv(a)
  <2>1. a.p_parent[p] = prnt /\ \A c \in Pcb : c # p => a.p_parent[c] = m.p_parent[c]
    BY <1>2, <1>10 DEF Intact, IsMemory
  <2>2. ASSUME NEW q \in A
        PROVE  Members(a, PChild(q)) = {c \in Pcb : a.p_parent[c] = q}
    <3>1. Members(m, PChild(q)) = {c \in Pcb : m.p_parent[c] = q}
      BY <1>2 DEF TreeInv, A
    <3>2. CASE q = prnt
      BY <1>2, <1>9, <2>1, <3>1, <3>2
    <3>3. CASE q # prnt
      <4>1. \A c \in Pcb : a.p_parent[c] = q <=> m.p_parent[c] = q
        BY <1>2, <2>1, <3>3
      <4> QED
        BY <1>9, <3>1, <3>3, <4>1
    <3> QED
      BY <3>2, <3>3
  <2>3. \A c \in A : a.p_parent[c] \in A \cup {NULL}
    BY <1>2, <2>1 DEF TreeInv, A
  <2>4. \A c \in Pcb \ A : a.p_parent[c] \in {NULL, Zero}
    BY <1>2, <2>1 DEF TreeInv, A
  <2> QED
    BY <1>11, <2>2, <2>3, <2>4 DEF TreeInv
<1>13. LooseIn(a, p)
  BY <1>9, <1>11 DEF LooseIn, A
<1>14. SameReady(a, m) /\ SameWaits(a, m)
  <2>1. SameOthers(a, m, InUse(Live(m)), h)
    BY <1>4, <1>8 DEF SameOthers, SameLists, A
  <2>2. h \in {PChild(x) : x \in Pcb}
    BY <1>2 DEF h
  <2> QED
    BY <1>10, <2>1, <2>2, QueuesKept
<1> QED
  BY <1>8, <1>10, <1>11, <1>12, <1>13, <1>14 DEF Inv, A

\* A child that has left the list of its parent and names no parent any more.
LEMMA OrphanKeeps ==
  ASSUME NEW m, Inv(m), NEW q \in Live(m), NEW c \in Members(m, PChild(q)), NEW a,
         Intact(a, InUse(Live(m))), SameOthers(a, m, InUse(Live(m)), PChild(q)),
         Members(a, PChild(q)) = Members(m, PChild(q)) \ {c},
         a.p_parent = [m.p_parent EXCEPT ![c] = NULL],
         a.p_semAdd = m.p_semAdd, a.p_prio = m.p_prio, a.s_key = m.s_key
  PROVE  /\ Inv(a) /\ Live(a) = Live(m) /\ c \in Live(m) /\ m.p_parent[c] = q
         /\ SameReady(a, m) /\ SameWaits(a, m)
<1> DEFINE A == Live(m)
           h == PChild(q)
<1>1. /\ A \subseteq Pcb /\ q \in A /\ TreeInv(m) /\ NULL \notin Pcb /\ Zero \notin Pcb
      /\ Intact(m, InUse(A)) /\ Intact(a, InUse(A)) /\ SameOthers(a, m, InUse(A), h)
  BY KeyAssumption DEF Live, Inv
<1>2. c \in A /\ m.p_parent[c] = q
  BY <1>1 DEF TreeInv
<1> HIDE DEF A, h
<1>3. /\ Members(a, pcbFree_h) = Members(m, pcbFree_h)
      /\ \A x \in A : x # q => Members(a, PChild(x)) = Members(m, PChild(x))
      /\ Members(a, semdFree_h) = Members(m, semdFree_h) /\ Members(a, semd_h) = Members(m, semd_h)
      /\ \A d \in Pcb : Members(a, SProcq(d)) = Members(m, SProcq(d))
      /\ Members(a, high_ready_q) = Members(m, high_ready_q)
      /\ Members(a, low_ready_q) = Members(m, low_ready_q)
  <2>1. /\ h # pcbFree_h /\ h # semdFree_h /\ h # semd_h /\ h # high_ready_q /\ h # low_ready_q
        /\ \A x \in A : x # q => h # PChild(x)
        /\ \A d \in Pcb : h # SProcq(d)
    BY <1>1, HeadsDiffer DEF h
  <2> QED
    <3>1. HeadByHead(a, m, A, h)
      BY <1>1, SameHeadByHead
    <3> QED
      BY <1>1, <2>1, <3>1 DEF HeadByHead
<1>4. Live(a) = A /\ SemdInv(a) /\ QueueInv(a)
  BY <1>3, Frames DEF A
<1>5. TreeInv(a)
  <2>1. a.p_parent[c] = NULL /\ \A x \in Pcb : x # c => a.p_parent[x] = m.p_parent[x]
    BY <1>1, <1>2 DEF Intact, IsMemory
  <2>2. ASSUME NEW y \in A
        PROVE  Members(a, PChild(y)) = {x \in Pcb : a.p_parent[x] = y}
    <3>1. Members(m, PChild(y)) = {x \in Pcb : m.p_parent[x] = y}
      BY <1>1 DEF TreeInv, A
    <3>2. CASE y = q
      BY <1>1, <2>1, <3>1, <3>2
    <3>3. CASE y # q
      <4>1. \A x \in Pcb : a.p_parent[x] = y <=> m.p_parent[x] = y
        BY <1>1, <1>2, <2>1, <3>3
      <4> QED
        BY <1>3, <3>1, <3>3, <4>1
    <3> QED
      BY <3>2, <3>3
  <2>3. \A x \in A : a.p_parent[x] \in A \cup {NULL}
    BY <1>1, <2>1 DEF TreeInv, A
  <2>4. \A x \in Pcb \ A : a.p_parent[x] \in {NULL, Zero}
    BY <1>1, <2>1 DEF TreeInv, A
  <2> QED
    BY <1>4, <2>2, <2>3, <2>4 DEF TreeInv
<1>6. SameReady(a, m) /\ SameWaits(a, m)
  <2>1. h \in {PChild(x) : x \in Pcb}
    BY <1>1 DEF h
  <2> QED
    BY <1>1, <2>1, QueuesKept DEF A
<1> QED
  BY <1>1, <1>2, <1>4, <1>5, <1>6 DEF Inv, A

\* removeChild of a process that has children.
LEMMA RemoveChildKeeps ==
  ASSUME NEW m, Inv(m), NEW p \in Live(m), ~emptyChild(m, p), NEW c, c = First(m, PChild(p)),
         NEW a, a = removeChild(m, p)
  PROVE  /\ Inv(a) /\ Live(a) = Live(m) /\ c \in Live(m) /\ m.p_parent[c] = p
         /\ a.p_parent = [m.p_parent EXCEPT ![c] = NULL]
         /\ a.p_semAdd = m.p_semAdd /\ a.p_prio = m.p_prio
         /\ SameReady(a, m) /\ SameWaits(a, m)
<1> DEFINE A == Live(m)
           h == PChild(p)
           w == WithParent(m, c, NULL)
<1>1. a = list_del(w, PSib(c))
  BY DEF removeChild, WithParent
<1>2. /\ A \subseteq Pcb /\ h \in InUse(A) /\ Field(h) = "p_sib" /\ Intact(m, InUse(A))
      /\ PSib(c) = <<Field(h), c>>
  <2>1. A \subseteq Pcb /\ p \in A /\ Intact(m, InUse(A))
    BY DEF Live, Inv
  <2> HIDE DEF A
  <2> QED
    BY <2>1, FieldOf DEF PSib, InUse
<1>3. c \in Members(m, h)
  <2> HIDE DEF A
  <2> QED
    BY <1>2, MembersFacts DEF emptyChild
<1>4. ParentWritten(w, m, InUse(A), c, NULL)
  BY <1>2, ParentWrite
<1> HIDE DEF A, h, w
<1>5. /\ Intact(w, InUse(A)) /\ SameLists(w, m, InUse(A)) /\ w.p_parent = [m.p_parent EXCEPT ![c] = NULL]
      /\ w.p_semAdd = m.p_semAdd /\ w.p_prio = m.p_prio /\ w.s_key = m.s_key
  BY <1>4 DEF ParentWritten
<1>6. \A k \in InUse(A) : Members(w, k) = Members(m, k)
  BY <1>5, SameMembers
<1>7. Left(a, w, InUse(A), h, c)
  BY <1>1, <1>2, <1>3, <1>5, <1>6, TakeOut
<1>8. /\ Intact(a, InUse(A)) /\ SameData(a, w) /\ SameOthers(a, w, InUse(A), h)
      /\ Members(a, h) = Members(w, h) \ {c}
  BY <1>7 DEF Left
<1>9. /\ SameOthers(a, m, InUse(A), h) /\ Members(a, h) = Members(m, h) \ {c}
      /\ a.p_parent = [m.p_parent EXCEPT ![c] = NULL]
      /\ a.p_semAdd = m.p_semAdd /\ a.p_prio = m.p_prio /\ a.s_key = m.s_key
  BY <1>2, <1>5, <1>6, <1>8 DEF SameData, SameOthers, SameLists
<1> QED
  BY <1>3, <1>8, <1>9, OrphanKeeps DEF A, h

\* outChild of a process: afterwards it names no parent.
LEMMA OutChildKeeps ==
  ASSUME NEW m, Inv(m), NEW p \in Live(m), NEW a, a = outChild(m, p)
  PROVE  /\ Inv(a) /\ Live(a) = Live(m) /\ a.p_parent = [m.p_parent EXCEPT ![p] = NULL]
         /\ a.p_semAdd = m.p_semAdd /\ a.p_prio = m.p_prio
         /\ SameReady(a, m) /\ SameWaits(a, m)
<1> DEFINE A == Live(m)
           q == m.p_parent[p]
           h == PChild(q)
           out == list_del(m, PSib(p))
<1>1. A \subseteq Pcb /\ p \in Pcb /\ Intact(m, InUse(A)) /\ TreeInv(m) /\ IsMemory(m)
  BY DEF Live, Inv, Intact
<1>2. CASE q = NULL
  <2>1. a = m
    BY <1>2 DEF outChild
  <2>2. m.p_parent = [m.p_parent EXCEPT ![p] = NULL]
    BY <1>1, <1>2 DEF IsMemory
  <2> QED
    BY <2>1, <2>2 DEF SameReady, SameWaits
<1>3. CASE q # NULL
  <2>1. q \in A /\ q \in Pcb /\ p \in Members(m, h)
    BY <1>1, <1>3 DEF TreeInv
  <2>2. a = WithParent(out, p, NULL)
    BY <1>3, <2>1 DEF outChild, WithParent
  <2> HIDE DEF A, q
  <2>3. h \in InUse(A) /\ Field(h) = "p_sib" /\ PSib(p) = <<Field(h), p>>
    BY <2>1, FieldOf DEF PSib, InUse
  <2> HIDE DEF h
  <2>4. Left(out, m, InUse(A), h, p)
    BY <1>1, <2>1, <2>3, TakeOut
  <2> HIDE DEF out
  <2>5. /\ Intact(out, InUse(A)) /\ SameData(out, m) /\ SameOthers(out, m, InUse(A), h)
        /\ Members(out, h) = Members(m, h) \ {p}
    BY <2>4 DEF Left
  <2>6. ParentWritten(a, out, InUse(A), p, NULL)
    BY <2>2, <2>5, ParentWrite
  <2>7. /\ Intact(a, InUse(A)) /\ SameLists(a, out, InUse(A)) /\ a.p_parent = [out.p_parent EXCEPT ![p] = NULL]
        /\ a.p_semAdd = out.p_semAdd /\ a.p_prio = out.p_prio /\ a.s_key = out.s_key
    BY <2>6 DEF ParentWritten
  <2>8. \A k \in InUse(A) : Members(a, k) = Members(out, k)
    BY <2>7, SameMembers
  <2>9. /\ SameOthers(a, m, InUse(A), h) /\ Members(a, h) = Members(m, h) \ {p}
        /\ a.p_parent = [m.p_parent EXCEPT ![p] = NULL]
        /\ a.p_semAdd = m.p_semAdd /\ a.p_prio = m.p_prio /\ a.s_key = m.s_key
    BY <2>3, <2>5, <2>7, <2>8 DEF SameData, SameOthers, SameLists
  <2> QED
    BY <2>1, <2>7, <2>9, OrphanKeeps DEF A, h
<1> QED
  BY <1>2, <1>3

-----------------------------------------------------------------------------
(* asl.c                                                                   *)

\* The search of the active list finds a descriptor of the key.
LEMMA DescriptorFound ==
  ASSUME NEW m, Inv(m), NEW key, Described(m, key)
  PROVE  DescriptorOf(m, key) \in Members(m, semd_h) /\ m.s_key[DescriptorOf(m, key)] = key
<1> DEFINE nodes == Forward(m, semd_h)
           asl == InList(m, semd_h)
           Match == {i \in DOMAIN nodes : m.s_key[asl[i]] = key}
           First1(i) == m.s_key[asl[i]] = key /\ \A j \in 1..(i - 1) : m.s_key[asl[j]] # key
<1>1. nodes \in Seq(Links(semd_h))
  BY DEF Inv, Intact, InUse
<1>2. DOMAIN nodes = 1..Len(nodes) /\ Len(nodes) \in Nat
  BY <1>1
<1>3. asl = [i \in DOMAIN nodes |-> nodes[i][2]]
  BY DEF InList
<1>4. Members(m, semd_h) = {asl[i] : i \in DOMAIN nodes}
  <2>1. Members(m, semd_h) = {n[2] : n \in {nodes[i] : i \in DOMAIN nodes}}
    BY DEF Members, Range
  <2> HIDE DEF nodes
  <2> QED
    BY <1>3, <2>1
<1> HIDE DEF nodes, asl
<1>5. Match # {}
  BY <1>3, <1>4 DEF Described
<1>6. PICK i \in Match : \A j \in Match : i <= j
  <2>1. Match \in SUBSET Nat
    BY <1>2
  <2> HIDE DEF Match
  <2> QED
    BY <1>5, <2>1, LeastNat
<1>7. i \in DOMAIN asl /\ First1(i)
  <2>1. i \in DOMAIN nodes /\ m.s_key[asl[i]] = key
    OBVIOUS
  <2>2. ASSUME NEW j \in 1..(i - 1), m.s_key[asl[j]] = key
        PROVE  FALSE
    <3>1. j \in Match /\ ~(i <= j)
      BY <1>2, <2>1, <2>2
    <3> QED
      BY <1>6, <3>1
  <2> QED
    BY <1>3, <2>1, <2>2
<1> DEFINE c == CHOOSE x \in DOMAIN asl : First1(x)
<1>8. c \in DOMAIN asl /\ First1(c)
  <2> HIDE DEF First1
  <2> QED
    BY <1>7
<1>9. DescriptorOf(m, key) = asl[c]
  BY DEF DescriptorOf, asl
<1> QED
  BY <1>3, <1>4, <1>8, <1>9

\* A descriptor leaves its list, and joins one.
LEMMA SemdMoves ==
  ASSUME NEW m, NEW A, A \subseteq Pcb, Intact(m, InUse(A)), NEW h \in {semdFree_h, semd_h}, NEW d \in Pcb
  PROVE  /\ d \in Members(m, h) => Left(list_del(m, SLink(d)), m, InUse(A), h, d)
         /\ d \notin Members(m, semdFree_h) \cup Members(m, semd_h)
              => /\ Joined(list_add(m, SLink(d), h), m, InUse(A), h, d)
                 /\ Joined(list_add_tail(m, SLink(d), h), m, InUse(A), h, d)
<1>1. h \in InUse(A) /\ SLink(d) = <<Field(h), d>>
  BY FieldOf DEF InUse, SLink
<1>2. ASSUME d \in Members(m, h)
      PROVE  Left(list_del(m, SLink(d)), m, InUse(A), h, d)
  <2>1. Left(list_del(m, <<Field(h), d>>), m, InUse(A), h, d)
    BY <1>1, <1>2, TakeOut
  <2> QED
    BY <1>1, <2>1
<1>3. ASSUME d \notin Members(m, semdFree_h) \cup Members(m, semd_h)
      PROVE  /\ Joined(list_add(m, SLink(d), h), m, InUse(A), h, d)
             /\ Joined(list_add_tail(m, SLink(d), h), m, InUse(A), h, d)
  <2>1. \A k \in InUse(A) : Field(k) = Field(h) => d \notin Members(m, k)
    BY <1>3, InUseFacts, FieldOf
  <2>2. LET n == <<Field(h), d>>
        IN  Joined(list_add(m, n, h), m, InUse(A), h, d) /\ Joined(list_add_tail(m, n, h), m, InUse(A), h, d)
    BY <1>1, <2>1, PutIn
  <2> QED
    BY <1>1, <2>2
<1> QED
  BY <1>2, <1>3

\* A descriptor goes back from the active list to the free one, at either end.
LEMMA Released ==
  ASSUME NEW l, NEW A, A \subseteq Pcb, Intact(l, InUse(A)), NEW d \in Members(l, semd_h), d \in Pcb,
         d \notin Members(l, semdFree_h), NEW out, out = list_del(l, SLink(d)),
         NEW a \in {list_add(out, SLink(d), semdFree_h), list_add_tail(out, SLink(d), semdFree_h)}
  PROVE  /\ Intact(a, InUse(A)) /\ SameData(a, l)
         /\ Members(a, semd_h) = Members(l, semd_h) \ {d}
         /\ Members(a, semdFree_h) = Members(l, semdFree_h) \cup {d}
         /\ \A k \in InUse(A) : k \notin {semdFree_h, semd_h}
                                => Members(a, k) = Members(l, k) /\ InList(a, k) = InList(l, k)
<1>1. Left(out, l, InUse(A), semd_h, d)
  BY SemdMoves
<1>2. /\ Intact(out, InUse(A)) /\ SameData(out, l) /\ SameOthers(out, l, InUse(A), semd_h)
      /\ Members(out, semd_h) = Members(l, semd_h) \ {d}
  BY <1>1 DEF Left
<1>3. \A k \in InUse(A) : k # semd_h => Members(out, k) = Members(l, k) /\ InList(out, k) = InList(l, k)
  BY <1>2, SameInList DEF SameOthers
<1>4. Members(out, semdFree_h) = Members(l, semdFree_h)
  BY <1>3, HeadsDiffer DEF InUse
<1>5. Joined(a, out, InUse(A), semdFree_h, d)
  BY <1>2, <1>4, SemdMoves
<1>6. /\ Intact(a, InUse(A)) /\ SameData(a, out) /\ SameOthers(a, out, InUse(A), semdFree_h)
      /\ Members(a, semdFree_h) = Members(out, semdFree_h) \cup {d}
  BY <1>5 DEF Joined
<1>7. \A k \in InUse(A) : k # semdFree_h => Members(a, k) = Members(out, k) /\ InList(a, k) = InList(out, k)
  BY <1>6, SameInList DEF SameOthers
<1>8. semd_h # semdFree_h /\ semd_h \in InUse(A)
  BY HeadsDiffer DEF InUse
<1> QED
  BY <1>2, <1>3, <1>4, <1>6, <1>7, <1>8 DEF SameData

\* What a process that leaves the queue of d does to the queues of the semaphores,
\* whether or not d stays active.
LEMMA WaitersLeft ==
  ASSUME NEW m, Inv(m), NEW a, Inv(a), NEW d \in Pcb, NEW p \in Members(m, SProcq(d)),
         Members(a, semd_h) \subseteq Members(m, semd_h),
         Members(m, semd_h) \ {d} \subseteq Members(a, semd_h),
         \A e \in Members(a, semd_h) : a.s_key[e] = m.s_key[e],
         InList(a, SProcq(d)) = Only(InList(m, SProcq(d)), Pcb \ {p}),
         \A e \in Pcb : e # d => InList(a, SProcq(e)) = InList(m, SProcq(e))
  PROVE  \A t : Waiters(a, t) = Only(Waiters(m, t), Pcb \ {p})
<1> SUFFICES ASSUME NEW t PROVE Waiters(a, t) = Only(Waiters(m, t), Pcb \ {p})
  OBVIOUS
<1>1. /\ Members(m, semd_h) \subseteq Pcb /\ d \in Members(m, semd_h)
      /\ \A e, f \in Members(m, semd_h) : m.s_key[e] = m.s_key[f] => e = f
  BY ListsApart DEF InUse, Inv, SemdInv
<1>2. CASE \A e \in Members(m, semd_h) : m.s_key[e] # t
  <2>1. Waiters(m, t) = <<>> /\ Waiters(a, t) = <<>>
    BY <1>2, WaitersFacts
  <2> QED
    BY <2>1, OnlyOfEmpty
<1>3. ASSUME NEW e \in Members(m, semd_h), m.s_key[e] = t, e # d
      PROVE  Waiters(a, t) = Only(Waiters(m, t), Pcb \ {p})
  <2>1. e \in Members(a, semd_h) /\ a.s_key[e] = t /\ e \in Pcb
    BY <1>1, <1>3
  <2>2. Waiters(a, t) = InList(m, SProcq(e)) /\ Waiters(m, t) = InList(m, SProcq(e))
    BY <1>3, <2>1, WaitersFacts
  <2>3. p \notin Members(m, SProcq(e)) /\ SProcq(e) \in InUse(Live(m)) /\ Intact(m, InUse(Live(m)))
    BY <1>3, <2>1, ListsApart DEF InUse
  <2> DEFINE q == InList(m, SProcq(e))
  <2>4. q \in Seq(Pcb) /\ p \notin Entries(q)
    BY <2>3, InListFacts
  <2> HIDE DEF q
  <2>5. (Pcb \ {p}) \cap Entries(q) = Pcb \cap Entries(q)
    BY <2>4
  <2>6. Only(q, Pcb \ {p}) = Only(q, Pcb) /\ Only(q, Pcb) = q
    BY <2>4, <2>5, OnlyAgree, OnlyAll
  <2> QED
    BY <2>2, <2>6 DEF q
<1>4. CASE m.s_key[d] = t
  <2>1. Waiters(m, t) = InList(m, SProcq(d))
    BY <1>1, <1>4, WaitersFacts
  <2>2. Waiters(a, t) = InList(a, SProcq(d))
    <3>1. CASE d \in Members(a, semd_h)
      <4>1. a.s_key[d] = t
        BY <1>4, <3>1
      <4> QED
        BY <3>1, <4>1, WaitersFacts
    <3>2. CASE d \notin Members(a, semd_h)
      <4>1. \A e \in Members(a, semd_h) : a.s_key[e] # t
        BY <1>1, <1>4, <3>2
      <4>2. Waiters(a, t) = <<>>
        BY <4>1, WaitersFacts
      <4>3. Members(a, SProcq(d)) = {} /\ SProcq(d) \in InUse(Live(a)) /\ Intact(a, InUse(Live(a)))
        BY <3>2 DEF Inv, SemdInv, InUse
      <4>4. InList(a, SProcq(d)) = <<>>
        BY <4>3, InListFacts
      <4> QED
        BY <4>2, <4>4
    <3> QED
      BY <3>1, <3>2
  <2> QED
    BY <2>1, <2>2
<1> QED
  BY <1>2, <1>3, <1>4

\* l is m without p in the queue of d; the p_semAdd of p and the s_key of d may
\* have been written.
Unwaited(l, m, d, p) ==
  /\ Intact(l, InUse(Live(m))) /\ SameOthers(l, m, InUse(Live(m)), SProcq(d))
  /\ Members(l, SProcq(d)) = Members(m, SProcq(d)) \ {p}
  /\ InList(l, SProcq(d)) = Only(InList(m, SProcq(d)), Pcb \ {p})
  /\ l.p_parent = m.p_parent /\ l.p_prio = m.p_prio
  /\ \A q \in Pcb : q # p => l.p_semAdd[q] = m.p_semAdd[q]
  /\ \A e \in Pcb : e # d => l.s_key[e] = m.s_key[e]

\* What that leaves as it was.
LEMMA UnwaitedFacts ==
  ASSUME NEW m, Inv(m), NEW d \in Pcb, NEW p \in Members(m, SProcq(d)), NEW l, Unwaited(l, m, d, p)
  PROVE  /\ Members(l, pcbFree_h) = Members(m, pcbFree_h)
         /\ \A x \in Live(m) : Members(l, PChild(x)) = Members(m, PChild(x))
         /\ Members(l, semdFree_h) = Members(m, semdFree_h) /\ Members(l, semd_h) = Members(m, semd_h)
         /\ \A e \in Pcb : e # d => Members(l, SProcq(e)) = Members(m, SProcq(e))
         /\ Members(l, high_ready_q) = Members(m, high_ready_q)
         /\ Members(l, low_ready_q) = Members(m, low_ready_q)
         /\ Live(l) = Live(m) /\ LooseIn(l, p) /\ TreeInv(l) /\ QueueInv(l) /\ d \in Members(m, semd_h)
         /\ SameReady(l, m) /\ \A e \in Pcb : e # d => InList(l, SProcq(e)) = InList(m, SProcq(e))
<1> DEFINE A == Live(m)
           h == SProcq(d)
<1>1. /\ A \subseteq Pcb /\ SameOthers(l, m, InUse(A), h) /\ Members(l, h) = Members(m, h) \ {p}
      /\ l.p_parent = m.p_parent /\ l.p_prio = m.p_prio
  BY DEF Live, Unwaited
<1> HIDE DEF A, h
<1>2. /\ Members(l, pcbFree_h) = Members(m, pcbFree_h)
      /\ \A x \in A : Members(l, PChild(x)) = Members(m, PChild(x))
      /\ Members(l, semdFree_h) = Members(m, semdFree_h) /\ Members(l, semd_h) = Members(m, semd_h)
      /\ \A e \in Pcb : e # d => Members(l, SProcq(e)) = Members(m, SProcq(e))
      /\ Members(l, high_ready_q) = Members(m, high_ready_q)
      /\ Members(l, low_ready_q) = Members(m, low_ready_q)
  <2>1. /\ h # pcbFree_h /\ h # semdFree_h /\ h # semd_h /\ h # high_ready_q /\ h # low_ready_q
        /\ \A x \in A : h # PChild(x)
        /\ \A e \in Pcb : e # d => h # SProcq(e)
    BY <1>1, HeadsDiffer DEF h
  <2>2. HeadByHead(l, m, A, h)
    BY <1>1, SameHeadByHead
  <2> QED
    BY <1>1, <2>1, <2>2 DEF HeadByHead
<1>3. Live(l) = A /\ TreeInv(l) /\ QueueInv(l)
  BY <1>1, <1>2, Frames DEF A
<1>4. p \in Pcb /\ p \in A /\ p \notin Members(m, high_ready_q) /\ p \notin Members(m, low_ready_q)
  <2>1. p \in Pcb
    BY ListsApart DEF InUse
  <2> QED
    BY <2>1, ListsApart DEF A, Live
<1>5. \A e \in Pcb : p \notin Members(l, SProcq(e))
  BY <1>1, <1>2, ListsApart DEF h
<1>6. d \in Members(m, semd_h)
  BY DEF Inv, SemdInv
<1>7. SameReady(l, m) /\ \A e \in Pcb : e # d => InList(l, SProcq(e)) = InList(m, SProcq(e))
  <2>1. /\ h \notin {high_ready_q, low_ready_q} /\ \A e \in Pcb : e # d => h # SProcq(e)
        /\ {high_ready_q, low_ready_q} \subseteq InUse(A) /\ \A e \in Pcb : SProcq(e) \in InUse(A)
    BY <1>1, HeadsDiffer DEF h, InUse
  <2>2. \A k \in InUse(A) : k # h => InList(l, k) = InList(m, k)
    BY <1>1, SameInList DEF SameOthers
  <2> QED
    BY <2>1, <2>2 DEF SameReady
<1> QED
  BY <1>2, <1>3, <1>4, <1>5, <1>6, <1>7 DEF A, LooseIn

\* The descriptor has other waiters: it stays.
LEMMA OthersWait ==
  ASSUME NEW m, Inv(m), NEW d \in Pcb, NEW p \in Members(m, SProcq(d)), NEW l, Unwaited(l, m, d, p),
         Members(l, SProcq(d)) # {}, l.s_key = m.s_key
  PROVE  /\ Inv(l) /\ LooseIn(l, p) /\ Live(l) = Live(m)
         /\ SameReady(l, m) /\ \A t : Waiters(l, t) = Only(Waiters(m, t), Pcb \ {p})
<1>1. Live(l) = Live(m) /\ LooseIn(l, p) /\ TreeInv(l) /\ QueueInv(l) /\ Intact(l, InUse(Live(l)))
  BY UnwaitedFacts DEF Unwaited
<1>2. /\ Members(l, semdFree_h) = Members(m, semdFree_h) /\ Members(l, semd_h) = Members(m, semd_h)
      /\ \A e \in Pcb : e # d => Members(l, SProcq(e)) = Members(m, SProcq(e))
      /\ d \in Members(m, semd_h)
  BY UnwaitedFacts
<1>3. /\ Members(l, SProcq(d)) = Members(m, SProcq(d)) \ {p}
      /\ \A q \in Pcb : q # p => l.p_semAdd[q] = m.p_semAdd[q]
  BY DEF Unwaited
<1>4. SemdInv(m) /\ \A e \in Pcb : Members(m, SProcq(e)) \subseteq Pcb
  BY ListsApart DEF Inv, InUse
<1>5. Members(m, semd_h) \subseteq Pcb
  BY ListsApart DEF InUse
<1>6. \A e \in Pcb : Members(l, SProcq(e)) \subseteq Members(m, SProcq(e)) /\ p \notin Members(l, SProcq(e))
  BY <1>1, <1>2, <1>3 DEF LooseIn
<1>7. \A e \in Members(l, semd_h) : \A q \in Members(l, SProcq(e)) : l.p_semAdd[q] = l.s_key[e]
  BY <1>2, <1>3, <1>4, <1>5, <1>6 DEF SemdInv
<1>8. \A e \in Pcb : Members(l, SProcq(e)) # {} <=> e \in Members(l, semd_h)
  BY <1>2, <1>4 DEF SemdInv
<1>9. SemdInv(l)
  BY <1>2, <1>4, <1>7, <1>8 DEF SemdInv
<1>10. Inv(l) /\ SameReady(l, m)
  BY <1>1, <1>9, UnwaitedFacts DEF Inv
<1>11. /\ InList(l, SProcq(d)) = Only(InList(m, SProcq(d)), Pcb \ {p})
       /\ \A e \in Pcb : e # d => InList(l, SProcq(e)) = InList(m, SProcq(e))
  BY UnwaitedFacts DEF Unwaited
<1>12. \A t : Waiters(l, t) = Only(Waiters(m, t), Pcb \ {p})
  BY <1>2, <1>10, <1>11, WaitersLeft
<1> QED
  BY <1>1, <1>10, <1>12

\* It was the last waiter: the descriptor is released.
LEMMA LastLeaves ==
  ASSUME NEW m, Inv(m), NEW d \in Pcb, NEW p \in Members(m, SProcq(d)), NEW l, Unwaited(l, m, d, p),
         Members(l, SProcq(d)) = {}, NEW out, out = list_del(l, SLink(d)),
         NEW a \in {list_add(out, SLink(d), semdFree_h), list_add_tail(out, SLink(d), semdFree_h)}
  PROVE  /\ Inv(a) /\ LooseIn(a, p) /\ Live(a) = Live(m) /\ SameData(a, l)
         /\ SameReady(a, m) /\ \A t : Waiters(a, t) = Only(Waiters(m, t), Pcb \ {p})
<1> DEFINE A == Live(m)
<1>1. /\ Live(l) = A /\ LooseIn(l, p) /\ TreeInv(l) /\ QueueInv(l) /\ Intact(l, InUse(A))
      /\ Members(l, semdFree_h) = Members(m, semdFree_h) /\ Members(l, semd_h) = Members(m, semd_h)
      /\ \A e \in Pcb : e # d => Members(l, SProcq(e)) = Members(m, SProcq(e))
      /\ d \in Members(m, semd_h) /\ A \subseteq Pcb
  BY UnwaitedFacts DEF Unwaited, Live
<1>2. /\ \A q \in Pcb : q # p => l.p_semAdd[q] = m.p_semAdd[q]
      /\ \A e \in Pcb : e # d => l.s_key[e] = m.s_key[e]
  BY DEF Unwaited
<1>3. /\ SemdInv(m) /\ Members(m, semd_h) \subseteq Pcb
      /\ \A e \in Pcb : Members(m, SProcq(e)) \subseteq Pcb
  BY ListsApart DEF Inv, InUse
<1> HIDE DEF A
<1>4. d \in Members(l, semd_h) /\ d \notin Members(l, semdFree_h)
  BY <1>1, <1>3 DEF SemdInv
<1>5. /\ Intact(a, InUse(A)) /\ SameData(a, l)
      /\ Members(a, semd_h) = Members(l, semd_h) \ {d}
      /\ Members(a, semdFree_h) = Members(l, semdFree_h) \cup {d}
      /\ \A k \in InUse(A) : k \notin {semdFree_h, semd_h}
                             => Members(a, k) = Members(l, k) /\ InList(a, k) = InList(l, k)
  BY <1>1, <1>4, Released
<1>6. /\ Members(a, pcbFree_h) = Members(l, pcbFree_h)
      /\ Members(a, high_ready_q) = Members(l, high_ready_q)
      /\ Members(a, low_ready_q) = Members(l, low_ready_q)
      /\ \A x \in A : Members(a, PChild(x)) = Members(l, PChild(x))
      /\ \A e \in Pcb : Members(a, SProcq(e)) = Members(l, SProcq(e))
      /\ SameReady(a, l) /\ \A e \in Pcb : InList(a, SProcq(e)) = InList(l, SProcq(e))
  <2>1. /\ {pcbFree_h, high_ready_q, low_ready_q} \subseteq InUse(A)
        /\ \A x \in A : PChild(x) \in InUse(A)
        /\ \A e \in Pcb : SProcq(e) \in InUse(A)
    BY DEF InUse
  <2>2. /\ {pcbFree_h, high_ready_q, low_ready_q} \cap {semdFree_h, semd_h} = {}
        /\ \A x \in A : PChild(x) \notin {semdFree_h, semd_h}
        /\ \A e \in Pcb : SProcq(e) \notin {semdFree_h, semd_h}
    BY <1>1, HeadsDiffer
  <2> QED
    BY <1>5, <2>1, <2>2 DEF SameReady
<1>7. Live(a) = A /\ LooseIn(a, p)
  BY <1>1, <1>6 DEF Live, LooseIn
<1>8. TreeInv(a)
  BY <1>1, <1>5, <1>6, <1>7 DEF TreeInv, SameData
<1>9. QueueInv(a)
  BY <1>1, <1>5, <1>6 DEF QueueInv, SameData
<1>10. SemdInv(a)
  <2>1. Members(a, semdFree_h) = Pcb \ Members(a, semd_h)
    BY <1>1, <1>3, <1>5 DEF SemdInv
  <2>2. \A e \in Members(a, semd_h) :
          /\ e \in Pcb /\ e # d /\ e \in Members(m, semd_h) /\ a.s_key[e] = m.s_key[e]
          /\ Members(a, SProcq(e)) = Members(m, SProcq(e))
    BY <1>1, <1>2, <1>3, <1>5, <1>6 DEF SameData
  <2>3. \A e \in Members(a, semd_h) : \A q \in Members(a, SProcq(e)) : a.p_semAdd[q] = m.p_semAdd[q]
    <3>1. \A e \in Pcb : p \notin Members(a, SProcq(e))
      BY <1>7 DEF LooseIn
    <3> QED
      BY <1>2, <1>3, <1>5, <2>2, <3>1 DEF SameData
  <2>4. \A e \in Pcb : Members(a, SProcq(e)) # {} <=> e \in Members(a, semd_h)
    BY <1>1, <1>3, <1>5, <1>6 DEF SemdInv
  <2>5. \A e \in Members(a, semd_h) : \A q \in Members(a, SProcq(e)) : a.p_semAdd[q] = a.s_key[e]
    BY <1>3, <2>2, <2>3 DEF SemdInv
  <2>6. \A e, f \in Members(a, semd_h) : a.s_key[e] = a.s_key[f] => e = f
    BY <1>3, <2>2 DEF SemdInv
  <2> QED
    BY <2>1, <2>4, <2>5, <2>6 DEF SemdInv
<1>11. Inv(a)
  BY <1>5, <1>7, <1>8, <1>9, <1>10 DEF Inv
<1>12. /\ SameReady(l, m) /\ InList(l, SProcq(d)) = Only(InList(m, SProcq(d)), Pcb \ {p})
       /\ \A e \in Pcb : e # d => InList(l, SProcq(e)) = InList(m, SProcq(e))
  BY UnwaitedFacts DEF Unwaited
<1>13. /\ SameReady(a, m) /\ InList(a, SProcq(d)) = Only(InList(m, SProcq(d)), Pcb \ {p})
       /\ \A e \in Pcb : e # d => InList(a, SProcq(e)) = InList(m, SProcq(e))
  BY <1>6, <1>12 DEF SameReady
<1>14. /\ Members(a, semd_h) \subseteq Members(m, semd_h)
       /\ Members(m, semd_h) \ {d} \subseteq Members(a, semd_h)
       /\ \A e \in Members(a, semd_h) : a.s_key[e] = m.s_key[e]
  BY <1>1, <1>2, <1>3, <1>5 DEF SameData
<1>15. \A t : Waiters(a, t) = Only(Waiters(m, t), Pcb \ {p})
  BY <1>11, <1>13, <1>14, WaitersLeft
<1> QED
  BY <1>5, <1>7, <1>11, <1>13, <1>15 DEF A

\* p was the first who waited for s, and does not wait any more.
HeadTaken(a, m, s, p) ==
  /\ a.p_semAdd = [m.p_semAdd EXCEPT ![p] = NULL] /\ SameReady(a, m)
  /\ Waiters(m, s) # <<>> /\ p = Head(Waiters(m, s)) /\ Waiters(a, s) = Tail(Waiters(m, s))
  /\ \A t : t # s => Waiters(a, t) = Waiters(m, t)

\* removeBlocked of a semaphore somebody waits on: the first waiter is in no
\* queue afterwards.
LEMMA RemoveBlockedKeeps ==
  ASSUME NEW m, Inv(m), NEW s, Described(m, s), NEW p, p = headBlocked(m, s),
         NEW a, a = removeBlocked(m, s)
  PROVE  /\ p \in Live(m) /\ Inv(a) /\ LooseIn(a, p) /\ Live(a) = Live(m)
         /\ a.p_parent = m.p_parent /\ a.p_prio = m.p_prio
         /\ HeadTaken(a, m, s, p)
<1> SUFFICES /\ p \in Live(m) /\ Inv(a) /\ LooseIn(a, p) /\ Live(a) = Live(m)
             /\ a.p_parent = m.p_parent /\ a.p_prio = m.p_prio
             /\ a.p_semAdd = [m.p_semAdd EXCEPT ![p] = NULL] /\ SameReady(a, m)
             /\ Waiters(m, s) # <<>> /\ p = Head(Waiters(m, s)) /\ Waiters(a, s) = Tail(Waiters(m, s))
             /\ \A t : t # s => Waiters(a, t) = Waiters(m, t)
  BY DEF HeadTaken
<1> DEFINE d == DescriptorOf(m, s)
           h == SProcq(d)
           rem == list_del(m, PList(p))
           left == WithSemAdd(rem, p, NULL)
           out == list_del(left, SLink(d))
           A == Live(m)
<1>1. d \in Members(m, semd_h) /\ d \in Pcb /\ h \in PcbQueues /\ h \in InUse(A) /\ A \subseteq Pcb
  <2>1. d \in Members(m, semd_h) /\ Members(m, semd_h) \subseteq Pcb
    BY DescriptorFound, ListsApart DEF InUse
  <2> HIDE DEF d
  <2> QED
    BY <2>1 DEF PcbQueues, InUse, Live
<1>2. Members(m, h) # {} /\ Intact(m, InUse(A))
  <2> HIDE DEF d
  <2> QED
    BY <1>1 DEF Inv, SemdInv
<1>3. p = First(m, h) /\ p \in Members(m, h)
  <2>1. ~list_empty(m, h) /\ First(m, h) \in Members(m, h)
    <3> HIDE DEF h, A
    <3> QED
      BY <1>1, <1>2, MembersFacts
  <2> QED
    BY <2>1 DEF headBlocked, headProcQ
<1>30. Waiters(m, s) = InList(m, h) /\ InList(m, h) # <<>> /\ p = Head(InList(m, h))
  <2>1. m.s_key[d] = s
    BY DescriptorFound
  <2>2. ~list_empty(m, h)
    <3> HIDE DEF h, A
    <3> QED
      BY <1>1, <1>2, MembersFacts
  <2> HIDE DEF d
  <2>3. Waiters(m, s) = InList(m, h)
    BY <1>1, <2>1, WaitersFacts
  <2> HIDE DEF h, A
  <2> QED
    BY <1>1, <1>2, <1>3, <2>2, <2>3, InListFacts
<1>4. a = IF ~list_empty(left, h) THEN left ELSE list_add(out, SLink(d), semdFree_h)
  BY <1>3 DEF removeBlocked, removeProcQ, WithSemAdd
<1> HIDE DEF d, A, h
<1>5. Left(rem, m, InUse(A), h, p) /\ InList(rem, h) = Only(InList(m, h), Pcb \ {p})
  BY <1>1, <1>3, Dequeue DEF A
<1> HIDE DEF rem
<1>6. /\ Intact(rem, InUse(A)) /\ SameData(rem, m) /\ SameOthers(rem, m, InUse(A), h)
      /\ Members(rem, h) = Members(m, h) \ {p}
  BY <1>5 DEF Left
<1>7. SemAddWritten(left, rem, InUse(A), p, NULL)
  BY <1>6, SemAddWrite
<1> HIDE DEF left
<1>8. /\ Intact(left, InUse(A)) /\ SameLists(left, rem, InUse(A))
      /\ left.p_semAdd = [rem.p_semAdd EXCEPT ![p] = NULL]
      /\ left.p_parent = rem.p_parent /\ left.p_prio = rem.p_prio /\ left.s_key = rem.s_key
  BY <1>7 DEF SemAddWritten
<1>9. /\ SameOthers(left, m, InUse(A), h) /\ Members(left, h) = Members(m, h) \ {p}
      /\ left.p_parent = m.p_parent /\ left.p_prio = m.p_prio /\ left.s_key = m.s_key
      /\ \A q \in Pcb : q # p => left.p_semAdd[q] = m.p_semAdd[q]
      /\ left.p_semAdd = [m.p_semAdd EXCEPT ![p] = NULL]
      /\ InList(left, h) = Only(InList(m, h), Pcb \ {p})
  <2>1. Members(left, h) = Members(rem, h) /\ InList(left, h) = InList(rem, h)
    BY <1>1, <1>8, SameInList DEF SameLists
  <2>2. \A q \in Pcb : q # p => left.p_semAdd[q] = m.p_semAdd[q]
    BY <1>2, <1>6, <1>8 DEF Intact, IsMemory, SameData
  <2> QED
    BY <1>5, <1>6, <1>8, <2>1, <2>2 DEF SameOthers, SameLists, SameData
<1>10. Unwaited(left, m, d, p) /\ p \in Members(m, SProcq(d))
  BY <1>3, <1>8, <1>9 DEF Unwaited, A, h
<1>11. p \in Live(m)
  BY <1>1, <1>10, UnwaitedFacts DEF LooseIn
<1>32. ASSUME \A t : Waiters(a, t) = Only(Waiters(m, t), Pcb \ {p})
       PROVE  Waiters(a, s) = Tail(Waiters(m, s)) /\ \A t : t # s => Waiters(a, t) = Waiters(m, t)
  <2>1. \A t : /\ Waiters(m, t) \in Seq(Pcb) /\ NoRepeats(Waiters(m, t))
               /\ \A x \in Entries(Waiters(m, t)) : m.p_semAdd[x] = t
    BY WaitersFacts
  <2>2. Waiters(a, s) = Tail(Waiters(m, s))
    <3> DEFINE w == Waiters(m, s)
    <3>1. w \in Seq(Pcb) /\ NoRepeats(w) /\ w # <<>> /\ p = Head(w)
      BY <1>30, <2>1
    <3> HIDE DEF w
    <3>2. Only(w, Pcb \ {Head(w)}) = Tail(w)
      BY <3>1, OnlyTail
    <3> QED
      BY <1>32, <3>1, <3>2 DEF w
  <2>3. ASSUME NEW t, t # s
        PROVE  Waiters(a, t) = Waiters(m, t)
    <3>1. m.p_semAdd[p] = s
      BY <1>30, <2>1, EntriesTail
    <3> DEFINE w == Waiters(m, t)
    <3>2. w \in Seq(Pcb) /\ p \notin Entries(w)
      BY <2>1, <2>3, <3>1
    <3> HIDE DEF w
    <3>3. (Pcb \ {p}) \cap Entries(w) = Pcb \cap Entries(w)
      BY <3>2
    <3>4. Only(w, Pcb \ {p}) = Only(w, Pcb) /\ Only(w, Pcb) = w
      BY <3>2, <3>3, OnlyAgree, OnlyAll
    <3> QED
      BY <1>32, <3>4 DEF w
  <2> QED
    BY <2>2, <2>3
<1>12. CASE ~list_empty(left, h)
  <2>1. Members(left, SProcq(d)) # {}
    BY <1>1, <1>8, <1>12, MembersFacts DEF h
  <2>2. /\ Inv(left) /\ LooseIn(left, p) /\ Live(left) = Live(m)
        /\ SameReady(left, m) /\ \A t : Waiters(left, t) = Only(Waiters(m, t), Pcb \ {p})
    BY <1>1, <1>9, <1>10, <2>1, OthersWait
  <2> QED
    BY <1>4, <1>9, <1>11, <1>12, <1>30, <1>32, <2>2
<1>13. CASE list_empty(left, h)
  <2>1. Members(left, SProcq(d)) = {}
    BY <1>1, <1>8, <1>13, MembersFacts DEF h
  <2>2. a = list_add(out, SLink(d), semdFree_h)
    BY <1>4, <1>13
  <2>3. /\ Inv(a) /\ LooseIn(a, p) /\ Live(a) = Live(m) /\ SameData(a, left)
        /\ SameReady(a, m) /\ \A t : Waiters(a, t) = Only(Waiters(m, t), Pcb \ {p})
    BY <1>1, <1>10, <2>1, <2>2, LastLeaves
  <2> QED
    BY <1>9, <1>11, <1>30, <1>32, <2>3 DEF SameData
<1> QED
  BY <1>12, <1>13

\* outBlocked of any process: it waits nowhere afterwards.
LEMMA OutBlockedKeeps ==
  ASSUME NEW m, Inv(m), NEW p \in Live(m), NEW a, a = outBlocked(m, p)
  PROVE  /\ Inv(a) /\ Live(a) = Live(m) /\ a.p_parent = m.p_parent
         /\ a.p_semAdd = m.p_semAdd /\ a.p_prio = m.p_prio
         /\ p \in Members(a, high_ready_q) <=> p \in Members(m, high_ready_q)
         /\ p \in Members(a, low_ready_q) <=> p \in Members(m, low_ready_q)
         /\ \A d \in Pcb : p \notin Members(a, SProcq(d))
         /\ SameReady(a, m) /\ \A t : Waiters(a, t) = Only(Waiters(m, t), Pcb \ {p})
<1> DEFINE s == m.p_semAdd[p]
           d == DescriptorOf(m, s)
           h == SProcq(d)
           A == Live(m)
<1>0. p \in Pcb /\ A \subseteq Pcb /\ Intact(m, InUse(A)) /\ IsMemory(m)
  BY DEF Live, Inv, Intact
<1>1. ASSUME NEW e \in Pcb, p \in Members(m, SProcq(e))
      PROVE  Described(m, s) /\ e = d
  <2>1. e \in Members(m, semd_h) /\ m.s_key[e] = s
    BY <1>1 DEF Inv, SemdInv
  <2>2. Described(m, s)
    BY <2>1 DEF Described
  <2>3. d \in Members(m, semd_h) /\ m.s_key[d] = s
    BY <2>2, DescriptorFound
  <2> HIDE DEF d
  <2> QED
    BY <2>1, <2>2, <2>3 DEF Inv, SemdInv
<1>20. ASSUME \A e \in Pcb : p \notin Members(m, SProcq(e))
       PROVE  \A t : Waiters(m, t) = Only(Waiters(m, t), Pcb \ {p})
  <2> SUFFICES ASSUME NEW t PROVE Waiters(m, t) = Only(Waiters(m, t), Pcb \ {p})
    OBVIOUS
  <2>1. CASE \A e \in Members(m, semd_h) : m.s_key[e] # t
    BY <2>1, WaitersFacts, OnlyOfEmpty
  <2>2. ASSUME NEW e \in Members(m, semd_h), m.s_key[e] = t
        PROVE  Waiters(m, t) = Only(Waiters(m, t), Pcb \ {p})
    <3> DEFINE q == InList(m, SProcq(e))
    <3>1. Waiters(m, t) = q /\ e \in Pcb /\ SProcq(e) \in InUse(A)
      BY <2>2, WaitersFacts, ListsApart DEF InUse
    <3>2. q \in Seq(Pcb) /\ p \notin Entries(q)
      BY <1>0, <1>20, <3>1, InListFacts
    <3> HIDE DEF q
    <3>3. (Pcb \ {p}) \cap Entries(q) = Pcb \cap Entries(q)
      BY <3>2
    <3>4. Only(q, Pcb \ {p}) = Only(q, Pcb) /\ Only(q, Pcb) = q
      BY <3>2, <3>3, OnlyAgree, OnlyAll
    <3> QED
      BY <3>1, <3>4
  <2> QED
    BY <2>1, <2>2
<1>2. CASE ~Described(m, s)
  <2>1. a = m /\ \A e \in Pcb : p \notin Members(m, SProcq(e))
    BY <1>1, <1>2 DEF outBlocked
  <2> QED
    BY <1>20, <2>1 DEF SameReady
<1>3. CASE Described(m, s) /\ p \notin Members(m, h)
  <2>1. d \in Members(m, semd_h) /\ d \in Pcb
    BY <1>3, DescriptorFound, ListsApart DEF InUse
  <2>2. ~list_empty(m, h)
    <3>1. Members(m, h) # {} /\ h \in InUse(A)
      <4> HIDE DEF d
      <4> QED
        BY <2>1 DEF Inv, SemdInv, InUse
    <3> HIDE DEF h, A
    <3> QED
      BY <1>0, <3>1, MembersFacts
  <2>3. a = m
    BY <1>3, <2>2 DEF outBlocked, outProcQ
  <2>4. \A e \in Pcb : p \notin Members(m, SProcq(e))
    BY <1>1, <1>3
  <2> QED
    BY <1>20, <2>3, <2>4 DEF SameReady
<1>4. CASE Described(m, s) /\ p \in Members(m, h)
  <2> DEFINE left == list_del(m, PList(p))
             keyed == WithKey(left, d, NULL)
             out == list_del(keyed, SLink(d))
  <2>1. d \in Members(m, semd_h) /\ d \in Pcb
    BY <1>4, DescriptorFound, ListsApart DEF InUse
  <2>2. a = IF ~list_empty(left, h) THEN left ELSE list_add_tail(out, SLink(d), semdFree_h)
    BY <1>4 DEF outBlocked, outProcQ, WithKey
  <2> HIDE DEF s, d
  <2>3. h \in PcbQueues /\ h \in InUse(A)
    BY <2>1 DEF PcbQueues, InUse
  <2> HIDE DEF h, A
  <2>4. Left(left, m, InUse(A), h, p) /\ InList(left, h) = Only(InList(m, h), Pcb \ {p})
    BY <1>4, <2>3, Dequeue DEF A
  <2> HIDE DEF left
  <2>5. /\ Intact(left, InUse(A)) /\ SameData(left, m) /\ SameOthers(left, m, InUse(A), h)
        /\ Members(left, h) = Members(m, h) \ {p}
    BY <2>4 DEF Left
  <2>6. Unwaited(left, m, d, p) /\ p \in Members(m, SProcq(d))
    BY <1>4, <2>4, <2>5 DEF Unwaited, A, h, SameData
  <2>7. ASSUME LooseIn(a, p)
        PROVE  /\ p \in Members(a, high_ready_q) <=> p \in Members(m, high_ready_q)
               /\ p \in Members(a, low_ready_q) <=> p \in Members(m, low_ready_q)
               /\ \A e \in Pcb : p \notin Members(a, SProcq(e))
    <3>1. p \notin Members(m, high_ready_q) /\ p \notin Members(m, low_ready_q)
      BY <2>1, <2>6, ListsApart
    <3> QED
      BY <2>7, <3>1 DEF LooseIn
  <2>8. CASE ~list_empty(left, h)
    <3>1. Members(left, SProcq(d)) # {}
      BY <2>3, <2>5, <2>8, MembersFacts DEF h
    <3>2. /\ Inv(left) /\ LooseIn(left, p) /\ Live(left) = Live(m)
          /\ SameReady(left, m) /\ \A t : Waiters(left, t) = Only(Waiters(m, t), Pcb \ {p})
      BY <2>1, <2>5, <2>6, <3>1, OthersWait DEF SameData
    <3> QED
      BY <2>2, <2>5, <2>7, <2>8, <3>2 DEF SameData
  <2>9. CASE list_empty(left, h)
    <3>1. Members(left, h) = {}
      BY <2>3, <2>5, <2>9, MembersFacts
    <3>2. KeyWritten(keyed, left, InUse(A), d, NULL)
      BY <2>5, KeyWrite
    <3> HIDE DEF keyed
    <3>3. /\ Intact(keyed, InUse(A)) /\ SameLists(keyed, left, InUse(A))
          /\ keyed.s_key = [left.s_key EXCEPT ![d] = NULL]
          /\ keyed.p_parent = left.p_parent /\ keyed.p_semAdd = left.p_semAdd /\ keyed.p_prio = left.p_prio
      BY <3>2 DEF KeyWritten
    <3>4. Members(keyed, h) = Members(left, h) /\ InList(keyed, h) = InList(left, h)
      BY <2>3, <3>3, SameInList DEF SameLists
    <3>5. SameOthers(keyed, m, InUse(A), h)
      BY <2>5, <3>3 DEF SameOthers, SameLists
    <3>6. \A e \in Pcb : e # d => keyed.s_key[e] = m.s_key[e]
      BY <1>0, <2>5, <3>3 DEF IsMemory, SameData
    <3>7. Unwaited(keyed, m, d, p) /\ Members(keyed, SProcq(d)) = {}
      BY <2>4, <2>5, <3>1, <3>3, <3>4, <3>5, <3>6 DEF Unwaited, SameData, A, h
    <3>8. a = list_add_tail(out, SLink(d), semdFree_h)
      BY <2>2, <2>9
    <3>9. /\ Inv(a) /\ LooseIn(a, p) /\ Live(a) = Live(m) /\ SameData(a, keyed)
          /\ SameReady(a, m) /\ \A t : Waiters(a, t) = Only(Waiters(m, t), Pcb \ {p})
      BY <2>1, <2>6, <3>7, <3>8, LastLeaves
    <3> QED
      BY <2>5, <2>7, <3>3, <3>9 DEF SameData
  <2> QED
    BY <2>8, <2>9
<1> QED
  BY <1>2, <1>3, <1>4

\* A sequence without a process that is not in it.
LEMMA OnlyOthers ==
  ASSUME NEW q \in Seq(Pcb), NEW p, p \notin Entries(q)
  PROVE  Only(q, Pcb \ {p}) = q
<1>1. (Pcb \ {p}) \cap Entries(q) = Pcb \cap Entries(q)
  OBVIOUS
<1> QED
  BY <1>1, OnlyAgree, OnlyAll

\* outProcQ from the ready queue its priority selects, of a process that is in no
\* other: it is in none afterwards.
LEMMA OutProcQKeeps ==
  ASSUME NEW m, Inv(m), NEW p \in Live(m), p \in Members(m, low_ready_q) => m.p_prio[p] = 0,
         NEW h, h = ReadyQueue(m, p), NEW a, a = outProcQ(m, h, p)
  PROVE  /\ Inv(a) /\ Live(a) = Live(m) /\ SameData(a, m)
         /\ p \notin Members(a, high_ready_q) /\ p \notin Members(a, low_ready_q)
         /\ SameWaits(a, m)
         /\ \A k \in {high_ready_q, low_ready_q} : InList(a, k) = Only(InList(m, k), Pcb \ {p})
<1>1. h \in {high_ready_q, low_ready_q}
  BY DEF ReadyQueue
<1>4. \A k \in {high_ready_q, low_ready_q} :
        /\ InList(m, k) \in Seq(Pcb) /\ Entries(InList(m, k)) = Members(m, k)
        /\ p \notin Members(m, k) => Only(InList(m, k), Pcb \ {p}) = InList(m, k)
  <2> SUFFICES ASSUME NEW k \in {high_ready_q, low_ready_q}
               PROVE  /\ InList(m, k) \in Seq(Pcb) /\ Entries(InList(m, k)) = Members(m, k)
                      /\ p \notin Members(m, k) => Only(InList(m, k), Pcb \ {p}) = InList(m, k)
    OBVIOUS
  <2>1. k \in InUse(Live(m)) /\ Intact(m, InUse(Live(m)))
    BY DEF InUse, Inv
  <2> DEFINE q == InList(m, k)
  <2>2. q \in Seq(Pcb) /\ Entries(q) = Members(m, k)
    BY <2>1, InListFacts
  <2> HIDE DEF q
  <2>3. p \notin Members(m, k) => Only(q, Pcb \ {p}) = q
    BY <2>2, OnlyOthers
  <2> QED
    BY <2>2, <2>3 DEF q
<1>2. CASE p \in Members(m, h)
  <2>1. a = list_del(m, PList(p))
    BY <1>2 DEF outProcQ
  <2>2. /\ Inv(a) /\ LooseIn(a, p) /\ SameData(a, m) /\ Live(a) = Live(m) /\ SameWaits(a, m)
        /\ InList(a, h) = Only(InList(m, h), Pcb \ {p})
        /\ \A k \in {high_ready_q, low_ready_q} : h # k => InList(a, k) = InList(m, k)
    BY <1>1, <1>2, <2>1, UnreadyKeeps
  <2>3. \A k \in {high_ready_q, low_ready_q} : h # k => p \notin Members(m, k)
    BY <1>1, <1>2, ListsApart
  <2> QED
    BY <1>4, <2>2, <2>3 DEF LooseIn
<1>3. CASE p \notin Members(m, h)
  <2>1. a = m
    BY <1>3 DEF outProcQ
  <2>2. p \notin Members(m, high_ready_q) /\ p \notin Members(m, low_ready_q)
    BY <1>3 DEF ReadyQueue, Inv, QueueInv
  <2> QED
    BY <1>4, <2>1, <2>2 DEF SameData, SameWaits
<1> QED
  BY <1>2, <1>3

\* A process that is about to wait is told for what.
LEMMA SemAddKeeps ==
  ASSUME NEW m, Inv(m), NEW p, LooseIn(m, p), NEW v, NEW a, a = WithSemAdd(m, p, v)
  PROVE  /\ Inv(a) /\ LooseIn(a, p) /\ Live(a) = Live(m) /\ a.p_parent = m.p_parent
         /\ a.s_key = m.s_key /\ a.p_semAdd[p] = v /\ a.p_semAdd = [m.p_semAdd EXCEPT ![p] = v]
         /\ SameReady(a, m) /\ SameWaits(a, m)
         /\ SameLists(a, m, InUse(Live(m)))
<1> DEFINE A == Live(m)
<1>1. /\ A \subseteq Pcb /\ p \in A /\ p \in Pcb /\ Intact(m, InUse(A)) /\ IsMemory(m)
      /\ {pcbFree_h, semdFree_h, semd_h, high_ready_q, low_ready_q} \subseteq InUse(A)
      /\ \A q \in A : PChild(q) \in InUse(A)
      /\ \A d \in Pcb : SProcq(d) \in InUse(A)
  BY DEF Live, LooseIn, Inv, Intact, InUse
<1> HIDE DEF A
<1>2. SemAddWritten(a, m, InUse(A), p, v)
  BY <1>1, SemAddWrite
<1>3. /\ Intact(a, InUse(A)) /\ SameLists(a, m, InUse(A)) /\ a.p_semAdd = [m.p_semAdd EXCEPT ![p] = v]
      /\ a.p_parent = m.p_parent /\ a.p_prio = m.p_prio /\ a.s_key = m.s_key
  BY <1>2 DEF SemAddWritten
<1>4. \A k \in InUse(A) : Members(a, k) = Members(m, k)
  BY <1>3, SameMembers
<1>5. Live(a) = A /\ TreeInv(a) /\ QueueInv(a)
  BY <1>1, <1>3, <1>4, Frames DEF A
<1>6. LooseIn(a, p)
  BY <1>1, <1>4, <1>5 DEF LooseIn, A
<1>7. \A q \in Pcb : q # p => a.p_semAdd[q] = m.p_semAdd[q]
  BY <1>1, <1>3 DEF IsMemory
<1>8. a.p_semAdd[p] = v
  BY <1>1, <1>3 DEF IsMemory
<1>9. SemdInv(a)
  <2>1. SemdInv(m) /\ Members(m, semd_h) \subseteq Pcb
    BY <1>1, ListsApart DEF Inv, A
  <2>2. \A d \in Pcb : Members(m, SProcq(d)) \subseteq Pcb /\ p \notin Members(m, SProcq(d))
    BY <1>1, ListsApart DEF LooseIn, A
  <2>3. /\ Members(a, semd_h) = Members(m, semd_h) /\ Members(a, semdFree_h) = Members(m, semdFree_h)
        /\ \A d \in Pcb : Members(a, SProcq(d)) = Members(m, SProcq(d))
    BY <1>1, <1>4
  <2> QED
    BY <1>3, <1>7, <2>1, <2>2, <2>3 DEF SemdInv
<1>10. SameReady(a, m) /\ SameWaits(a, m)
  <2>1. SameOthers(a, m, InUse(A), pcbFree_h)
    BY <1>3 DEF SameOthers, SameLists
  <2> QED
    BY <1>3, <2>1, QueuesKept DEF A
<1> QED
  BY <1>3, <1>5, <1>6, <1>8, <1>9, <1>10 DEF Inv, A

\* p is the last of those who wait for s.
WaitsFor(a, m, s, p) ==
  \A t : Waiters(a, t) = IF t = s THEN Append(Waiters(m, t), p) ELSE Waiters(m, t)

\* l is b with d active for the semaphore p names in p_semAdd.
ActiveFor(l, b, d, p) ==
  /\ Intact(l, InUse(Live(b)))
  /\ \A k \in InUse(Live(b)) : k \notin {semdFree_h, semd_h}
                                 => Members(l, k) = Members(b, k) /\ InList(l, k) = InList(b, k)
  /\ Members(l, semd_h) = Members(b, semd_h) \cup {d}
  /\ Members(l, semdFree_h) = Members(b, semdFree_h) \ {d}
  /\ l.p_parent = b.p_parent /\ l.p_semAdd = b.p_semAdd /\ l.p_prio = b.p_prio
  /\ \A e \in Pcb : e # d => l.s_key[e] = b.s_key[e]
  /\ l.s_key[d] = b.p_semAdd[p]
  /\ d \in Members(b, semd_h) => b.s_key[d] = l.s_key[d]
  /\ \A e \in Members(b, semd_h) : b.s_key[e] = l.s_key[d] => e = d

\* A process joins the queue of a descriptor that is active, or is made active
\* for it.
LEMMA WaiterJoins ==
  ASSUME NEW b, Inv(b), NEW p, LooseIn(b, p), NEW d \in Pcb, NEW l, ActiveFor(l, b, d, p),
         NEW a, Joined(a, l, InUse(Live(b)), SProcq(d), p),
         InList(a, SProcq(d)) = Append(InList(b, SProcq(d)), p)
  PROVE  /\ Inv(a) /\ Live(a) = Live(b) /\ a.p_parent = b.p_parent /\ a.p_semAdd = b.p_semAdd
         /\ SameReady(a, b)
         /\ WaitsFor(a, b, b.p_semAdd[p], p)
<1> DEFINE A == Live(b)
           h == SProcq(d)
<1>1. /\ A \subseteq Pcb /\ p \in A /\ p \in Pcb /\ h \in InUse(A)
      /\ {pcbFree_h, semdFree_h, semd_h, high_ready_q, low_ready_q} \subseteq InUse(A)
      /\ \A q \in A : PChild(q) \in InUse(A)
      /\ \A e \in Pcb : SProcq(e) \in InUse(A)
  BY DEF Live, LooseIn, InUse
<1>2. /\ Intact(a, InUse(A)) /\ SameData(a, l) /\ SameOthers(a, l, InUse(A), h)
      /\ Members(a, h) = Members(l, h) \cup {p}
  BY DEF Joined
<1>3. /\ SemdInv(b) /\ Members(b, semd_h) \subseteq Pcb /\ Members(b, semdFree_h) \subseteq Pcb
      /\ \A e \in Pcb : Members(b, SProcq(e)) \subseteq Pcb
      /\ \A e \in Pcb : p \notin Members(b, SProcq(e))
  BY <1>1, ListsApart DEF Inv, LooseIn
<1> HIDE DEF A, h
<1>4. /\ Members(a, pcbFree_h) = Members(b, pcbFree_h)
      /\ \A x \in A : Members(a, PChild(x)) = Members(b, PChild(x))
      /\ Members(a, semdFree_h) = Members(b, semdFree_h) \ {d}
      /\ Members(a, semd_h) = Members(b, semd_h) \cup {d}
      /\ \A e \in Pcb : e # d => Members(a, SProcq(e)) = Members(b, SProcq(e))
      /\ Members(a, SProcq(d)) = Members(b, SProcq(d)) \cup {p}
      /\ Members(a, high_ready_q) = Members(b, high_ready_q)
      /\ Members(a, low_ready_q) = Members(b, low_ready_q)
  <2>1. /\ h # pcbFree_h /\ h # semdFree_h /\ h # semd_h /\ h # high_ready_q /\ h # low_ready_q
        /\ \A x \in A : h # PChild(x)
        /\ \A e \in Pcb : e # d => h # SProcq(e)
    BY <1>1, HeadsDiffer DEF h
  <2>2. HeadByHead(a, l, A, h)
    BY <1>1, <1>2, SameHeadByHead
  <2>3. /\ {pcbFree_h, high_ready_q, low_ready_q} \cap {semdFree_h, semd_h} = {}
        /\ \A x \in A : PChild(x) \notin {semdFree_h, semd_h}
        /\ \A e \in Pcb : SProcq(e) \notin {semdFree_h, semd_h}
    BY <1>1, HeadsDiffer
  <2>4. \A k \in InUse(A) : k \notin {semdFree_h, semd_h} => Members(l, k) = Members(b, k)
    BY DEF A, ActiveFor
  <2>5. /\ Members(a, pcbFree_h) = Members(l, pcbFree_h)
        /\ \A x \in A : Members(a, PChild(x)) = Members(l, PChild(x))
        /\ Members(a, semdFree_h) = Members(l, semdFree_h)
        /\ Members(a, semd_h) = Members(l, semd_h)
        /\ \A e \in Pcb : e # d => Members(a, SProcq(e)) = Members(l, SProcq(e))
        /\ Members(a, high_ready_q) = Members(l, high_ready_q)
        /\ Members(a, low_ready_q) = Members(l, low_ready_q)
    BY <1>1, <2>1, <2>2 DEF HeadByHead
  <2>6. /\ Members(l, pcbFree_h) = Members(b, pcbFree_h)
        /\ \A x \in A : Members(l, PChild(x)) = Members(b, PChild(x))
        /\ \A e \in Pcb : Members(l, SProcq(e)) = Members(b, SProcq(e))
        /\ Members(l, high_ready_q) = Members(b, high_ready_q)
        /\ Members(l, low_ready_q) = Members(b, low_ready_q)
    BY <1>1, <2>3, <2>4
  <2> QED
    BY <1>2, <2>5, <2>6 DEF h, ActiveFor
<1>5. Live(a) = A /\ TreeInv(a) /\ QueueInv(a) /\ a.p_parent = b.p_parent
  <2>1. a.p_parent = b.p_parent /\ a.p_prio = b.p_prio
    BY <1>2 DEF SameData, ActiveFor
  <2> QED
    BY <1>4, <2>1, Frames DEF A
<1>6. SemdInv(a)
  <2>1. Members(a, semdFree_h) = Pcb \ Members(a, semd_h)
    BY <1>3, <1>4 DEF SemdInv
  <2>2. /\ \A e \in Pcb : e # d => a.s_key[e] = b.s_key[e]
        /\ a.s_key[d] = b.p_semAdd[p] /\ a.s_key[d] = l.s_key[d] /\ a.p_semAdd = b.p_semAdd
        /\ d \in Members(b, semd_h) => b.s_key[d] = l.s_key[d]
        /\ \A e \in Members(b, semd_h) : b.s_key[e] = l.s_key[d] => e = d
    BY <1>2 DEF SameData, ActiveFor
  <2>3. \A e, f \in Members(a, semd_h) : a.s_key[e] = a.s_key[f] => e = f
    BY <1>3, <1>4, <2>2 DEF SemdInv
  <2>4. \A e \in Pcb : Members(a, SProcq(e)) # {} <=> e \in Members(a, semd_h)
    BY <1>3, <1>4 DEF SemdInv
  <2>5. ASSUME NEW e \in Members(a, semd_h), NEW q \in Members(a, SProcq(e))
        PROVE  a.p_semAdd[q] = a.s_key[e]
    <3>1. CASE e # d
      BY <1>3, <1>4, <2>2, <3>1 DEF SemdInv
    <3>2. CASE e = d /\ q = p
      BY <2>2, <3>2
    <3>3. CASE e = d /\ q # p
      <4>1. q \in Members(b, SProcq(d)) /\ d \in Members(b, semd_h)
        BY <1>3, <1>4, <3>3 DEF SemdInv
      <4> QED
        BY <1>3, <2>2, <3>3, <4>1 DEF SemdInv
    <3> QED
      BY <3>1, <3>2, <3>3
  <2> QED
    BY <2>1, <2>3, <2>4, <2>5 DEF SemdInv
<1>7. Inv(a)
  BY <1>2, <1>5, <1>6 DEF Inv
<1>8. SameReady(a, b) /\ \A e \in Pcb : e # d => InList(a, SProcq(e)) = InList(b, SProcq(e))
  <2>1. /\ h \notin {high_ready_q, low_ready_q}
        /\ \A e \in Pcb : e # d => h # SProcq(e)
        /\ {high_ready_q, low_ready_q} \cap {semdFree_h, semd_h} = {}
        /\ \A e \in Pcb : SProcq(e) \notin {semdFree_h, semd_h}
    BY <1>1, HeadsDiffer DEF h
  <2>2. \A k \in InUse(A) : k # h => InList(a, k) = InList(l, k)
    BY <1>2, SameInList DEF SameOthers
  <2>3. \A k \in InUse(A) : k \notin {semdFree_h, semd_h} => InList(l, k) = InList(b, k)
    BY DEF A, ActiveFor
  <2> QED
    BY <1>1, <2>1, <2>2, <2>3 DEF SameReady
<1>9. /\ \A e \in Pcb : e # d => a.s_key[e] = b.s_key[e]
      /\ a.s_key[d] = b.p_semAdd[p]
      /\ d \in Members(b, semd_h) => b.s_key[d] = b.p_semAdd[p]
      /\ \A e \in Members(b, semd_h) : b.s_key[e] = b.p_semAdd[p] => e = d
  BY <1>2 DEF SameData, ActiveFor
<1>10. ASSUME NEW t
       PROVE  Waiters(a, t) = IF t = b.p_semAdd[p] THEN Append(Waiters(b, t), p) ELSE Waiters(b, t)
  <2>1. CASE t = b.p_semAdd[p]
    <3>1. Waiters(a, t) = InList(a, SProcq(d))
      BY <1>4, <1>7, <1>9, <2>1, WaitersFacts
    <3>2. Waiters(b, t) = InList(b, SProcq(d))
      <4>1. CASE d \in Members(b, semd_h)
        BY <1>9, <2>1, <4>1, WaitersFacts
      <4>2. CASE d \notin Members(b, semd_h)
        <5>1. Waiters(b, t) = <<>>
          BY <1>9, <2>1, <4>2, WaitersFacts
        <5>2. Members(b, SProcq(d)) = {} /\ SProcq(d) \in InUse(Live(b)) /\ Intact(b, InUse(Live(b)))
          BY <1>3, <4>2 DEF SemdInv, InUse, Inv
        <5> QED
          BY <5>1, <5>2, InListFacts
      <4> QED
        BY <4>1, <4>2
    <3> QED
      BY <2>1, <3>1, <3>2
  <2>2. CASE t # b.p_semAdd[p]
    <3>1. ASSUME NEW e \in Members(b, semd_h), b.s_key[e] = t
          PROVE  Waiters(a, t) = Waiters(b, t)
      <4>1. e \in Pcb /\ e # d /\ e \in Members(a, semd_h) /\ a.s_key[e] = t
        BY <1>3, <1>4, <1>9, <2>2, <3>1
      <4>2. Waiters(b, t) = InList(b, SProcq(e))
        BY <3>1, WaitersFacts
      <4>3. Waiters(a, t) = InList(a, SProcq(e))
        BY <1>7, <4>1, WaitersFacts
      <4> QED
        BY <1>8, <4>1, <4>2, <4>3
    <3>2. ASSUME \A e \in Members(b, semd_h) : b.s_key[e] # t
          PROVE  Waiters(a, t) = Waiters(b, t)
      <4>1. Waiters(b, t) = <<>>
        BY <3>2, WaitersFacts
      <4>2. \A e \in Members(a, semd_h) : a.s_key[e] # t
        BY <1>3, <1>4, <1>9, <2>2, <3>2
      <4>3. Waiters(a, t) = <<>>
        BY <1>7, <4>2, WaitersFacts
      <4> QED
        BY <4>1, <4>3
    <3> QED
      BY <2>2, <3>1, <3>2
  <2> QED
    BY <2>1, <2>2
<1>11. a.p_semAdd = b.p_semAdd
  BY <1>2 DEF SameData, ActiveFor
<1> QED
  BY <1>5, <1>7, <1>8, <1>10, <1>11 DEF A, WaitsFor

\* p names s in p_semAdd and is the last that waits for it.
JoinedWaiters(a, m, s, p) ==
  /\ a.p_semAdd = [m.p_semAdd EXCEPT ![p] = s] /\ SameReady(a, m)
  /\ WaitsFor(a, m, s, p)

\* insertBlocked of a process that is in no queue.
LEMMA InsertBlockedKeeps ==
  ASSUME NEW m, Inv(m), NEW p, LooseIn(m, p), NEW s, NEW a, a = insertBlocked(m, s, p)
  PROVE  /\ Inv(a) /\ Live(a) = Live(m) /\ a.p_parent = m.p_parent
         /\ ~SemdsExhausted(m, s) => JoinedWaiters(a, m, s, p)
<1> SUFFICES /\ Inv(a) /\ Live(a) = Live(m) /\ a.p_parent = m.p_parent
             /\ ~SemdsExhausted(m, s) =>
                  /\ a.p_semAdd = [m.p_semAdd EXCEPT ![p] = s] /\ SameReady(a, m)
                  /\ WaitsFor(a, m, s, p)
  BY DEF JoinedWaiters
<1> DEFINE A == Live(m)
           b == WithSemAdd(m, p, s)
<1>1. /\ A \subseteq Pcb /\ p \in A /\ p \in Pcb /\ Intact(m, InUse(A)) /\ SemdInv(m)
      /\ {semdFree_h, semd_h} \subseteq InUse(A)
      /\ \A e \in Pcb : SProcq(e) \in InUse(A) /\ SProcq(e) \in PcbQueues
  BY DEF Live, LooseIn, Inv, InUse, PcbQueues
<1>2. /\ Inv(b) /\ LooseIn(b, p) /\ Live(b) = A /\ b.p_parent = m.p_parent
      /\ b.s_key = m.s_key /\ b.p_semAdd[p] = s /\ SameLists(b, m, InUse(A))
      /\ b.p_semAdd = [m.p_semAdd EXCEPT ![p] = s] /\ SameReady(b, m) /\ SameWaits(b, m)
  <2> HIDE DEF b
  <2> QED
    BY SemAddKeeps DEF b
<1> HIDE DEF A
<1>3. \A k \in InUse(A) : Members(b, k) = Members(m, k) /\ InList(b, k) = InList(m, k)
  <2> HIDE DEF b
  <2> QED
    BY <1>2, SameInList DEF SameLists
<1>4. Intact(b, InUse(A)) /\ SemdInv(b) /\ Members(b, semd_h) \subseteq Pcb /\ IsMemory(b)
  <2> HIDE DEF b
  <2> QED
    BY <1>1, <1>2, ListsApart DEF Inv
<1>20. ASSUME Inv(a), Live(a) = Live(b), a.p_parent = b.p_parent, a.p_semAdd = b.p_semAdd, SameReady(a, b),
              WaitsFor(a, b, b.p_semAdd[p], p)
       PROVE  /\ Inv(a) /\ Live(a) = Live(m) /\ a.p_parent = m.p_parent
              /\ a.p_semAdd = [m.p_semAdd EXCEPT ![p] = s] /\ SameReady(a, m)
              /\ WaitsFor(a, m, s, p)
  <2> HIDE DEF b
  <2> QED
    BY <1>2, <1>20 DEF SameReady, SameWaits, WaitsFor, A
<1>5. CASE Described(m, s)
  <2> DEFINE d == DescriptorOf(m, s)
  <2>1. d \in Members(m, semd_h) /\ d \in Pcb /\ m.s_key[d] = s
    BY <1>1, <1>5, DescriptorFound, ListsApart DEF A
  <2>2. a = list_add_tail(b, PList(p), SProcq(d))
    BY <1>5 DEF insertBlocked, WithSemAdd
  <2> HIDE DEF d, b
  <2>3. Joined(a, b, InUse(A), SProcq(d), p) /\ InList(a, SProcq(d)) = Append(InList(b, SProcq(d)), p)
    BY <1>1, <1>2, <1>4, <2>1, <2>2, Enqueue
  <2>4. d \in Members(b, semd_h) /\ d \notin Members(b, semdFree_h)
    BY <1>1, <1>3, <1>4, <2>1 DEF SemdInv
  <2>5. /\ Members(b, semd_h) = Members(b, semd_h) \cup {d}
        /\ Members(b, semdFree_h) = Members(b, semdFree_h) \ {d}
        /\ b.s_key[d] = b.p_semAdd[p]
        /\ \A e \in Members(b, semd_h) : b.s_key[e] = b.s_key[d] => e = d
    BY <1>2, <1>4, <2>1, <2>4 DEF SemdInv
  <2>6. ActiveFor(b, b, d, p)
    BY <1>2, <1>4, <2>5 DEF ActiveFor
  <2>7. /\ Inv(a) /\ Live(a) = Live(b) /\ a.p_parent = b.p_parent /\ a.p_semAdd = b.p_semAdd /\ SameReady(a, b)
        /\ WaitsFor(a, b, b.p_semAdd[p], p)
    <3>1. Inv(b) /\ LooseIn(b, p) /\ Joined(a, b, InUse(Live(b)), SProcq(d), p)
      BY <1>2, <2>3
    <3> QED
      BY <2>1, <2>3, <2>6, <3>1, WaiterJoins
  <2> QED
    BY <1>20, <2>7
<1>6. CASE ~Described(m, s) /\ list_empty(m, semdFree_h)
  BY <1>6 DEF insertBlocked, SemdsExhausted
<1>7. CASE ~Described(m, s) /\ ~list_empty(m, semdFree_h)
  <2> DEFINE d == First(m, semdFree_h)
             out == list_del(m, SLink(d))
             keyed == WithKey(out, d, s)
             taken == WithSemAdd(keyed, p, s)
             active == list_add(taken, SLink(d), semd_h)
  <2>1. a = list_add(active, PList(p), SProcq(d))
    BY <1>7 DEF insertBlocked, WithKey, WithSemAdd
  <2> HIDE DEF b
  <2>2. d \in Members(m, semdFree_h) /\ d \in Pcb /\ d \notin Members(m, semd_h)
    <3>1. d \in Members(m, semdFree_h)
      BY <1>1, <1>7, MembersFacts
    <3> QED
      BY <1>1, <3>1 DEF SemdInv
  <2> HIDE DEF d
  <2>3. Left(out, m, InUse(A), semdFree_h, d)
    BY <1>1, <2>2, SemdMoves
  <2> HIDE DEF out
  <2>4. /\ Intact(out, InUse(A)) /\ SameData(out, m) /\ SameOthers(out, m, InUse(A), semdFree_h)
        /\ Members(out, semdFree_h) = Members(m, semdFree_h) \ {d}
    BY <2>3 DEF Left
  <2>5. KeyWritten(keyed, out, InUse(A), d, s)
    BY <2>4, KeyWrite
  <2> HIDE DEF keyed
  <2>6. /\ Intact(keyed, InUse(A)) /\ SameLists(keyed, out, InUse(A))
        /\ keyed.s_key = [out.s_key EXCEPT ![d] = s]
        /\ keyed.p_parent = out.p_parent /\ keyed.p_semAdd = out.p_semAdd /\ keyed.p_prio = out.p_prio
    BY <2>5 DEF KeyWritten
  <2>7. SemAddWritten(taken, keyed, InUse(A), p, s)
    BY <2>6, SemAddWrite
  <2> HIDE DEF taken
  <2>8. /\ Intact(taken, InUse(A)) /\ SameLists(taken, keyed, InUse(A))
        /\ taken.p_semAdd = [keyed.p_semAdd EXCEPT ![p] = s]
        /\ taken.p_parent = keyed.p_parent /\ taken.p_prio = keyed.p_prio /\ taken.s_key = keyed.s_key
    BY <2>7 DEF SemAddWritten
  <2>9. /\ \A k \in InUse(A) : k # semdFree_h
                                 => Members(taken, k) = Members(m, k) /\ InList(taken, k) = InList(m, k)
        /\ Members(taken, semdFree_h) = Members(m, semdFree_h) \ {d}
    <3>1. \A k \in InUse(A) : Members(taken, k) = Members(out, k) /\ InList(taken, k) = InList(out, k)
      BY <2>6, <2>8, SameInList DEF SameLists
    <3>2. \A k \in InUse(A) : k # semdFree_h => Members(out, k) = Members(m, k) /\ InList(out, k) = InList(m, k)
      BY <2>4, SameInList DEF SameOthers
    <3> QED
      BY <1>1, <2>4, <3>1, <3>2
  <2>10. d \notin Members(taken, semdFree_h) \cup Members(taken, semd_h)
    BY <1>1, <2>2, <2>9, HeadsDiffer
  <2>11. Joined(active, taken, InUse(A), semd_h, d)
    BY <1>1, <2>2, <2>8, <2>10, SemdMoves
  <2> HIDE DEF active
  <2>12. /\ Intact(active, InUse(A)) /\ SameData(active, taken)
         /\ SameOthers(active, taken, InUse(A), semd_h)
         /\ Members(active, semd_h) = Members(taken, semd_h) \cup {d}
    BY <2>11 DEF Joined
  <2>13. /\ \A k \in InUse(A) : k \notin {semdFree_h, semd_h}
                                  => Members(active, k) = Members(b, k) /\ InList(active, k) = InList(b, k)
         /\ Members(active, semd_h) = Members(b, semd_h) \cup {d}
         /\ Members(active, semdFree_h) = Members(b, semdFree_h) \ {d}
    <3>1. \A k \in InUse(A) : k # semd_h => Members(active, k) = Members(taken, k) /\ InList(active, k) = InList(taken, k)
      BY <2>12, SameInList DEF SameOthers
    <3> QED
      BY <1>1, <1>3, <2>9, <2>12, <3>1, HeadsDiffer
  <2>14. /\ active.p_parent = b.p_parent /\ active.p_prio = b.p_prio
         /\ active.p_semAdd = b.p_semAdd
         /\ active.s_key = [b.s_key EXCEPT ![d] = s]
    <3>1. b.p_semAdd = [m.p_semAdd EXCEPT ![p] = s] /\ b.p_prio = m.p_prio
      <4>1. SemAddWritten(b, m, InUse(A), p, s)
        BY <1>1, SemAddWrite DEF b
      <4> QED
        BY <4>1 DEF SemAddWritten
    <3> QED
      BY <1>2, <2>4, <2>6, <2>8, <2>12, <3>1 DEF SameData
  <2>15. active.s_key[d] = s /\ \A e \in Pcb : e # d => active.s_key[e] = b.s_key[e]
    BY <1>4, <2>2, <2>14 DEF IsMemory, Semd, Pcb
  <2>16. /\ d \notin Members(b, semd_h)
         /\ \A e \in Members(b, semd_h) : b.s_key[e] # s
    BY <1>1, <1>2, <1>3, <1>7, <2>2 DEF Described
  <2>17. Live(active) = A /\ LooseIn(active, p)
    <3>1. /\ Members(active, pcbFree_h) = Members(b, pcbFree_h)
          /\ Members(active, high_ready_q) = Members(b, high_ready_q)
          /\ Members(active, low_ready_q) = Members(b, low_ready_q)
          /\ \A e \in Pcb : Members(active, SProcq(e)) = Members(b, SProcq(e))
      <4>1. /\ {pcbFree_h, high_ready_q, low_ready_q} \subseteq InUse(A)
            /\ {pcbFree_h, high_ready_q, low_ready_q} \cap {semdFree_h, semd_h} = {}
            /\ \A e \in Pcb : SProcq(e) \notin {semdFree_h, semd_h}
        BY HeadsDiffer DEF InUse
      <4> QED
        BY <1>1, <2>13, <4>1
    <3> QED
      BY <1>2, <3>1 DEF LooseIn, Live
  <2>18. Joined(a, active, InUse(A), SProcq(d), p) /\ InList(a, SProcq(d)) = Append(InList(b, SProcq(d)), p)
    <3>1. Members(b, SProcq(d)) = {}
      BY <1>4, <2>2, <2>16 DEF SemdInv
    <3>2. SProcq(d) \in InUse(A) /\ SProcq(d) \notin {semdFree_h, semd_h}
      BY <1>1, <2>2, HeadsDiffer
    <3>3. Members(active, SProcq(d)) = {} /\ InList(b, SProcq(d)) = <<>>
      BY <1>4, <2>13, <3>1, <3>2, InListFacts
    <3>4. Append(<<>>, p) = <<p>>
      OBVIOUS
    <3>5. /\ Joined(a, active, InUse(A), SProcq(d), p)
          /\ Members(active, SProcq(d)) = {} => InList(a, SProcq(d)) = <<p>>
      BY <1>1, <2>1, <2>2, <2>12, <2>17, Enqueue
    <3> QED
      BY <3>3, <3>4, <3>5
  <2>19. /\ Inv(a) /\ Live(a) = Live(b) /\ a.p_parent = b.p_parent /\ a.p_semAdd = b.p_semAdd /\ SameReady(a, b)
         /\ WaitsFor(a, b, b.p_semAdd[p], p)
    <3>1. ActiveFor(active, b, d, p)
      <4>1. /\ active.s_key[d] = b.p_semAdd[p]
            /\ d \in Members(b, semd_h) => b.s_key[d] = active.s_key[d]
            /\ \A e \in Members(b, semd_h) : b.s_key[e] = active.s_key[d] => e = d
        BY <1>2, <2>15, <2>16
      <4> QED
        BY <1>2, <2>12, <2>13, <2>14, <2>15, <4>1 DEF ActiveFor
    <3>2. Joined(a, active, InUse(Live(b)), SProcq(d), p) /\ InList(a, SProcq(d)) = Append(InList(b, SProcq(d)), p)
      BY <1>2, <2>18
    <3> QED
      <4>1. Inv(b) /\ LooseIn(b, p) /\ d \in Pcb
        BY <1>2, <2>2
      <4> QED
        BY <3>1, <3>2, <4>1, WaiterJoins
  <2> QED
    BY <1>20, <2>19
<1> QED
  BY <1>5, <1>6, <1>7

-----------------------------------------------------------------------------
(* What the nucleus does.                                                  *)

\* Only the process that gets a parent needs a new rank.
LEMMA RankKeeps ==
  ASSUME NEW m, NEW rank, Ranked(m, rank), NEW a
  PROVE  /\ a.p_parent = m.p_parent => Ranked(a, rank)
         /\ \A c : a.p_parent = [m.p_parent EXCEPT ![c] = NULL] /\ m.p_parent = [x \in Pcb |-> m.p_parent[x]]
              => Ranked(a, rank)
BY KeyAssumption DEF Ranked

\* p is new, a child of prnt, and the last of the ready queue of its priority.
NewlyReady(a, m, p, prnt, prio) ==
  /\ p \in Pcb \ Live(m) /\ Live(a) = Live(m) \cup {p} /\ SameWaits(a, m)
  /\ a.p_parent = [m.p_parent EXCEPT ![p] = prnt]
  /\ a.p_semAdd = [m.p_semAdd EXCEPT ![p] = NULL]
  /\ a.p_prio = [m.p_prio EXCEPT ![p] = prio]
  /\ LET into == IF prio # 0 THEN high_ready_q ELSE low_ready_q
     IN  /\ InList(a, into) = Append(InList(m, into), p)
         /\ \A k \in {high_ready_q, low_ready_q} : into # k => InList(a, k) = InList(m, k)

\* Create_Process.
LEMMA CreateKeeps ==
  ASSUME NEW m, Inv(m), NEW rank, Ranked(m, rank), NEW prnt \in Live(m), ~list_empty(m, pcbFree_h),
         NEW prio, NEW a, a = Create(m, prnt, prio)
  PROVE  /\ Inv(a) /\ \E r : Ranked(a, r)
         /\ NewlyReady(a, m, First(m, pcbFree_h), prnt, prio)
<1> DEFINE p == First(m, pcbFree_h)
           al == allocPcb(m)
           ad == insertChild(al, prnt, p)
           child == [ad EXCEPT !.p_prio[p] = prio]
           q == ReadyQueue(child, p)
<1>1. a = insertProcQ(child, q, p)
  BY DEF Create
<1>2. /\ Inv(al) /\ LooseIn(al, p) /\ p \in Pcb \ Live(m) /\ Live(al) = Live(m) \cup {p}
      /\ al.p_parent = [m.p_parent EXCEPT ![p] = NULL]
      /\ al.p_prio = m.p_prio /\ al.p_semAdd = [m.p_semAdd EXCEPT ![p] = NULL]
      /\ SameReady(al, m) /\ SameWaits(al, m)
  <2> HIDE DEF p, al
  <2> QED
    BY AllocKeeps DEF p, al
<1>3. m.p_parent = [x \in Pcb |-> m.p_parent[x]] /\ TreeInv(m) /\ Live(m) \subseteq Pcb
  BY DEF Inv, Intact, IsMemory, Live
<1> HIDE DEF p, al
<1>4. al.p_parent[p] = NULL /\ prnt \in Live(al) /\ p # prnt
  BY <1>2, <1>3
<1>5. /\ Inv(ad) /\ LooseIn(ad, p) /\ Live(ad) = Live(al)
      /\ ad.p_parent = [al.p_parent EXCEPT ![p] = prnt]
      /\ ad.p_semAdd = al.p_semAdd /\ ad.p_prio = al.p_prio
      /\ SameReady(ad, al) /\ SameWaits(ad, al)
  <2>1. ad = insertChild(al, prnt, p)
    OBVIOUS
  <2> HIDE DEF ad
  <2>2. Inv(al) /\ LooseIn(al, p) /\ prnt \in Live(al) /\ p # prnt /\ al.p_parent[p] = NULL
    BY <1>2, <1>4
  <2> QED
    BY <2>1, <2>2, AdoptKeeps
<1> HIDE DEF ad
<1>21. child = WithPrio(ad, p, prio)
  BY DEF WithPrio
<1> HIDE DEF child
<1>6. /\ Inv(child) /\ LooseIn(child, p) /\ child.p_parent = ad.p_parent /\ Live(child) = Live(ad)
      /\ child.p_semAdd = ad.p_semAdd /\ child.p_prio = [ad.p_prio EXCEPT ![p] = prio]
      /\ SameReady(child, ad) /\ SameWaits(child, ad)
  <2>1. Inv(ad) /\ LooseIn(ad, p)
    BY <1>5
  <2> QED
    BY <1>21, <2>1, PrioKeeps
<1>20. child.p_prio[p] = prio /\ q = IF prio # 0 THEN high_ready_q ELSE low_ready_q
  <2>1. ad.p_prio = [x \in Pcb |-> ad.p_prio[x]]
    BY <1>5 DEF Inv, Intact, IsMemory
  <2>2. child.p_prio[p] = prio
    BY <1>2, <1>6, <2>1
  <2> QED
    BY <2>2 DEF ReadyQueue
<1> HIDE DEF q
<1>7. /\ Inv(a) /\ a.p_parent = child.p_parent /\ Live(a) = Live(child) /\ SameData(a, child)
      /\ InList(a, q) = Append(InList(child, q), p) /\ SameWaits(a, child)
      /\ \A k \in {high_ready_q, low_ready_q} : q # k => InList(a, k) = InList(child, k)
  <2>1. q \in {high_ready_q, low_ready_q} /\ (q = high_ready_q => child.p_prio[p] # 0)
    BY <1>20, HeadsDiffer
  <2>2. Inv(child) /\ LooseIn(child, p)
    BY <1>6
  <2> QED
    BY <1>1, <2>1, <2>2, ReadyKeeps
<1>9. NewlyReady(a, m, p, prnt, prio)
  <2>1. /\ Live(a) = Live(m) \cup {p} /\ p \in Pcb \ Live(m)
        /\ a.p_parent = [m.p_parent EXCEPT ![p] = prnt]
        /\ a.p_semAdd = [m.p_semAdd EXCEPT ![p] = NULL]
        /\ a.p_prio = [m.p_prio EXCEPT ![p] = prio]
    BY <1>2, <1>3, <1>5, <1>6, <1>7 DEF SameData
  <2>2. SameWaits(a, m) /\ SameReady(child, m)
    BY <1>2, <1>5, <1>6, <1>7 DEF SameWaits, SameReady
  <2>3. q \in {high_ready_q, low_ready_q}
    BY <1>20
  <2> QED
    BY <1>7, <1>20, <2>1, <2>2, <2>3 DEF NewlyReady, SameReady
<1> DEFINE r == [rank EXCEPT ![p] = rank[prnt] + 1]
<1>8. Ranked(a, r)
  <2>1. a.p_parent[p] = prnt /\ \A c \in Pcb : c # p => a.p_parent[c] = m.p_parent[c]
    BY <1>2, <1>3, <1>5, <1>6, <1>7
  <2>2. rank \in [Pcb -> Nat] /\ prnt \in Pcb /\ p \in Pcb
    BY <1>2, <1>3 DEF Ranked
  <2>3. r \in [Pcb -> Nat] /\ r[p] = rank[prnt] + 1 /\ \A c \in Pcb : c # p => r[c] = rank[c]
    BY <2>2
  <2> HIDE DEF r
  <2>4. ASSUME NEW c \in Pcb, a.p_parent[c] \in Pcb
        PROVE  r[a.p_parent[c]] < r[c]
    <3>1. CASE c = p
      BY <1>4, <2>1, <2>2, <2>3, <3>1
    <3>2. CASE c # p
      <4>1. a.p_parent[c] = m.p_parent[c] /\ m.p_parent[c] \in Pcb
        BY <2>1, <2>4, <3>2
      <4>2. m.p_parent[c] # p
        BY <1>2, <1>3, <4>1, KeyAssumption DEF TreeInv
      <4>3. rank[m.p_parent[c]] < rank[c]
        BY <4>1 DEF Ranked
      <4> QED
        BY <2>3, <3>2, <4>1, <4>2, <4>3
    <3> QED
      BY <3>1, <3>2
  <2> QED
    BY <2>3, <2>4 DEF Ranked
<1> QED
  BY <1>7, <1>8, <1>9 DEF p

\* Induction up to a bound, for a set.
LEMMA UpTo ==
  ASSUME NEW N \in Nat, NEW G, 0 \in G, \A k \in 1..N : k - 1 \in G => k \in G
  PROVE  0..N \subseteq G
<1> DEFINE Bad == {k \in 0..N : k \notin G}
<1>1. SUFFICES ASSUME Bad # {} PROVE FALSE
  OBVIOUS
<1>2. PICK k \in Bad : \A i \in Bad : k <= i
  <2>1. Bad \in SUBSET Nat
    OBVIOUS
  <2> HIDE DEF Bad
  <2> QED
    BY <1>1, <2>1, LeastNat
<1>3. k \in 1..N /\ k - 1 \in 0..N /\ ~(k <= k - 1)
  OBVIOUS
<1>4. k - 1 \in G
  BY <1>2, <1>3
<1> QED
  BY <1>3, <1>4

\* The stages of Exterminate, up to the n-th.
Unwound(m, p, g, n) ==
  /\ g[0] = [mem |-> m, calls |-> <<p>>]
  /\ \A k \in 1..n : g[k] = ExterminateStep(g[k - 1])

\* The recursion can be followed to any length.
LEMMA UnwindExists ==
  ASSUME NEW m, NEW p, NEW N \in Nat
  PROVE  \E g : Unwound(m, p, g, N)
<1> DEFINE G == {n \in 0..N : \E g : Unwound(m, p, g, n)}
<1>1. 0 \in G
  <2>1. Unwound(m, p, [i \in {0} |-> [mem |-> m, calls |-> <<p>>]], 0)
    BY DEF Unwound
  <2> QED
    BY <2>1
<1>2. ASSUME NEW n \in 1..N, n - 1 \in G
      PROVE  n \in G
  <2>1. PICK g : Unwound(m, p, g, n - 1)
    BY <1>2
  <2> DEFINE last == ExterminateStep(g[n - 1])
             h == [i \in 0..n |-> IF i = n THEN last ELSE g[i]]
  <2>2. h[0] = g[0] /\ h[n] = last /\ \A i \in 0..(n - 1) : h[i] = g[i]
    <3> HIDE DEF last
    <3> QED
      OBVIOUS
  <2> HIDE DEF h
  <2>3. ASSUME NEW k \in 1..n
        PROVE  h[k] = ExterminateStep(h[k - 1])
    <3>1. k - 1 \in 0..(n - 1) /\ h[k - 1] = g[k - 1]
      BY <2>2
    <3>2. CASE k = n
      BY <2>2, <3>1, <3>2
    <3>3. CASE k # n
      <4>1. h[k] = g[k] /\ k \in 1..(n - 1)
        BY <2>2, <3>3
      <4> QED
        BY <2>1, <3>1, <4>1 DEF Unwound
    <3> QED
      BY <3>2, <3>3
  <2>4. Unwound(m, p, h, n)
    BY <2>1, <2>2, <2>3 DEF Unwound
  <2> QED
    BY <2>4
<1> HIDE DEF G
<1>3. 0..N \subseteq G
  BY <1>1, <1>2, UpTo
<1>4. N \in G
  BY <1>3
<1> QED
  BY <1>4 DEF G

\* Exterminate is the last of such stages.
LEMMA UnwindUnfolds ==
  ASSUME NEW m, NEW p
  PROVE  \E f : Unwound(m, p, f, 2 * MaxProc) /\ Exterminate(m, p) = f[2 * MaxProc].mem
<1> DEFINE N == 2 * MaxProc
           Step(f) == [k \in 0..N |-> IF k = 0 THEN [mem |-> m, calls |-> <<p>>]
                                      ELSE ExterminateStep(f[k - 1])]
           after == CHOOSE f : f = Step(f)
<1>0. N \in Nat
  BY TableAssumption
<1>1. Exterminate(m, p) = after[N].mem
  BY Zenon DEF Exterminate
<1> HIDE DEF N
<1>2. PICK g : Unwound(m, p, g, N)
  BY <1>0, UnwindExists
<1> DEFINE h == [k \in 0..N |-> g[k]]
<1>3. h = Step(h)
  <2>1. ASSUME NEW k \in 0..N
        PROVE  h[k] = IF k = 0 THEN [mem |-> m, calls |-> <<p>>] ELSE ExterminateStep(h[k - 1])
    <3>1. CASE k = 0
      BY <1>2, <3>1 DEF Unwound
    <3>2. CASE k # 0
      <4>1. k \in 1..N /\ k - 1 \in 0..N
        BY <1>0, <3>2
      <4>2. h[k] = g[k] /\ h[k - 1] = g[k - 1]
        BY <4>1
      <4> HIDE DEF h
      <4> QED
        BY <1>2, <3>2, <4>1, <4>2 DEF Unwound
    <3> QED
      BY <3>1, <3>2
  <2>2. h = [k \in 0..N |-> h[k]]
    OBVIOUS
  <2> HIDE DEF h
  <2> QED
    BY <2>1, <2>2
<1>4. after = Step(after)
  <2> HIDE DEF Step
  <2> QED
    BY <1>3
<1> HIDE DEF after
<1>5. Unwound(m, p, after, N)
  <2>1. \A k \in 0..N : after[k] = Step(after)[k]
    <3> HIDE DEF Step
    <3> QED
      BY <1>4
  <2>2. after[0] = [mem |-> m, calls |-> <<p>>]
    BY <1>0, <2>1
  <2>3. ASSUME NEW k \in 1..N
        PROVE  after[k] = ExterminateStep(after[k - 1])
    <3>1. k \in 0..N /\ k # 0
      OBVIOUS
    <3> QED
      BY <2>1, <3>1
  <2> QED
    BY <2>2, <2>3 DEF Unwound
<1> QED
  BY <1>1, <1>5 DEF N

\* a is m with the processes of F in no queue; the rest of their records is left.
Unlisted(a, m, F) ==
  /\ a.p_semAdd = m.p_semAdd /\ a.p_prio = m.p_prio
  /\ \A k \in {high_ready_q, low_ready_q} : InList(a, k) = Only(InList(m, k), Pcb \ F)
  /\ \A t : Waiters(a, t) = Only(Waiters(m, t), Pcb \ F)

\* Processes are taken out of the queues one by one.
LEMMA UnlistedMore ==
  ASSUME NEW m, Inv(m), NEW b, NEW F, Unlisted(b, m, F), NEW a, NEW G, Unlisted(a, b, G)
  PROVE  Unlisted(a, m, F \cup G)
<1>1. (Pcb \ F) \cap (Pcb \ G) = Pcb \ (F \cup G)
  OBVIOUS
<1>2. ASSUME NEW q \in Seq(Pcb)
      PROVE  Only(Only(q, Pcb \ F), Pcb \ G) = Only(q, Pcb \ (F \cup G))
  BY <1>1, OnlyOnly
<1>3. ASSUME NEW k \in {high_ready_q, low_ready_q}
      PROVE  InList(a, k) = Only(InList(m, k), Pcb \ (F \cup G))
  <2>1. k \in InUse(Live(m)) /\ Intact(m, InUse(Live(m)))
    BY DEF InUse, Inv
  <2>2. InList(m, k) \in Seq(Pcb)
    BY <2>1, InListFacts
  <2> QED
    BY <1>2, <2>2 DEF Unlisted
<1>4. ASSUME NEW t
      PROVE  Waiters(a, t) = Only(Waiters(m, t), Pcb \ (F \cup G))
  <2>1. Waiters(m, t) \in Seq(Pcb)
    BY WaitersFacts
  <2> QED
    BY <1>2, <2>1 DEF Unlisted
<1> QED
  BY <1>3, <1>4 DEF Unlisted

\* The process of the innermost call, which has no child left, is freed.
LEMMA LeafFreed ==
  ASSUME NEW m, Inv(m), NEW p \in Live(m), Members(m, PChild(p)) = {},
         p \in Members(m, low_ready_q) => m.p_prio[p] = 0,
         NEW o, o = outChild(m, p),
         NEW r, r = outProcQ(o, ReadyQueue(m, p), p),
         NEW b, b = outBlocked(r, p),
         NEW a, a = freePcb(b, p)
  PROVE  /\ Inv(a) /\ Live(a) = Live(m) \ {p} /\ a.p_parent = [m.p_parent EXCEPT ![p] = NULL]
         /\ Unlisted(a, m, {p})
<1>1. /\ Inv(o) /\ Live(o) = Live(m) /\ o.p_parent = [m.p_parent EXCEPT ![p] = NULL]
      /\ o.p_prio = m.p_prio /\ o.p_semAdd = m.p_semAdd /\ SameReady(o, m) /\ SameWaits(o, m)
  BY OutChildKeeps
<1>2. /\ ReadyQueue(m, p) = ReadyQueue(o, p)
      /\ p \in Members(o, low_ready_q) => o.p_prio[p] = 0
  <2>1. InList(o, low_ready_q) = InList(m, low_ready_q)
    BY <1>1 DEF SameReady
  <2>2. /\ low_ready_q \in InUse(Live(m)) /\ low_ready_q \in InUse(Live(o))
        /\ Intact(m, InUse(Live(m))) /\ Intact(o, InUse(Live(o)))
    BY <1>1 DEF InUse, Inv
  <2>3. Members(o, low_ready_q) = Members(m, low_ready_q)
    BY <2>1, <2>2, InListFacts
  <2> QED
    BY <1>1, <2>3 DEF ReadyQueue
<1>3. /\ Inv(r) /\ Live(r) = Live(m) /\ SameData(r, o)
      /\ p \notin Members(r, high_ready_q) /\ p \notin Members(r, low_ready_q)
      /\ SameWaits(r, o)
      /\ \A k \in {high_ready_q, low_ready_q} : InList(r, k) = Only(InList(o, k), Pcb \ {p})
  BY <1>1, <1>2, OutProcQKeeps
<1>4. /\ Inv(b) /\ Live(b) = Live(m) /\ b.p_parent = r.p_parent
      /\ p \notin Members(b, high_ready_q) /\ p \notin Members(b, low_ready_q)
      /\ \A d \in Pcb : p \notin Members(b, SProcq(d))
      /\ b.p_semAdd = r.p_semAdd /\ b.p_prio = r.p_prio
      /\ SameReady(b, r) /\ \A t : Waiters(b, t) = Only(Waiters(r, t), Pcb \ {p})
  BY <1>3, OutBlockedKeeps
<1>5. LooseIn(b, p) /\ b.p_parent = [m.p_parent EXCEPT ![p] = NULL]
  BY <1>1, <1>3, <1>4 DEF LooseIn, SameData
<1>6. b.p_parent[p] = NULL /\ Members(b, PChild(p)) = {}
  <2>1. p \in Pcb /\ p # NULL /\ m.p_parent = [c \in Pcb |-> m.p_parent[c]]
    BY KeyAssumption DEF Live, Inv, Intact, IsMemory
  <2>2. \A c \in Pcb : m.p_parent[c] # p
    BY DEF Inv, TreeInv
  <2>3. \A c \in Pcb : b.p_parent[c] # p
    BY <1>5, <2>1, <2>2
  <2>4. Members(b, PChild(p)) = {c \in Pcb : b.p_parent[c] = p}
    BY <1>4 DEF Inv, TreeInv
  <2> QED
    BY <1>5, <2>1, <2>3, <2>4
<1>7. /\ Inv(a) /\ SameData(a, b) /\ Live(a) = Live(b) \ {p}
      /\ SameReady(a, b) /\ SameWaits(a, b)
  <2>1. Inv(b) /\ LooseIn(b, p)
    BY <1>4, <1>5
  <2> QED
    BY <1>6, <2>1, FreeKeeps
<1>8. Unlisted(a, m, {p})
  <2>1. a.p_semAdd = m.p_semAdd /\ a.p_prio = m.p_prio
    BY <1>1, <1>3, <1>4, <1>7 DEF SameData
  <2>2. \A k \in {high_ready_q, low_ready_q} : InList(a, k) = Only(InList(m, k), Pcb \ {p})
    BY <1>1, <1>3, <1>4, <1>7 DEF SameReady
  <2>3. \A t : Waiters(a, t) = Only(Waiters(m, t), Pcb \ {p})
    BY <1>1, <1>3, <1>4, <1>7, SMTT(30) DEF SameWaits
  <2> QED
    BY <2>1, <2>2, <2>3 DEF Unlisted
<1> QED
  BY <1>4, <1>5, <1>7, <1>8 DEF SameData

\* D has p and, with a process, its children; none of them is in the low queue
\* with a priority that is not.
Family(m, p, D) ==
  /\ D \subseteq Pcb /\ p \in D
  /\ \A c \in Pcb : m.p_parent[c] \in D => c \in D
  /\ \A q \in D : q \in Members(m, low_ready_q) => m.p_prio[q] = 0

\* Those Exterminate has freed at a stage e, and those it has been called for.
Freed(e, m)  == Live(m) \ Live(e.mem)
Called(e, m) == Freed(e, m) \cup Entries(e.calls)

\* A stage of Exterminate(p) on m.  The memory is in order; the calls that have
\* not returned are for live processes, that of p first and each for a
\* descendant of the one before; only members of the family are called for, and
\* they have left their parents, p when it is freed; the freed are in no queue.
Unwinding(e, m, p, D, rank) ==
  /\ Inv(e.mem) /\ Ranked(e.mem, rank) /\ Live(e.mem) \subseteq Live(m)
  /\ e.calls \in Seq(Pcb)
  /\ \A i \in DOMAIN e.calls : e.calls[i] \in Live(e.mem)
  /\ \A i, j \in DOMAIN e.calls : i < j => rank[e.calls[i]] < rank[e.calls[j]]
  /\ e.calls # <<>> => e.calls[1] = p
  /\ p \in Called(e, m) /\ Called(e, m) \subseteq D
  /\ \A c \in Pcb : e.mem.p_parent[c] =
        IF c \in Called(e, m) /\ (c = p => e.calls = <<>>) THEN NULL ELSE m.p_parent[c]
  /\ Unlisted(e.mem, m, Freed(e, m))

\* How many stages there have been, while there are calls.
Counted(e, m, k) == e.calls # <<>> => k = 2 * Cardinality(Freed(e, m)) + Len(e.calls) - 1

\* Sets of control blocks can be counted.
LEMMA PcbsFinite ==
  /\ IsFiniteSet(Pcb) /\ Cardinality(Pcb) = MaxProc
  /\ \A S \in SUBSET Pcb : IsFiniteSet(S) /\ Cardinality(S) \in Nat
<1>1. MaxProc \in Nat /\ MaxProc > 0 /\ 1 \in Int /\ MaxProc \in Int
  BY TableAssumption
<1>2. IsFiniteSet(1..MaxProc) /\ Cardinality(1..MaxProc) = IF 1 > MaxProc THEN 0 ELSE MaxProc - 1 + 1
  BY <1>1, FS_Interval
<1>3. IsFiniteSet(Pcb) /\ Cardinality(Pcb) = MaxProc
  BY <1>1, <1>2 DEF Pcb
<1> QED
  BY <1>3, FS_Subset, FS_CardinalityType

\* The calls that have not returned are for different processes.
LEMMA CallFacts ==
  ASSUME NEW e, NEW m, NEW p, NEW D, NEW rank, Unwinding(e, m, p, D, rank), e.calls # <<>>
  PROVE  LET n == Len(e.calls)
         IN  /\ n \in Nat \ {0} /\ DOMAIN e.calls = 1..n /\ e.calls[1] = p
             /\ Last(e.calls) = e.calls[n] /\ Last(e.calls) \in Live(e.mem) /\ Live(e.mem) \subseteq Pcb
             /\ \A i \in 1..n : rank[e.calls[i]] \in Nat /\ rank[e.calls[i]] <= rank[Last(e.calls)]
             /\ NoRepeats(e.calls)
<1> DEFINE n == Len(e.calls)
           s == e.calls
<1>1. /\ s \in Seq(Pcb) /\ s # <<>> /\ s[1] = p /\ rank \in [Pcb -> Nat]
      /\ \A i \in DOMAIN s : s[i] \in Live(e.mem)
      /\ \A i, j \in DOMAIN s : i < j => rank[s[i]] < rank[s[j]]
      /\ Live(e.mem) \subseteq Pcb
  BY DEF Unwinding, Ranked, Live
<1>2. n \in Nat \ {0} /\ DOMAIN s = 1..n /\ Last(s) = s[n] /\ n \in 1..n
  BY <1>1 DEF Last
<1> HIDE DEF n, s
<1>3. \A i \in 1..n : rank[s[i]] \in Nat
  BY <1>1, <1>2
<1>4. ASSUME NEW i \in 1..n
      PROVE  rank[s[i]] <= rank[s[n]]
  <2>1. CASE i = n
    BY <1>3, <2>1
  <2>2. CASE i # n
    <3>0. i < n
      BY <1>2, <2>2
    <3>1. rank[s[i]] < rank[s[n]]
      <4>1. \A k, j \in DOMAIN s : k < j => rank[s[k]] < rank[s[j]]
        BY <1>1
      <4> QED
        BY <1>2, <3>0, <4>1
    <3> QED
      BY <1>2, <1>3, <3>1
  <2> QED
    BY <2>1, <2>2
<1>5. ASSUME NEW i \in 1..n, NEW j \in 1..n, s[i] = s[j]
      PROVE  i = j
  <2>1. ~(i < j)
    <3>1. SUFFICES ASSUME i < j PROVE FALSE
      OBVIOUS
    <3>2. rank[s[i]] < rank[s[i]]
      BY <1>1, <1>2, <1>5, <3>1
    <3> QED
      BY <1>3, <3>2
  <2>2. ~(j < i)
    <3>1. SUFFICES ASSUME j < i PROVE FALSE
      OBVIOUS
    <3>2. rank[s[i]] < rank[s[i]]
      BY <1>1, <1>2, <1>5, <3>1
    <3> QED
      BY <1>3, <3>2
  <2> QED
    BY <1>2, <2>1, <2>2
<1>6. NoRepeats(s)
  BY <1>2, <1>5 DEF NoRepeats
<1> QED
  BY <1>1, <1>2, <1>3, <1>4, <1>6 DEF n, s

\* A child is taken out, and Exterminate called for it.
LEMMA CallStep ==
  ASSUME NEW m, Inv(m), NEW p, NEW D, Family(m, p, D), NEW rank, NEW e, Unwinding(e, m, p, D, rank),
         NEW k \in Nat, Counted(e, m, k), e.calls # <<>>, ~emptyChild(e.mem, Last(e.calls)),
         NEW z, z = ExterminateStep(e)
  PROVE  Unwinding(z, m, p, D, rank) /\ Counted(z, m, k + 1)
<1> DEFINE l == Last(e.calls)
           n == Len(e.calls)
           c == First(e.mem, PChild(l))
           a == removeChild(e.mem, l)
           s == Append(e.calls, c)
<1>1. z = [mem |-> a, calls |-> s]
  BY DEF ExterminateStep
<1>2. /\ Inv(e.mem) /\ Ranked(e.mem, rank) /\ Live(e.mem) \subseteq Live(m)
      /\ e.calls \in Seq(Pcb)
      /\ \A i \in DOMAIN e.calls : e.calls[i] \in Live(e.mem)
      /\ \A i, j \in DOMAIN e.calls : i < j => rank[e.calls[i]] < rank[e.calls[j]]
      /\ p \in Called(e, m) /\ Called(e, m) \subseteq D
      /\ \A x \in Pcb : e.mem.p_parent[x] =
            IF x \in Called(e, m) /\ x # p THEN NULL ELSE m.p_parent[x]
      /\ Unlisted(e.mem, m, Freed(e, m))
  BY DEF Unwinding
<1>3. /\ n \in Nat \ {0} /\ DOMAIN e.calls = 1..n /\ e.calls[1] = p
      /\ l = e.calls[n] /\ l \in Live(e.mem) /\ Live(e.mem) \subseteq Pcb
      /\ \A i \in 1..n : rank[e.calls[i]] \in Nat /\ rank[e.calls[i]] <= rank[l]
  BY CallFacts
<1>4. /\ Inv(a) /\ Live(a) = Live(e.mem) /\ c \in Live(e.mem) /\ e.mem.p_parent[c] = l
      /\ a.p_parent = [e.mem.p_parent EXCEPT ![c] = NULL]
      /\ a.p_semAdd = e.mem.p_semAdd /\ a.p_prio = e.mem.p_prio
      /\ SameReady(a, e.mem) /\ SameWaits(a, e.mem)
  <2>1. l \in Live(e.mem) /\ ~emptyChild(e.mem, l) /\ Inv(e.mem)
    BY <1>2, <1>3
  <2>2. \E x, y : x = c /\ y = a
    OBVIOUS
  <2> HIDE DEF l, c, a
  <2> QED
    BY <2>1, RemoveChildKeeps DEF c, a
<1> HIDE DEF l, n, c, a
<1>5. /\ e.mem.p_parent = [x \in Pcb |-> e.mem.p_parent[x]] /\ rank \in [Pcb -> Nat]
      /\ NULL \notin Pcb /\ c \in Pcb /\ l \in Pcb /\ rank[l] < rank[c]
  <2>1. e.mem.p_parent = [x \in Pcb |-> e.mem.p_parent[x]]
    BY <1>2 DEF Inv, Intact, IsMemory
  <2> QED
    BY <1>2, <1>3, <1>4, <2>1, KeyAssumption DEF Ranked
<1>6. Ranked(a, rank)
  BY <1>2, <1>4, <1>5, RankKeeps
<1>7. c # p /\ c \notin Called(e, m) /\ c \in D
  <2>1. rank[p] <= rank[l] /\ rank[p] \in Nat /\ rank[l] \in Nat /\ rank[c] \in Nat
    BY <1>3, <1>5
  <2>2. c # p
    BY <1>5, <2>1
  <2>3. c \notin Called(e, m) /\ m.p_parent[c] = l
    BY <1>2, <1>4, <1>5, <2>2
  <2>4. l \in Called(e, m)
    BY <1>3 DEF Called, Entries
  <2> QED
    BY <1>2, <1>5, <2>2, <2>3, <2>4 DEF Family
<1>8. /\ s \in Seq(Pcb) /\ Len(s) = n + 1 /\ DOMAIN s = 1..(n + 1) /\ s[n + 1] = c /\ s # <<>>
      /\ \A i \in 1..n : s[i] = e.calls[i]
      /\ Entries(s) = Entries(e.calls) \cup {c}
  <2>1. Entries(s) = Entries(e.calls) \cup {c}
    BY <1>2, <1>5, EntriesAppend
  <2> QED
    BY <1>2, <1>3, <1>5, <2>1 DEF n
<1> HIDE DEF s
<1>9. z.mem = a /\ z.calls = s /\ Freed(z, m) = Freed(e, m) /\ Called(z, m) = Called(e, m) \cup {c}
  BY <1>1, <1>4, <1>8 DEF Freed, Called
<1>10. ASSUME NEW i \in 1..(n + 1)
       PROVE  s[i] \in Live(a)
  <2>1. CASE i = n + 1
    BY <1>4, <1>8, <2>1
  <2>2. CASE i # n + 1
    <3>1. i \in 1..n
      BY <1>3, <2>2
    <3> QED
      BY <1>2, <1>3, <1>4, <1>8, <3>1
  <2> QED
    BY <2>1, <2>2
<1>11. ASSUME NEW i \in 1..(n + 1), NEW j \in 1..(n + 1), i < j
       PROVE  rank[s[i]] < rank[s[j]]
  <2>1. i \in 1..n /\ s[i] = e.calls[i]
    BY <1>3, <1>8, <1>11
  <2>2. CASE j \in 1..n
    BY <1>2, <1>3, <1>8, <1>11, <2>1, <2>2
  <2>3. CASE j = n + 1
    <3>1. rank[e.calls[i]] \in Nat /\ rank[e.calls[i]] <= rank[l] /\ rank[l] \in Nat /\ rank[c] \in Nat
      BY <1>3, <1>5, <2>1
    <3> QED
      BY <1>5, <1>8, <2>1, <2>3, <3>1
  <2> QED
    BY <1>3, <2>2, <2>3
<1>12. ASSUME NEW x \in Pcb
       PROVE  a.p_parent[x] = IF x \in Called(z, m) /\ (x = p => s = <<>>) THEN NULL ELSE m.p_parent[x]
  <2>1. CASE x = c
    <3>1. a.p_parent[x] = NULL
      BY <1>4, <1>5, <2>1
    <3> QED
      BY <1>7, <1>9, <2>1, <3>1
  <2>2. CASE x # c
    <3>1. a.p_parent[x] = e.mem.p_parent[x]
      BY <1>4, <1>5, <2>2
    <3> QED
      BY <1>2, <1>8, <1>9, <2>2, <3>1
  <2> QED
    BY <2>1, <2>2
<1>13. Unlisted(a, m, Freed(e, m))
  BY <1>2, <1>4 DEF Unlisted, SameReady, SameWaits
<1>14. s[1] = p
  BY <1>3, <1>8
<1>15. Unwinding(z, m, p, D, rank)
  BY <1>2, <1>4, <1>6, <1>7, <1>8, <1>9, <1>10, <1>11, <1>12, <1>13, <1>14 DEF Unwinding
<1>16. Counted(z, m, k + 1)
  <2>1. Cardinality(Freed(e, m)) \in Nat
    <3>1. Freed(e, m) \in SUBSET Pcb
      BY DEF Freed, Live
    <3> QED
      BY <3>1, PcbsFinite
  <2>2. k = 2 * Cardinality(Freed(e, m)) + n - 1
    BY DEF Counted, n
  <2> QED
    BY <1>3, <1>8, <1>9, <2>1, <2>2 DEF Counted
<1> QED
  BY <1>15, <1>16

\* The process that has no child left is freed, and its call returns.
LEMMA ReturnStep ==
  ASSUME NEW m, Inv(m), NEW p, NEW D, Family(m, p, D), NEW rank, NEW e, Unwinding(e, m, p, D, rank),
         NEW k \in Nat, Counted(e, m, k), e.calls # <<>>, emptyChild(e.mem, Last(e.calls)),
         NEW z, z = ExterminateStep(e)
  PROVE  Unwinding(z, m, p, D, rank) /\ Counted(z, m, k + 1)
<1> DEFINE l == Last(e.calls)
           n == Len(e.calls)
           o == outChild(e.mem, l)
           r == outProcQ(o, ReadyQueue(e.mem, l), l)
           b == outBlocked(r, l)
           a == freePcb(b, l)
           s == Front(e.calls)
<1>1. z = [mem |-> a, calls |-> s]
  BY DEF ExterminateStep
<1>2. /\ Inv(e.mem) /\ Ranked(e.mem, rank) /\ Live(e.mem) \subseteq Live(m)
      /\ e.calls \in Seq(Pcb)
      /\ \A i \in DOMAIN e.calls : e.calls[i] \in Live(e.mem)
      /\ \A i, j \in DOMAIN e.calls : i < j => rank[e.calls[i]] < rank[e.calls[j]]
      /\ p \in Called(e, m) /\ Called(e, m) \subseteq D
      /\ \A x \in Pcb : e.mem.p_parent[x] =
            IF x \in Called(e, m) /\ x # p THEN NULL ELSE m.p_parent[x]
      /\ Unlisted(e.mem, m, Freed(e, m))
  BY DEF Unwinding
<1>3. /\ n \in Nat \ {0} /\ DOMAIN e.calls = 1..n /\ e.calls[1] = p
      /\ l = e.calls[n] /\ l \in Live(e.mem) /\ Live(e.mem) \subseteq Pcb
      /\ NoRepeats(e.calls)
  BY CallFacts
<1>4. Members(e.mem, PChild(l)) = {}
  <2>1. l \in Live(e.mem) /\ emptyChild(e.mem, l) /\ Intact(e.mem, InUse(Live(e.mem)))
    BY <1>2, <1>3 DEF Inv
  <2>2. PChild(l) \in InUse(Live(e.mem))
    BY <2>1 DEF InUse
  <2> HIDE DEF l
  <2> QED
    BY <2>1, <2>2, MembersFacts DEF emptyChild
<1>5. l \in Called(e, m) /\ l \in D
  BY <1>2, <1>3 DEF Called, Entries
<1>6. l \in Members(e.mem, low_ready_q) => e.mem.p_prio[l] = 0
  <2>1. /\ low_ready_q \in InUse(Live(m)) /\ low_ready_q \in InUse(Live(e.mem))
        /\ Intact(m, InUse(Live(m))) /\ Intact(e.mem, InUse(Live(e.mem)))
    BY <1>2 DEF InUse, Inv
  <2>2. InList(m, low_ready_q) \in Seq(Pcb) /\ Entries(InList(m, low_ready_q)) = Members(m, low_ready_q)
    BY <2>1, InListFacts
  <2>3. Entries(InList(e.mem, low_ready_q)) = Members(e.mem, low_ready_q)
    BY <2>1, InListFacts
  <2>4. Entries(InList(e.mem, low_ready_q)) = Entries(InList(m, low_ready_q)) \cap (Pcb \ Freed(e, m))
    <3>1. InList(e.mem, low_ready_q) = Only(InList(m, low_ready_q), Pcb \ Freed(e, m))
      BY <1>2 DEF Unlisted
    <3> QED
      BY <2>2, <3>1, OnlyEntries
  <2> HIDE DEF l
  <2> QED
    BY <1>2, <1>5, <2>2, <2>3, <2>4 DEF Family, Unlisted
<1>7. /\ Inv(a) /\ Live(a) = Live(e.mem) \ {l} /\ a.p_parent = [e.mem.p_parent EXCEPT ![l] = NULL]
      /\ Unlisted(a, e.mem, {l})
  <2>1. Inv(e.mem) /\ l \in Live(e.mem)
    BY <1>2, <1>3
  <2> HIDE DEF l
  <2> QED
    BY <1>4, <1>6, <2>1, LeafFreed
<1> HIDE DEF l, n, a
<1>8. /\ e.mem.p_parent = [x \in Pcb |-> e.mem.p_parent[x]] /\ l \in Pcb /\ l \in Live(m)
  BY <1>2, <1>3 DEF Inv, Intact, IsMemory
<1>9. Ranked(a, rank)
  BY <1>2, <1>7, <1>8, RankKeeps
<1>10. /\ s \in Seq(Pcb) /\ Len(s) = n - 1 /\ DOMAIN s = 1..(n - 1) /\ (s = <<>> <=> n = 1)
       /\ \A i \in 1..(n - 1) : s[i] = e.calls[i]
  <2>1. s = SubSeq(e.calls, 1, n - 1) /\ n - 1 \in 0..n /\ Len(e.calls) = n
    BY <1>3 DEF Front, n
  <2> HIDE DEF s
  <2>2. /\ s \in Seq(Pcb) /\ Len(s) = n - 1
        /\ \A i \in 1..(n - 1) : s[i] = e.calls[i]
    BY <1>2, <1>3, <2>1
  <2>3. DOMAIN s = 1..(n - 1)
    BY <2>2
  <2>4. s = <<>> <=> Len(s) = 0
    <3>1. s \in Seq(Pcb) /\ <<>> \in Seq(Pcb) /\ Len(<<>>) = 0
      BY <2>2
    <3> QED
      BY <3>1, SeqEqual
  <2> QED
    BY <1>3, <2>2, <2>3, <2>4
<1> HIDE DEF s
<1>11. ASSUME NEW i \in 1..n
       PROVE  e.calls[i] = l <=> i = n
  <2>1. n \in 1..n
    BY <1>3
  <2> QED
    BY <1>3, <2>1 DEF NoRepeats
<1>12. Entries(s) = Entries(e.calls) \ {l}
  <2>1. \A i \in 1..(n - 1) : i \in 1..n /\ i # n
    BY <1>3
  <2>2. \A i \in 1..n : i # n => i \in 1..(n - 1)
    BY <1>3
  <2>3. Entries(s) = {e.calls[i] : i \in 1..(n - 1)} /\ Entries(e.calls) = {e.calls[i] : i \in 1..n}
    <3>1. DOMAIN s = 1..(n - 1) /\ DOMAIN e.calls = 1..n /\ \A i \in 1..(n - 1) : s[i] = e.calls[i]
      BY <1>3, <1>10
    <3>2. Entries(s) = {s[i] : i \in 1..(n - 1)}
      BY <3>1 DEF Entries
    <3>3. {s[i] : i \in 1..(n - 1)} = {e.calls[i] : i \in 1..(n - 1)}
      BY <3>1
    <3> QED
      BY <3>1, <3>2, <3>3 DEF Entries
  <2> QED
    BY <1>11, <2>1, <2>2, <2>3
<1>13. /\ z.mem = a /\ z.calls = s
       /\ Freed(z, m) = Freed(e, m) \cup {l} /\ l \notin Freed(e, m)
       /\ Called(z, m) = Called(e, m)
  <2>1. z.mem = a /\ z.calls = s
    BY <1>1
  <2>2. Freed(z, m) = Freed(e, m) \cup {l} /\ l \notin Freed(e, m)
    BY <1>3, <1>7, <1>8, <2>1 DEF Freed
  <2>3. l \in Entries(e.calls)
    BY <1>3 DEF Entries
  <2> QED
    BY <1>12, <2>1, <2>2, <2>3 DEF Called
<1>14. Unlisted(a, m, Freed(z, m))
  BY <1>2, <1>7, <1>13, UnlistedMore
<1>15. \A i \in 1..(n - 1) : s[i] \in Live(a)
  <2> SUFFICES ASSUME NEW i \in 1..(n - 1) PROVE s[i] \in Live(a)
    OBVIOUS
  <2>1. i \in 1..n /\ i # n
    BY <1>3
  <2>2. e.calls[i] # l /\ e.calls[i] \in Live(e.mem)
    BY <1>2, <1>3, <1>11, <2>1
  <2> QED
    BY <1>7, <1>10, <2>2
<1>16. \A i, j \in 1..(n - 1) : i < j => rank[s[i]] < rank[s[j]]
  <2> SUFFICES ASSUME NEW i \in 1..(n - 1), NEW j \in 1..(n - 1), i < j
               PROVE  rank[s[i]] < rank[s[j]]
    OBVIOUS
  <2>1. i \in DOMAIN e.calls /\ j \in DOMAIN e.calls
    BY <1>3
  <2>2. rank[e.calls[i]] < rank[e.calls[j]]
    BY <1>2, <2>1
  <2> QED
    BY <1>10, <2>2
<1>17. l = p <=> n = 1
  BY <1>3, <1>11
<1>18. ASSUME NEW x \in Pcb
       PROVE  a.p_parent[x] = IF x \in Called(z, m) /\ (x = p => s = <<>>) THEN NULL ELSE m.p_parent[x]
  <2>1. CASE x = l
    <3>1. a.p_parent[x] = NULL
      BY <1>7, <1>8, <2>1
    <3> QED
      BY <1>5, <1>10, <1>13, <1>17, <2>1, <3>1
  <2>2. CASE x # l
    <3>1. a.p_parent[x] = e.mem.p_parent[x]
      BY <1>7, <1>8, <2>2
    <3>2. a.p_parent[x] = IF x \in Called(e, m) /\ x # p THEN NULL ELSE m.p_parent[x]
      BY <1>2, <3>1
    <3>3. x = p => ~(s = <<>>)
      BY <1>10, <1>17, <2>2
    <3> QED
      BY <1>13, <3>2, <3>3
  <2> QED
    BY <2>1, <2>2
<1>19. s # <<>> => s[1] = p
  BY <1>3, <1>10
<1>20. Unwinding(z, m, p, D, rank)
  <2>1. Live(a) \subseteq Live(m) /\ p \in Called(z, m) /\ Called(z, m) \subseteq D
    BY <1>2, <1>7, <1>13
  <2> QED
    <3>1. DOMAIN s = 1..(n - 1)
      BY <1>10
    <3>2. /\ \A i \in DOMAIN s : s[i] \in Live(a)
          /\ \A i, j \in DOMAIN s : i < j => rank[s[i]] < rank[s[j]]
      BY <1>15, <1>16, <3>1
    <3>3. Inv(a) /\ s \in Seq(Pcb) /\ z.mem = a /\ z.calls = s
      BY <1>7, <1>10, <1>13
    <3> QED
      BY <1>9, <1>14, <1>18, <1>19, <2>1, <3>2, <3>3 DEF Unwinding
<1>21. Counted(z, m, k + 1)
  <2>1. /\ Cardinality(Freed(e, m)) \in Nat
        /\ Cardinality(Freed(e, m) \cup {l}) = Cardinality(Freed(e, m)) + 1
    <3>1. Freed(e, m) \in SUBSET Pcb
      BY DEF Freed, Live
    <3>2. IsFiniteSet(Freed(e, m)) /\ Cardinality(Freed(e, m)) \in Nat
      BY <3>1, PcbsFinite
    <3> QED
      BY <1>13, <3>2, FS_AddElement
  <2>2. k = 2 * Cardinality(Freed(e, m)) + n - 1
    BY DEF Counted, n
  <2>3. /\ Cardinality(Freed(z, m)) = Cardinality(Freed(e, m)) + 1
        /\ Len(z.calls) = n - 1 /\ n \in Nat
    BY <1>3, <1>10, <1>13, <2>1
  <2> DEFINE c == Cardinality(Freed(e, m))
  <2>4. c \in Nat /\ k = 2 * c + n - 1
    BY <2>1, <2>2
  <2> HIDE DEF c
  <2>5. k + 1 = 2 * (c + 1) + (n - 1) - 1
    BY <2>3, <2>4
  <2> QED
    BY <2>3, <2>5 DEF Counted, c
<1> QED
  BY <1>20, <1>21

\* With as many stages as twice the processes there are no calls left.
LEMMA AllReturned ==
  ASSUME NEW m, NEW p, NEW D, NEW rank, NEW e, Unwinding(e, m, p, D, rank), Counted(e, m, 2 * MaxProc)
  PROVE  e.calls = <<>>
<1> SUFFICES ASSUME e.calls # <<>> PROVE FALSE
  OBVIOUS
<1> DEFINE n == Len(e.calls)
           F == Freed(e, m)
           C == Entries(e.calls)
<1>1. n \in Nat \ {0} /\ NoRepeats(e.calls) /\ 2 * MaxProc = 2 * Cardinality(F) + n - 1 /\ MaxProc \in Nat
  BY CallFacts, TableAssumption DEF Counted
<1>2. e.calls \in Seq(Pcb) /\ C \subseteq Live(e.mem)
  BY DEF Unwinding, Entries
<1>3. IsFiniteSet(C) /\ Cardinality(C) = n
  BY <1>1, <1>2, EntriesCount
<1>4. IsFiniteSet(Pcb) /\ Cardinality(Pcb) = MaxProc
  BY PcbsFinite
<1>5. F \cap C = {} /\ F \cup C \subseteq Pcb /\ F \subseteq Pcb
  BY <1>2 DEF Freed, Live
<1> HIDE DEF n, F, C
<1>6. IsFiniteSet(F) /\ Cardinality(F) \in Nat
  BY <1>4, <1>5, FS_Subset, FS_CardinalityType
<1>7. Cardinality(F \cup C) = Cardinality(F) + n
  <2>1. Cardinality(F \cap C) = 0
    BY <1>5, FS_EmptySet
  <2>2. Cardinality(F \cup C) = Cardinality(F) + Cardinality(C) - Cardinality(F \cap C)
    BY <1>3, <1>6, FS_Union
  <2> DEFINE c == Cardinality(F)
             u == Cardinality(F \cup C)
  <2>3. u = c + n - 0 /\ c \in Nat /\ n \in Nat
    BY <1>1, <1>3, <1>6, <2>1, <2>2
  <2> HIDE DEF c, u
  <2>4. u = c + n
    BY <2>3
  <2> QED
    BY <2>4 DEF c, u
<1>8. Cardinality(F \cup C) <= MaxProc
  BY <1>4, <1>5, FS_Subset
<1> QED
  BY <1>1, <1>6, <1>7, <1>8

\* The progeny of a process is a family of it, and part of every other.
LEMMA ProgenyFamily ==
  ASSUME NEW m, NEW p \in Pcb
  PROVE  /\ p \in Progeny(m, p) /\ Progeny(m, p) \subseteq Pcb
         /\ \A c \in Pcb : m.p_parent[c] \in Progeny(m, p) => c \in Progeny(m, p)
         /\ \A D \in SUBSET Pcb :
              p \in D /\ (\A c \in Pcb : m.p_parent[c] \in D => c \in D) => Progeny(m, p) \subseteq D
<1>1. p \in Progeny(m, p) /\ Progeny(m, p) \subseteq Pcb
  BY DEF Progeny
<1>2. ASSUME NEW c \in Pcb, m.p_parent[c] \in Progeny(m, p)
      PROVE  c \in Progeny(m, p)
  <2> SUFFICES ASSUME NEW S \in SUBSET Pcb, p \in S, \A x \in Pcb : m.p_parent[x] \in S => x \in S
               PROVE  c \in S
    BY DEF Progeny
  <2>1. m.p_parent[c] \in S
    BY <1>2 DEF Progeny
  <2> QED
    BY <2>1
<1>3. ASSUME NEW D \in SUBSET Pcb, p \in D, \A c \in Pcb : m.p_parent[c] \in D => c \in D
      PROVE  Progeny(m, p) \subseteq D
  BY <1>3 DEF Progeny
<1> QED
  BY <1>1, <1>2, <1>3

\* The processes of F are free, in no tree and in no queue; nothing else differs.
Exterminated(a, m, F) ==
  /\ Live(a) = Live(m) \ F /\ F \subseteq Live(m)
  /\ \A c \in Pcb : a.p_parent[c] = IF c \in F THEN NULL ELSE m.p_parent[c]
  /\ Unlisted(a, m, F)

\* Terminate_Process: the process and its progeny, and nobody else.
LEMMA ExterminateKeeps ==
  ASSUME NEW m, Inv(m), NEW rank, Ranked(m, rank), NEW p \in Live(m),
         \A q \in Misplaced(m) : q \notin Progeny(m, p), NEW a, a = Exterminate(m, p)
  PROVE  Inv(a) /\ Ranked(a, rank) /\ Exterminated(a, m, Progeny(m, p))
<1> DEFINE N == 2 * MaxProc
           D == Progeny(m, p)
<1>0. N \in Nat
  BY TableAssumption
<1>1. PICK f : Unwound(m, p, f, N) /\ Exterminate(m, p) = f[N].mem
  BY UnwindUnfolds
<1>2. p \in Pcb /\ Live(m) \subseteq Pcb
  BY DEF Live
<1>3. Family(m, p, D)
  <2>1. \A q \in D : q \in Members(m, low_ready_q) => m.p_prio[q] = 0
    BY DEF Misplaced
  <2> QED
    BY <1>2, <2>1, ProgenyFamily DEF Family
<1> HIDE DEF N, D
<1> DEFINE G == {k \in 0..N : Unwinding(f[k], m, p, D, rank) /\ Counted(f[k], m, k)}
<1>4. 0 \in G
  <2> DEFINE e == [mem |-> m, calls |-> <<p>>]
  <2>1. f[0] = e
    BY <1>1 DEF Unwound
  <2>2. /\ e.mem = m /\ e.calls = <<p>> /\ e.calls \in Seq(Pcb) /\ Len(e.calls) = 1 /\ DOMAIN e.calls = {1}
        /\ e.calls[1] = p /\ e.calls # <<>>
    BY <1>2
  <2>3. Freed(e, m) = {} /\ Called(e, m) = {p}
    <3>1. Entries(<<p>>) = {p}
      BY <1>2, EntriesOfOne
    <3> QED
      BY <3>1 DEF Freed, Called
  <2>4. Unlisted(m, m, {})
    <3>1. \A k \in {high_ready_q, low_ready_q} : InList(m, k) \in Seq(Pcb)
      <4>1. {high_ready_q, low_ready_q} \subseteq InUse(Live(m)) /\ Intact(m, InUse(Live(m)))
        BY DEF InUse, Inv
      <4> QED
        BY <4>1, InListFacts
    <3>2. \A t : Waiters(m, t) \in Seq(Pcb)
      BY WaitersFacts
    <3>3. \A q \in Seq(Pcb) : Only(q, Pcb \ {}) = q
      BY OnlyAll
    <3> QED
      BY <3>1, <3>2, <3>3 DEF Unlisted
  <2>5. p \in D /\ \A c \in Pcb : m.p_parent[c] = IF c \in {p} /\ c # p THEN NULL ELSE m.p_parent[c]
    BY <1>3 DEF Family
  <2> HIDE DEF e
  <2>6. Unwinding(e, m, p, D, rank)
    BY <2>2, <2>3, <2>4, <2>5 DEF Unwinding
  <2>7. Counted(e, m, 0)
    BY <2>2, <2>3, FS_EmptySet DEF Counted
  <2> QED
    BY <1>0, <2>1, <2>6, <2>7
<1>5. ASSUME NEW k \in 1..N, k - 1 \in G
      PROVE  k \in G
  <2> DEFINE e == f[k - 1]
  <2>1. f[k] = ExterminateStep(e)
    BY <1>1 DEF Unwound
  <2>2. Unwinding(e, m, p, D, rank) /\ Counted(e, m, k - 1) /\ k - 1 \in Nat /\ (k - 1) + 1 = k
    BY <1>0, <1>5
  <2> HIDE DEF e
  <2>3. CASE e.calls = <<>>
    <3>1. f[k] = e
      BY <2>1, <2>3 DEF ExterminateStep
    <3> QED
      BY <2>2, <2>3, <3>1 DEF Counted
  <2>4. CASE e.calls # <<>> /\ ~emptyChild(e.mem, Last(e.calls))
    <3>1. Unwinding(f[k], m, p, D, rank) /\ Counted(f[k], m, (k - 1) + 1)
      BY <1>3, <2>1, <2>2, <2>4, CallStep
    <3> QED
      BY <2>2, <3>1
  <2>5. CASE e.calls # <<>> /\ emptyChild(e.mem, Last(e.calls))
    <3>1. Unwinding(f[k], m, p, D, rank) /\ Counted(f[k], m, (k - 1) + 1)
      BY <1>3, <2>1, <2>2, <2>5, ReturnStep
    <3> QED
      BY <2>2, <3>1
  <2> QED
    BY <2>3, <2>4, <2>5
<1> HIDE DEF G
<1>6. N \in G
  <2>1. 0..N \subseteq G
    BY <1>0, <1>4, <1>5, UpTo
  <2> QED
    BY <1>0, <2>1
<1> DEFINE e == f[N]
<1>7. Unwinding(e, m, p, D, rank) /\ Counted(e, m, N) /\ e.mem = a
  BY <1>1, <1>6 DEF G
<1> HIDE DEF e
<1>8. e.calls = <<>>
  BY <1>7, AllReturned DEF N
<1>9. Called(e, m) = Freed(e, m)
  BY <1>8, EntriesOfNothing DEF Called
<1> DEFINE F == Freed(e, m)
<1>10. /\ Inv(a) /\ Ranked(a, rank) /\ Live(a) \subseteq Live(m)
       /\ p \in F /\ F \subseteq D /\ Unlisted(a, m, F)
       /\ \A c \in Pcb : a.p_parent[c] = IF c \in F THEN NULL ELSE m.p_parent[c]
  BY <1>7, <1>8, <1>9 DEF Unwinding
<1>11. F = Live(m) \ Live(a)
  BY <1>7 DEF Freed
<1> HIDE DEF F
<1>12. D \subseteq F
  <2>1. ASSUME NEW c \in Pcb, m.p_parent[c] \in F, c \notin F
        PROVE  FALSE
    <3>1. a.p_parent[c] = m.p_parent[c]
      BY <1>10, <2>1
    <3>2. a.p_parent[c] \in Live(a) \cup {NULL, Zero}
      BY <1>10 DEF Inv, TreeInv
    <3>3. NULL \notin Pcb /\ Zero \notin Pcb
      BY KeyAssumption
    <3> QED
      BY <1>2, <1>11, <2>1, <3>1, <3>2, <3>3
  <2>2. F \in SUBSET Pcb
    BY <1>2, <1>11
  <2> QED
    BY <1>2, <1>10, <2>1, <2>2, ProgenyFamily DEF D
<1>13. F = D
  BY <1>10, <1>12
<1> QED
  BY <1>10, <1>11, <1>13 DEF Exterminated, D

-----------------------------------------------------------------------------
(* Initialisation.                                                         *)

\* The stages of initPcbs, up to the n-th.
PcbStages(m, g, n) ==
  /\ g[0] = INIT_LIST_HEAD(m, pcbFree_h)
  /\ \A i \in 1..n : g[i] = list_add(g[i - 1], PList(i), pcbFree_h)

\* The recursion can be followed to any length.
LEMMA PcbStagesExist ==
  ASSUME NEW m, NEW N \in Nat
  PROVE  \E g : PcbStages(m, g, N)
<1> DEFINE G == {n \in 0..N : \E g : PcbStages(m, g, n)}
<1>1. 0 \in G
  <2>1. PcbStages(m, [i \in {0} |-> INIT_LIST_HEAD(m, pcbFree_h)], 0)
    BY DEF PcbStages
  <2> QED
    BY <2>1
<1>2. ASSUME NEW n \in 1..N, n - 1 \in G
      PROVE  n \in G
  <2>1. PICK g : PcbStages(m, g, n - 1)
    BY <1>2
  <2> DEFINE last == list_add(g[n - 1], PList(n), pcbFree_h)
             h == [i \in 0..n |-> IF i = n THEN last ELSE g[i]]
  <2>2. h[0] = g[0] /\ h[n] = last /\ \A i \in 0..(n - 1) : h[i] = g[i]
    <3> HIDE DEF last
    <3> QED
      OBVIOUS
  <2> HIDE DEF h
  <2>3. ASSUME NEW k \in 1..n
        PROVE  h[k] = list_add(h[k - 1], PList(k), pcbFree_h)
    <3>1. k - 1 \in 0..(n - 1) /\ h[k - 1] = g[k - 1]
      BY <2>2
    <3>2. CASE k = n
      BY <2>2, <3>1, <3>2
    <3>3. CASE k # n
      <4>1. h[k] = g[k] /\ k \in 1..(n - 1)
        BY <2>2, <3>3
      <4> QED
        BY <2>1, <3>1, <4>1 DEF PcbStages
    <3> QED
      BY <3>2, <3>3
  <2>4. PcbStages(m, h, n)
    BY <2>1, <2>2, <2>3 DEF PcbStages
  <2> QED
    BY <2>4
<1> HIDE DEF G
<1>3. 0..N \subseteq G
  BY <1>1, <1>2, UpTo
<1>4. N \in G
  BY <1>3
<1> QED
  BY <1>4 DEF G

\* initPcbs is the last of such stages.
LEMMA PcbStagesUnfold ==
  ASSUME NEW m
  PROVE  \E f : PcbStages(m, f, MaxProc) /\ initPcbs(m) = f[MaxProc]
<1> DEFINE Step(f) == [i \in 0..MaxProc |-> IF i = 0 THEN INIT_LIST_HEAD(m, pcbFree_h)
                                            ELSE list_add(f[i - 1], PList(i), pcbFree_h)]
           table == CHOOSE f : f = Step(f)
<1>0. MaxProc \in Nat
  BY TableAssumption
<1>1. initPcbs(m) = table[MaxProc]
  BY Zenon DEF initPcbs
<1>2. PICK g : PcbStages(m, g, MaxProc)
  BY <1>0, PcbStagesExist
<1> DEFINE h == [k \in 0..MaxProc |-> g[k]]
<1>3. h = Step(h)
  <2>1. ASSUME NEW k \in 0..MaxProc
        PROVE  h[k] = IF k = 0 THEN INIT_LIST_HEAD(m, pcbFree_h) ELSE list_add(h[k - 1], PList(k), pcbFree_h)
    <3>1. CASE k = 0
      BY <1>2, <3>1 DEF PcbStages
    <3>2. CASE k # 0
      <4>1. k \in 1..MaxProc /\ k - 1 \in 0..MaxProc
        BY <1>0, <3>2
      <4>2. h[k] = g[k] /\ h[k - 1] = g[k - 1]
        BY <4>1
      <4> HIDE DEF h
      <4> QED
        BY <1>2, <3>2, <4>1, <4>2 DEF PcbStages
    <3> QED
      BY <3>1, <3>2
  <2>2. h = [k \in 0..MaxProc |-> h[k]]
    OBVIOUS
  <2> HIDE DEF h
  <2> QED
    BY <2>1, <2>2
<1>4. table = Step(table)
  <2> HIDE DEF Step
  <2> QED
    BY <1>3
<1> HIDE DEF table
<1>5. PcbStages(m, table, MaxProc)
  <2>1. \A k \in 0..MaxProc : table[k] = Step(table)[k]
    <3> HIDE DEF Step
    <3> QED
      BY <1>4
  <2>2. table[0] = INIT_LIST_HEAD(m, pcbFree_h)
    BY <1>0, <2>1
  <2>3. ASSUME NEW k \in 1..MaxProc
        PROVE  table[k] = list_add(table[k - 1], PList(k), pcbFree_h)
    <3>1. k \in 0..MaxProc /\ k # 0
      OBVIOUS
    <3> QED
      BY <2>1, <3>1
  <2> QED
    BY <2>2, <2>3 DEF PcbStages
<1> QED
  BY <1>1, <1>5

\* What initASL does to a descriptor.
SemdInit(m, i) ==
  INIT_LIST_HEAD([list_add(m, SLink(i), semdFree_h) EXCEPT !.s_key[i] = NULL], SProcq(i))

\* The stages of initASL, up to the n-th.
SemdStages(m, g, n) ==
  /\ g[0] = m
  /\ \A i \in 1..n : g[i] = SemdInit(g[i - 1], i)

\* The recursion can be followed to any length.
LEMMA SemdStagesExist ==
  ASSUME NEW m, NEW N \in Nat
  PROVE  \E g : SemdStages(m, g, N)
<1> DEFINE G == {n \in 0..N : \E g : SemdStages(m, g, n)}
<1>1. 0 \in G
  <2>1. SemdStages(m, [i \in {0} |-> m], 0)
    BY DEF SemdStages
  <2> QED
    BY <2>1
<1>2. ASSUME NEW n \in 1..N, n - 1 \in G
      PROVE  n \in G
  <2>1. PICK g : SemdStages(m, g, n - 1)
    BY <1>2
  <2> DEFINE last == SemdInit(g[n - 1], n)
             h == [i \in 0..n |-> IF i = n THEN last ELSE g[i]]
  <2>2. h[0] = g[0] /\ h[n] = last /\ \A i \in 0..(n - 1) : h[i] = g[i]
    <3> HIDE DEF last
    <3> QED
      OBVIOUS
  <2> HIDE DEF h
  <2>3. ASSUME NEW k \in 1..n
        PROVE  h[k] = SemdInit(h[k - 1], k)
    <3>1. k - 1 \in 0..(n - 1) /\ h[k - 1] = g[k - 1]
      BY <2>2
    <3>2. CASE k = n
      BY <2>2, <3>1, <3>2
    <3>3. CASE k # n
      <4>1. h[k] = g[k] /\ k \in 1..(n - 1)
        BY <2>2, <3>3
      <4> QED
        BY <2>1, <3>1, <4>1 DEF SemdStages
    <3> QED
      BY <3>2, <3>3
  <2>4. SemdStages(m, h, n)
    BY <2>1, <2>2, <2>3 DEF SemdStages
  <2> QED
    BY <2>4
<1> HIDE DEF G
<1>3. 0..N \subseteq G
  BY <1>1, <1>2, UpTo
<1>4. N \in G
  BY <1>3
<1> QED
  BY <1>4 DEF G

\* initASL is the last of such stages.
LEMMA SemdStagesUnfold ==
  ASSUME NEW m
  PROVE  \E f : SemdStages(m, f, MaxProc) /\ initASL(m) = f[MaxProc]
<1> DEFINE Step(f) == [i \in 0..MaxProc |-> IF i = 0 THEN m
                                            ELSE SemdInit(f[i - 1], i)]
           table == CHOOSE f : f = Step(f)
<1>0. MaxProc \in Nat
  BY TableAssumption
<1>1. initASL(m) = table[MaxProc]
  BY Zenon DEF initASL, SemdInit
<1>2. PICK g : SemdStages(m, g, MaxProc)
  BY <1>0, SemdStagesExist
<1> DEFINE h == [k \in 0..MaxProc |-> g[k]]
<1>3. h = Step(h)
  <2>1. ASSUME NEW k \in 0..MaxProc
        PROVE  h[k] = IF k = 0 THEN m ELSE SemdInit(h[k - 1], k)
    <3>1. CASE k = 0
      BY <1>2, <3>1 DEF SemdStages
    <3>2. CASE k # 0
      <4>1. k \in 1..MaxProc /\ k - 1 \in 0..MaxProc
        BY <1>0, <3>2
      <4>2. h[k] = g[k] /\ h[k - 1] = g[k - 1]
        BY <4>1
      <4> HIDE DEF h
      <4> QED
        BY <1>2, <3>2, <4>1, <4>2 DEF SemdStages
    <3> QED
      BY <3>1, <3>2
  <2>2. h = [k \in 0..MaxProc |-> h[k]]
    OBVIOUS
  <2> HIDE DEF h
  <2> QED
    BY <2>1, <2>2
<1>4. table = Step(table)
  <2> HIDE DEF Step
  <2> QED
    BY <1>3
<1> HIDE DEF table
<1>5. SemdStages(m, table, MaxProc)
  <2>1. \A k \in 0..MaxProc : table[k] = Step(table)[k]
    <3> HIDE DEF Step
    <3> QED
      BY <1>4
  <2>2. table[0] = m
    BY <1>0, <2>1
  <2>3. ASSUME NEW k \in 1..MaxProc
        PROVE  table[k] = SemdInit(table[k - 1], k)
    <3>1. k \in 0..MaxProc /\ k # 0
      OBVIOUS
    <3> QED
      BY <2>1, <3>1
  <2> QED
    BY <2>2, <2>3 DEF SemdStages
<1> QED
  BY <1>1, <1>5

\* The heads LIST_HEAD has initialised, and those initASL has after i rounds.
StaticHeads == {pcbFree_h, semdFree_h, semd_h}
TableHeads(i) == StaticHeads \cup {SProcq(d) : d \in 1..i}

\* Static storage is in order: three empty lists.
LEMMA StaticIntact ==
  /\ Intact(Static, StaticHeads)
  /\ \A h \in StaticHeads : Members(Static, h) = {}
<1>1. IsMemory(Static)
  BY DEF Static, IsMemory, Memory
<1>2. \A h \in StaticHeads : h \in Node /\ h \in Heads /\ Static.next[h] = h /\ Static.prev[h] = h
  BY HeadsAndLinks DEF Static, StaticHeads, Heads
<1>3. ASSUME NEW h \in StaticHeads
      PROVE  Forward(Static, h) = <<>> /\ Chain(Static, h, <<>>)
  <2>1. <<>> \in Seq(Node) /\ Entries(<<>>) = {} /\ NoRepeats(<<>>) /\ Len(<<>>) = 0
    BY EntriesOfNothing DEF NoRepeats
  <2>2. At(h, <<>>, 0) = h /\ At(h, <<>>, 1) = h
    BY DEF At
  <2>3. Chain(Static, h, <<>>)
    <3>1. ASSUME NEW i \in 0..0
          PROVE  Static.next[At(h, <<>>, i)] = At(h, <<>>, i + 1) /\ Static.prev[At(h, <<>>, i + 1)] = At(h, <<>>, i)
      <4>1. i = 0 /\ i + 1 = 1
        OBVIOUS
      <4> QED
        BY <1>2, <2>2, <4>1
    <3> QED
      BY <2>1, <3>1 DEF Chain
  <2> QED
    BY <1>2, <2>1, <2>3, ChainRead
<1>4. Intact(Static, StaticHeads)
  <2>1. Entries(<<>>) = {} /\ \A h \in StaticHeads : <<>> \in Seq(Links(h))
    BY EntriesOfNothing
  <2>2. StaticHeads \subseteq Heads
    BY <1>2
  <2> QED
    BY <1>1, <1>3, <2>1, <2>2 DEF Intact
<1>5. ASSUME NEW h \in StaticHeads
      PROVE  Members(Static, h) = {}
  <2>1. \A x : x \in Members(Static, h) <=> <<Field(h), x>> \in Entries(Forward(Static, h))
    BY <1>4, MembersFacts
  <2> QED
    BY <1>3, <2>1, EntriesOfNothing
<1> QED
  BY <1>4, <1>5

\* The memory after i rounds of initPcbs.
PcbsListed(t, i) ==
  /\ Intact(t, StaticHeads) /\ SameData(t, Static) /\ Members(t, pcbFree_h) = 1..i
  /\ Members(t, semdFree_h) = {} /\ Members(t, semd_h) = {}

\* All blocks are free.
LEMMA PcbsInitialised == PcbsListed(initPcbs(Static), MaxProc)
<1>0. MaxProc \in Nat
  BY TableAssumption
<1>1. PICK f : PcbStages(Static, f, MaxProc) /\ initPcbs(Static) = f[MaxProc]
  BY PcbStagesUnfold
<1>2. /\ pcbFree_h \in StaticHeads /\ semdFree_h \in StaticHeads /\ semd_h \in StaticHeads
      /\ pcbFree_h \in Heads /\ StaticHeads = StaticHeads \cup {pcbFree_h}
  BY DEF StaticHeads, Heads
<1> DEFINE G == {k \in 0..MaxProc : PcbsListed(f[k], k)}
<1>3. 0 \in G
  <2>1. f[0] = INIT_LIST_HEAD(Static, pcbFree_h)
    BY <1>1 DEF PcbStages
  <2>2. /\ Intact(f[0], StaticHeads) /\ SameData(f[0], Static)
        /\ SameOthers(f[0], Static, StaticHeads, pcbFree_h) /\ Members(f[0], pcbFree_h) = {}
    <3> HIDE DEF G
    <3> QED
      BY <1>2, <2>1, StaticIntact, NewHead
  <2>3. Members(f[0], semdFree_h) = {} /\ Members(f[0], semd_h) = {}
    BY <1>2, <2>2, StaticIntact, HeadsDiffer DEF SameOthers, Members
  <2>4. PcbsListed(f[0], 0)
    BY <2>2, <2>3 DEF PcbsListed
  <2> QED
    BY <1>0, <2>4
<1>4. ASSUME NEW i \in 1..MaxProc, i - 1 \in G
      PROVE  i \in G
  <2> DEFINE t == f[i - 1]
             a == f[i]
  <2>1. /\ Intact(t, StaticHeads) /\ SameData(t, Static) /\ Members(t, pcbFree_h) = 1..(i - 1)
        /\ Members(t, semdFree_h) = {} /\ Members(t, semd_h) = {}
    BY <1>4 DEF PcbsListed
  <2>2. a = list_add(t, PList(i), pcbFree_h) /\ i \in Pcb /\ i \notin 1..(i - 1)
    BY <1>1 DEF PcbStages, Pcb
  <2>3. \A k \in StaticHeads : Field(k) = Field(pcbFree_h) => i \notin Members(t, k)
    BY <2>1, <2>2 DEF StaticHeads
  <2>4. PList(i) = <<Field(pcbFree_h), i>>
    BY FieldOf DEF PList
  <2> HIDE DEF t, a, G
  <2>5. Joined(a, t, StaticHeads, pcbFree_h, i)
    BY <1>2, <2>1, <2>2, <2>3, <2>4, PutIn
  <2>6. /\ Intact(a, StaticHeads) /\ SameData(a, t) /\ Members(a, pcbFree_h) = Members(t, pcbFree_h) \cup {i}
        /\ Members(a, semdFree_h) = Members(t, semdFree_h) /\ Members(a, semd_h) = Members(t, semd_h)
    BY <1>2, <2>5, HeadsDiffer DEF Joined, SameOthers, Members
  <2>7. (1..(i - 1)) \cup {i} = 1..i
    OBVIOUS
  <2>8. PcbsListed(a, i)
    BY <2>1, <2>6, <2>7 DEF PcbsListed, SameData
  <2>9. i \in 0..MaxProc
    OBVIOUS
  <2> QED
    BY <2>8, <2>9 DEF G, a
<1> HIDE DEF G
<1>5. 0..MaxProc \subseteq G
  BY <1>0, <1>3, <1>4, UpTo
<1>6. MaxProc \in G
  BY <1>0, <1>5
<1> QED
  BY <1>1, <1>6 DEF G

\* The memory after i rounds of initASL on the memory m.
SemdsListed(t, m, i) ==
  /\ Intact(t, TableHeads(i))
  /\ t.p_parent = m.p_parent /\ t.p_semAdd = m.p_semAdd /\ t.p_prio = m.p_prio
  /\ Members(t, pcbFree_h) = Members(m, pcbFree_h)
  /\ Members(t, semdFree_h) = 1..i /\ Members(t, semd_h) = {}
  /\ \A d \in 1..i : Members(t, SProcq(d)) = {}

\* One round.
LEMMA SemdRound ==
  ASSUME NEW m, NEW i \in 1..MaxProc, NEW t, SemdsListed(t, m, i - 1), NEW a, a = SemdInit(t, i)
  PROVE  SemdsListed(a, m, i)
<1> DEFINE H == TableHeads(i - 1)
           x == list_add(t, SLink(i), semdFree_h)
           y == WithKey(x, i, NULL)
<1>1. /\ MaxProc \in Nat /\ i \in Pcb /\ i \notin 1..(i - 1) /\ 1..(i - 1) \subseteq Pcb
      /\ (1..(i - 1)) \cup {i} = 1..i /\ SProcq(i) \in Heads /\ SLink(i) = <<Field(semdFree_h), i>>
  BY TableAssumption, FieldOf DEF Pcb, Semd, Heads, SLink
<1>2. a = INIT_LIST_HEAD(y, SProcq(i))
  BY DEF SemdInit, WithKey
<1>3. /\ Intact(t, H) /\ t.p_parent = m.p_parent /\ t.p_semAdd = m.p_semAdd /\ t.p_prio = m.p_prio
      /\ Members(t, pcbFree_h) = Members(m, pcbFree_h)
      /\ Members(t, semdFree_h) = 1..(i - 1) /\ Members(t, semd_h) = {}
      /\ \A d \in 1..(i - 1) : Members(t, SProcq(d)) = {}
  BY DEF SemdsListed
<1>4. /\ {pcbFree_h, semdFree_h, semd_h} \subseteq H /\ \A d \in 1..(i - 1) : SProcq(d) \in H
      /\ TableHeads(i) = H \cup {SProcq(i)}
  BY <1>1 DEF TableHeads, StaticHeads
<1>5. \A k \in H : Field(k) = Field(semdFree_h) => i \notin Members(t, k)
  <2>1. \A k \in H : k \in {pcbFree_h, semdFree_h, semd_h} \/ \E d \in Pcb : k = SProcq(d)
    BY <1>1 DEF TableHeads, StaticHeads
  <2>2. i \notin Members(t, semdFree_h) /\ i \notin Members(t, semd_h)
    BY <1>1, <1>3
  <2> QED
    BY <2>1, <2>2, FieldOf
<1> HIDE DEF H, x, y
<1>6. Joined(x, t, H, semdFree_h, i)
  BY <1>1, <1>3, <1>4, <1>5, PutIn DEF x
<1>7. /\ Intact(x, H) /\ SameData(x, t) /\ SameOthers(x, t, H, semdFree_h)
      /\ Members(x, semdFree_h) = Members(t, semdFree_h) \cup {i}
  BY <1>6 DEF Joined
<1>8. KeyWritten(y, x, H, i, NULL)
  BY <1>7, KeyWrite DEF y
<1>9. /\ Intact(y, H) /\ SameLists(y, x, H)
      /\ y.p_parent = x.p_parent /\ y.p_semAdd = x.p_semAdd /\ y.p_prio = x.p_prio
  BY <1>8 DEF KeyWritten
<1>10. /\ Intact(a, TableHeads(i)) /\ SameData(a, y) /\ SameOthers(a, y, H, SProcq(i))
       /\ Members(a, SProcq(i)) = {}
  BY <1>1, <1>2, <1>4, <1>9, NewHead
<1>11. /\ \A k \in H : k # semdFree_h => Members(x, k) = Members(t, k)
       /\ \A k \in H : Members(y, k) = Members(x, k)
       /\ \A k \in H : k # SProcq(i) => Members(a, k) = Members(y, k)
  <2>1. \A k \in H : k # semdFree_h => Members(x, k) = Members(t, k)
    BY <1>7 DEF SameOthers, Members
  <2>2. \A k \in H : Members(y, k) = Members(x, k)
    BY <1>9, SameMembers
  <2>3. \A k \in H : k # SProcq(i) => Members(a, k) = Members(y, k)
    BY <1>10 DEF SameOthers, Members
  <2> QED
    BY <2>1, <2>2, <2>3
<1>12. /\ Members(a, pcbFree_h) = Members(t, pcbFree_h) /\ Members(a, semd_h) = Members(t, semd_h)
       /\ Members(a, semdFree_h) = Members(t, semdFree_h) \cup {i}
       /\ \A d \in 1..(i - 1) : Members(a, SProcq(d)) = Members(t, SProcq(d))
  <2>1. /\ pcbFree_h # semdFree_h /\ semd_h # semdFree_h
        /\ pcbFree_h # SProcq(i) /\ semd_h # SProcq(i) /\ semdFree_h # SProcq(i)
        /\ \A d \in 1..(i - 1) : SProcq(d) # semdFree_h /\ SProcq(d) # SProcq(i)
    BY <1>1, HeadsDiffer
  <2> QED
    BY <1>4, <1>7, <1>11, <2>1
<1>13. \A d \in 1..i : Members(a, SProcq(d)) = {}
  BY <1>1, <1>3, <1>10, <1>12
<1> QED
  BY <1>1, <1>3, <1>7, <1>9, <1>10, <1>12, <1>13 DEF SemdsListed, SameData

\* All descriptors are free, and have empty queues.
LEMMA SemdsInitialised ==
  ASSUME NEW m, PcbsListed(m, MaxProc)
  PROVE  SemdsListed(initASL(m), m, MaxProc)
<1>0. MaxProc \in Nat
  BY TableAssumption
<1>1. PICK f : SemdStages(m, f, MaxProc) /\ initASL(m) = f[MaxProc]
  BY SemdStagesUnfold
<1> DEFINE G == {k \in 0..MaxProc : SemdsListed(f[k], m, k)}
<1>2. 0 \in G
  <2>1. f[0] = m
    BY <1>1 DEF SemdStages
  <2>2. TableHeads(0) = StaticHeads /\ 1..0 = {}
    BY DEF TableHeads
  <2>3. SemdsListed(m, m, 0)
    BY <2>2 DEF SemdsListed, PcbsListed
  <2> QED
    BY <1>0, <2>1, <2>3
<1>3. ASSUME NEW i \in 1..MaxProc, i - 1 \in G
      PROVE  i \in G
  <2>1. f[i] = SemdInit(f[i - 1], i)
    BY <1>1 DEF SemdStages
  <2>2. SemdsListed(f[i], m, i)
    BY <1>3, <2>1, SemdRound
  <2> QED
    BY <2>2
<1> HIDE DEF G
<1>4. 0..MaxProc \subseteq G
  BY <1>0, <1>2, <1>3, UpTo
<1>5. MaxProc \in G
  BY <1>0, <1>4
<1> QED
  BY <1>1, <1>5 DEF G

\* The memory main() leaves, before the first process: two more empty lists.
LEMMA TablesInitialised ==
  ASSUME NEW t, t = mkEmptyProcQ(mkEmptyProcQ(initASL(initPcbs(Static)), high_ready_q), low_ready_q)
  PROVE  /\ Inv(t) /\ Members(t, pcbFree_h) = Pcb
         /\ Members(t, high_ready_q) = {} /\ Members(t, low_ready_q) = {}
         /\ t.p_parent = Static.p_parent /\ t.p_prio = Static.p_prio
<1> DEFINE m == initPcbs(Static)
           x == initASL(m)
           y == INIT_LIST_HEAD(x, high_ready_q)
           H == TableHeads(MaxProc)
           J == H \cup {high_ready_q}
<1>0. Pcb = 1..MaxProc
  BY DEF Pcb
<1>1. /\ PcbsListed(m, MaxProc) /\ SemdsListed(x, m, MaxProc)
      /\ t = INIT_LIST_HEAD(y, low_ready_q)
  BY PcbsInitialised, SemdsInitialised DEF mkEmptyProcQ
<1> HIDE DEF x, m
<1>2. /\ Intact(x, H) /\ x.p_parent = Static.p_parent /\ x.p_prio = Static.p_prio
      /\ Members(x, pcbFree_h) = Pcb /\ Members(x, semdFree_h) = Pcb /\ Members(x, semd_h) = {}
      /\ \A d \in Pcb : Members(x, SProcq(d)) = {}
  BY <1>0, <1>1 DEF PcbsListed, SemdsListed, SameData
<1>3. /\ {pcbFree_h, semdFree_h, semd_h} \subseteq H /\ \A d \in Pcb : SProcq(d) \in H
      /\ high_ready_q \in Heads /\ low_ready_q \in Heads /\ high_ready_q \in J
      /\ InUse({}) = J \cup {low_ready_q}
  BY <1>0 DEF TableHeads, StaticHeads, Heads, InUse
<1>4. /\ high_ready_q # low_ready_q
      /\ \A h \in {pcbFree_h, semdFree_h, semd_h} : h # high_ready_q /\ h # low_ready_q
      /\ \A d \in Pcb : SProcq(d) # high_ready_q /\ SProcq(d) # low_ready_q
  BY HeadsDiffer
<1>5. /\ Intact(y, J) /\ SameData(y, x) /\ SameOthers(y, x, H, high_ready_q)
      /\ Members(y, high_ready_q) = {}
  <2> HIDE DEF H
  <2> QED
    BY <1>2, <1>3, NewHead
<1> HIDE DEF H, y, J
<1>6. /\ Intact(t, InUse({})) /\ SameData(t, y) /\ SameOthers(t, y, J, low_ready_q)
      /\ Members(t, low_ready_q) = {}
  BY <1>1, <1>3, <1>5, NewHead
<1>7. /\ \A h \in H : h # high_ready_q => Members(y, h) = Members(x, h)
      /\ \A h \in J : h # low_ready_q => Members(t, h) = Members(y, h)
      /\ H \subseteq J
  BY <1>5, <1>6 DEF SameOthers, Members, J
<1>8. /\ Members(t, pcbFree_h) = Pcb /\ Members(t, semdFree_h) = Pcb /\ Members(t, semd_h) = {}
      /\ \A d \in Pcb : Members(t, SProcq(d)) = {}
      /\ Members(t, high_ready_q) = {}
  <2>1. /\ Members(t, pcbFree_h) = Members(x, pcbFree_h)
        /\ Members(t, semdFree_h) = Members(x, semdFree_h) /\ Members(t, semd_h) = Members(x, semd_h)
        /\ Members(t, high_ready_q) = Members(y, high_ready_q)
    BY <1>3, <1>4, <1>7
  <2>2. \A d \in Pcb : Members(t, SProcq(d)) = Members(x, SProcq(d))
    BY <1>3, <1>4, <1>7
  <2> QED
    BY <1>2, <1>5, <2>1, <2>2
<1>9. Live(t) = {} /\ Intact(t, InUse(Live(t)))
  BY <1>6, <1>8 DEF Live
<1>10. t.p_parent = Static.p_parent /\ t.p_prio = Static.p_prio
  BY <1>2, <1>5, <1>6 DEF SameData
<1>11. TreeInv(t)
  <2>1. \A p \in Pcb : t.p_parent[p] = Zero
    BY <1>10 DEF Static
  <2> QED
    BY <1>9, <2>1 DEF TreeInv
<1>12. SemdInv(t) /\ QueueInv(t)
  BY <1>6, <1>8 DEF SemdInv, QueueInv
<1> QED
  BY <1>6, <1>8, <1>9, <1>10, <1>11, <1>12 DEF Inv

-----------------------------------------------------------------------------
(* The specification.                                                      *)

\* The inductive invariant: the lists and the records that go with them are in
\* order, and the process tree has no cycle.
IInv == Inv(mem) /\ \E rank : Ranked(mem, rank)

\* main() establishes it.
LEMMA InitIInv == Init => IInv
<1> SUFFICES ASSUME Init PROVE IInv
  OBVIOUS
<1> DEFINE t == mkEmptyProcQ(mkEmptyProcQ(initASL(initPcbs(Static)), high_ready_q), low_ready_q)
           p == First(t, pcbFree_h)
           a == allocPcb(t)
<1>1. mem = insertProcQ(a, low_ready_q, p)
  BY DEF Init
<1>2. /\ Inv(t) /\ Members(t, pcbFree_h) = Pcb
      /\ t.p_parent = Static.p_parent /\ t.p_prio = Static.p_prio
  BY TablesInitialised
<1>3. /\ 1 \in Pcb /\ \A c \in Pcb : Static.p_parent[c] = Zero /\ Static.p_prio[c] = 0
      /\ NULL \notin Pcb /\ Zero \notin Pcb
  BY TableAssumption, KeyAssumption DEF Pcb, Static
<1> HIDE DEF t
<1>4. ~list_empty(t, pcbFree_h)
  <2>1. pcbFree_h \in InUse(Live(t)) /\ Intact(t, InUse(Live(t)))
    BY <1>2 DEF InUse, Inv
  <2> QED
    BY <1>2, <1>3, <2>1, MembersFacts
<1>5. /\ Inv(a) /\ LooseIn(a, p) /\ p \in Pcb
      /\ a.p_parent = [t.p_parent EXCEPT ![p] = NULL] /\ a.p_prio = t.p_prio
  <2>1. p = First(t, pcbFree_h) /\ a = allocPcb(t)
    OBVIOUS
  <2> HIDE DEF p, a
  <2>2. Inv(t) /\ ~list_empty(t, pcbFree_h)
    BY <1>2, <1>4
  <2>3. p \in Pcb \ Live(t) /\ Inv(a) /\ LooseIn(a, p)
    BY <2>1, <2>2, AllocKeeps, ZenonT(120)
  <2>4. a.p_parent = [t.p_parent EXCEPT ![p] = NULL] /\ a.p_prio = t.p_prio
    BY <2>1, <2>2, AllocKeeps, ZenonT(120)
  <2> QED
    BY <2>3, <2>4
<1> HIDE DEF p, a
<1>7. Inv(mem) /\ mem.p_parent = a.p_parent
  <2>1. low_ready_q \in {high_ready_q, low_ready_q} /\ low_ready_q # high_ready_q
    BY HeadsDiffer
  <2> QED
    BY <1>1, <1>5, <2>1, ReadyKeeps
<1>8. Ranked(mem, [c \in Pcb |-> 0])
  <2>1. t.p_parent = [c \in Pcb |-> t.p_parent[c]]
    BY <1>2 DEF Inv, Intact, IsMemory
  <2>2. \A c \in Pcb : mem.p_parent[c] \in {NULL, Zero}
    BY <1>2, <1>3, <1>5, <1>7, <2>1
  <2> QED
    BY <1>3, <2>2 DEF Ranked
<1> QED
  BY <1>7, <1>8 DEF IInv

\* Whoever is in no queue is so in the words of the proofs.
LEMMA LooseAgrees ==
  ASSUME Inv(mem), NEW p \in Pcb, Loose(p)
  PROVE  LooseIn(mem, p)
BY DEF Loose, Allocated, Ready, Blocked, LooseIn, Live, Inv, SemdInv

\* A termination that overlooks nobody has nobody misplaced to take out.
LEMMA TerminationTakesAll ==
  ASSUME NEW p \in Pcb, TerminateSelf(p) \/ TerminatePid(p), astray' = {}
  PROVE  /\ p \in Live(mem) /\ mem' = Exterminate(mem, p)
         /\ \A q \in Misplaced(mem) : q \notin Progeny(mem, p)
<1>1. p \in Live(mem) /\ mem' = Exterminate(mem, p)
  BY DEF TerminateSelf, TerminatePid, Loose, Allocated, Live
<1>2. ASSUME NEW q \in Misplaced(mem), q \in Progeny(mem, p)
      PROVE  FALSE
  <2>1. q \in Overlooked(p)
    BY <1>2 DEF Overlooked
  <2>2. CASE TerminateSelf(p)
    <3>1. q = p /\ Loose(p)
      BY <2>1, <2>2 DEF TerminateSelf
    <3> QED
      BY <1>2, <3>1 DEF Misplaced, Loose, Ready
  <2>3. CASE TerminatePid(p)
    BY <2>1, <2>3 DEF TerminatePid
  <2> QED
    BY <2>2, <2>3
<1> QED
  BY <1>1, <1>2

\* Every call of the nucleus keeps it, until a termination overlooks somebody.
LEMMA NextIInv == IInv /\ [Next]_vars /\ astray' = {} => IInv'
<1> SUFFICES ASSUME IInv, [Next]_vars, astray' = {} PROVE IInv'
  OBVIOUS
<1>1. Inv(mem)
  BY DEF IInv
<1>2. PICK rank : Ranked(mem, rank)
  BY DEF IInv
<1>3. SUFFICES Inv(mem') /\ \E r : Ranked(mem', r)
  BY DEF IInv, Inv, Intact, IsMemory, Memory, TreeInv, SemdInv, QueueInv, Ranked
<1>4. ASSUME Inv(mem'), mem'.p_parent = mem.p_parent
      PROVE  Inv(mem') /\ \E r : Ranked(mem', r)
  BY <1>2, <1>4, RankKeeps
<1>5. ASSUME NEW p \in Pcb, NEW prio \in Prios, CreateProcess(p, prio)
      PROVE  Inv(mem') /\ \E r : Ranked(mem', r)
  <2>1. /\ p \in Live(mem) /\ ~list_empty(mem, pcbFree_h) /\ mem' = Create(mem, p, prio)
    BY <1>1, <1>5, LooseAgrees DEF CreateProcess, LooseIn
  <2> QED
    BY <1>1, <1>2, <2>1, CreateKeeps
<1>6. ASSUME NEW q \in {high_ready_q, low_ready_q}, Dispatch(q)
      PROVE  Inv(mem') /\ \E r : Ranked(mem', r)
  <2> DEFINE p == First(mem, q)
  <2>1. p \in Members(mem, q)
    <3>1. q \in InUse(Live(mem)) /\ Intact(mem, InUse(Live(mem))) /\ ~list_empty(mem, q)
      BY <1>1, <1>6 DEF InUse, Inv, Dispatch, emptyProcQ
    <3> QED
      BY <3>1, MembersFacts
  <2>2. mem' = list_del(mem, PList(p))
    BY <1>6 DEF Dispatch, removeProcQ
  <2> HIDE DEF p
  <2>3. Inv(mem') /\ SameData(mem', mem)
    BY <1>1, <2>1, <2>2, UnreadyKeeps
  <2> QED
    BY <1>4, <2>3 DEF SameData
<1>7. ASSUME NEW p \in Pcb, Preempt(p)
      PROVE  Inv(mem') /\ \E r : Ranked(mem', r)
  <2>1. LooseIn(mem, p) /\ mem' = insertProcQ(mem, low_ready_q, p)
    BY <1>1, <1>7, LooseAgrees DEF Preempt
  <2>2. low_ready_q \in {high_ready_q, low_ready_q} /\ low_ready_q # high_ready_q
    BY HeadsDiffer
  <2>3. Inv(mem') /\ mem'.p_parent = mem.p_parent
    BY <1>1, <2>1, <2>2, ReadyKeeps
  <2> QED
    BY <1>4, <2>3
<1>12. ASSUME NEW p \in Pcb, Yield(p)
       PROVE  Inv(mem') /\ \E r : Ranked(mem', r)
  <2>1. LooseIn(mem, p) /\ mem.p_prio[p] # 0 /\ mem' = insertProcQ(mem, high_ready_q, p)
    BY <1>1, <1>12, LooseAgrees DEF Yield
  <2>2. high_ready_q \in {high_ready_q, low_ready_q}
    OBVIOUS
  <2>3. Inv(mem') /\ mem'.p_parent = mem.p_parent
    BY <1>1, <2>1, <2>2, ReadyKeeps
  <2> QED
    BY <1>4, <2>3
<1>8. ASSUME NEW p \in Pcb, NEW s \in Key, Block(p, s)
      PROVE  Inv(mem') /\ \E r : Ranked(mem', r)
  <2>1. LooseIn(mem, p) /\ mem' = insertBlocked(mem, s, p)
    BY <1>1, <1>8, LooseAgrees DEF Block
  <2>2. Inv(mem') /\ mem'.p_parent = mem.p_parent
    BY <1>1, <2>1, InsertBlockedKeeps
  <2> QED
    BY <1>4, <2>2
<1>9. ASSUME NEW s \in Key, Wake(s)
      PROVE  Inv(mem') /\ \E r : Ranked(mem', r)
  <2> DEFINE p == headBlocked(mem, s)
             a == removeBlocked(mem, s)
  <2>1. Described(mem, s) /\ mem' = insertProcQ(a, WakeQueue(mem, p), p)
    BY <1>9 DEF Wake, headBlocked
  <2>2. Inv(a) /\ LooseIn(a, p) /\ a.p_parent = mem.p_parent /\ a.p_prio = mem.p_prio
    <3>1. p = headBlocked(mem, s) /\ a = removeBlocked(mem, s)
      OBVIOUS
    <3> HIDE DEF p, a
    <3>2. Inv(mem) /\ Described(mem, s)
      BY <1>1, <2>1
    <3> QED
      BY <3>1, <3>2, RemoveBlockedKeeps
  <2> HIDE DEF p, a
  <2>3. /\ WakeQueue(mem, p) \in {high_ready_q, low_ready_q}
        /\ WakeQueue(mem, p) = high_ready_q => a.p_prio[p] # 0
    BY <2>2, HeadsDiffer DEF WakeQueue
  <2>4. Inv(mem') /\ mem'.p_parent = a.p_parent
    BY <2>1, <2>2, <2>3, ReadyKeeps
  <2> QED
    BY <1>4, <2>2, <2>4
<1>10. ASSUME NEW p \in Pcb, TerminateSelf(p) \/ TerminatePid(p)
       PROVE  Inv(mem') /\ \E r : Ranked(mem', r)
  <2>1. /\ p \in Live(mem) /\ mem' = Exterminate(mem, p)
        /\ \A q \in Misplaced(mem) : q \notin Progeny(mem, p)
    BY <1>10, TerminationTakesAll
  <2> QED
    BY <1>1, <1>2, <2>1, ExterminateKeeps
<1>11. CASE UNCHANGED vars
  BY <1>1, <1>4, <1>11 DEF vars
<1> QED
  BY <1>5, <1>6, <1>7, <1>8, <1>9, <1>10, <1>11, <1>12 DEF Next, Call

\* What main() and every call keep, holds until a termination overlooks somebody.
LEMMA Inductive == Spec => [](astray = {} => IInv)
<1>1. Init => (astray = {} => IInv)
  BY InitIInv
<1>2. (astray = {} => IInv) /\ [Next]_vars => (astray = {} => IInv)'
  BY NextIInv DEF Next, vars
<1> QED
  BY <1>1, <1>2, PTL DEF Spec

\* All links are as ListsIntact wants them: a list can be walked both ways, and
\* no structure is met in two lists or twice.
LEMMA IntactThroughout == IInv => ListsIntact
<1> SUFFICES ASSUME IInv PROVE ListsIntact
  OBVIOUS
<1>1. Inv(mem) /\ Intact(mem, InUse(Live(mem))) /\ Live(mem) \subseteq Pcb /\ LivePcbs = Live(mem)
  BY DEF IInv, Inv, Live, LivePcbs, Allocated
<1>2. ASSUME NEW h \in InUse(Live(mem))
      PROVE  Sound(h, Field(h))
  <2>1. /\ h \in Node /\ Chain(mem, h, Forward(mem, h)) /\ Forward(mem, h) \in Seq(Links(h))
        /\ Links(h) \subseteq Node
    BY <1>1, HeadsAndLinks DEF Intact
  <2>2. Forward(mem, h) \in Seq(Node)
    BY <2>1
  <2>3. Backward(mem, h) = Reverse(Forward(mem, h))
    BY <2>1, <2>2, ChainRead
  <2>4. \A n \in Range(Forward(mem, h)) : n[1] = Field(h)
    <3>1. \A i \in DOMAIN Forward(mem, h) : Forward(mem, h)[i] \in Links(h)
      BY <2>1
    <3> QED
      BY <3>1 DEF Range, Links
  <2> QED
    BY <2>3, <2>4 DEF Sound
<1>3. ASSUME NEW field \in DOMAIN ListsThrough, NEW h \in ListsThrough[field]
      PROVE  h \in InUse(Live(mem)) /\ Field(h) = field
  <2>1. /\ ListsThrough["p_list"] = {pcbFree_h, high_ready_q, low_ready_q} \cup {SProcq(d) : d \in Pcb}
        /\ ListsThrough["p_sib"] = {PChild(p) : p \in Live(mem)}
        /\ ListsThrough["s_link"] = {semdFree_h, semd_h}
        /\ DOMAIN ListsThrough = {"p_list", "p_sib", "s_link"}
    BY <1>1 DEF ListsThrough, Semd, Pcb
  <2>2. CASE field = "p_list"
    BY <2>1, <2>2, FieldOf DEF InUse
  <2>3. CASE field = "p_sib"
    BY <1>1, <2>1, <2>3, FieldOf DEF InUse
  <2>4. CASE field = "s_link"
    BY <2>1, <2>4, FieldOf DEF InUse
  <2> QED
    BY <2>1, <2>2, <2>3, <2>4
<1>4. ASSUME NEW field \in DOMAIN ListsThrough, NEW h \in ListsThrough[field],
             NEW k \in ListsThrough[field], h # k
      PROVE  Members(mem, h) \cap Members(mem, k) = {}
  <2>1. /\ h \in InUse(Live(mem)) /\ k \in InUse(Live(mem)) /\ Field(h) = Field(k)
    BY <1>3
  <2> QED
    BY <1>1, <1>4, <2>1, Apart
<1> QED
  BY <1>2, <1>3, <1>4 DEF ListsIntact

\* There are no more waiting processes than there are processes, and one of them
\* is about to wait: some descriptor has nobody in its queue.
LEMMA SpareSemd ==
  ASSUME IInv, NEW p \in Pcb, Loose(p)
  PROVE  ~list_empty(mem, semdFree_h)
<1>1. /\ Inv(mem) /\ Intact(mem, InUse(Live(mem))) /\ SemdInv(mem) /\ LooseIn(mem, p)
      /\ semdFree_h \in InUse(Live(mem))
  BY LooseAgrees DEF IInv, Inv, InUse
<1>2. SUFFICES ASSUME Members(mem, semdFree_h) = {} PROVE FALSE
  BY <1>1, MembersFacts
<1>3. \A d \in Pcb : \E q : q \in Members(mem, SProcq(d))
  BY <1>1, <1>2 DEF SemdInv
<1>4. \A d \in Pcb : Members(mem, SProcq(d)) \subseteq Pcb \ {p}
  BY <1>1, ListsApart DEF InUse, LooseIn
<1>5. \A d, e \in Pcb : d # e => Members(mem, SProcq(d)) \cap Members(mem, SProcq(e)) = {}
  BY <1>1, ListsApart
<1> DEFINE f == [d \in Pcb |-> CHOOSE q : q \in Members(mem, SProcq(d))]
<1>6. \A d \in Pcb : f[d] \in Members(mem, SProcq(d))
  BY <1>3
<1>7. f \in [Pcb -> Pcb \ {p}]
  BY <1>4, <1>6
<1>8. /\ IsFiniteSet(Pcb) /\ IsFiniteSet(Pcb \ {p}) /\ Cardinality(Pcb \ {p}) < Cardinality(Pcb)
  <2>1. IsFiniteSet(Pcb)
    BY TableAssumption, FS_Interval DEF Pcb
  <2>2. Cardinality(Pcb \ {p}) = Cardinality(Pcb) - 1 /\ IsFiniteSet(Pcb \ {p})
    BY <2>1, FS_RemoveElement
  <2> QED
    BY <2>1, <2>2, FS_CardinalityType
<1> HIDE DEF f
<1>9. PICK d \in Pcb, e \in Pcb : d # e /\ f[d] = f[e]
  BY <1>7, <1>8, FS_PigeonHole
<1> QED
  BY <1>5, <1>6, <1>9

\* Up to a termination that overlooks somebody the lists of phase 1 are intact:
\* whatever the calls and their order, each list can be walked both ways and
\* nothing is in two of them.
THEOREM ListsStayIntact == Spec => []ListsIntact
<1>1. (astray = {} => IInv) => ListsIntact
  BY IntactThroughout DEF ListsIntact
<1> QED
  BY <1>1, Inductive, PTL

\* Up to there a descriptor is active exactly while somebody waits, for the
\* semaphore that the waiters name; none is lost and no semaphore has two.
THEOREM SemdsStayAccounted == Spec => []SemdsAccounted
<1>1. (astray = {} => IInv) => SemdsAccounted
  BY DEF IInv, Inv, SemdInv, SemdsAccounted, ActiveSemds, Semd, Pcb
<1> QED
  BY <1>1, Inductive, PTL

\* Up to there the children of a process are those whose p_parent it is, and a
\* freed block is in no tree.
THEOREM ChildListsStayRight == Spec => []ChildListsAgree
<1>1. (astray = {} => IInv) => ChildListsAgree
  BY DEF IInv, Inv, TreeInv, ChildListsAgree, LivePcbs, Allocated, Live
<1> QED
  BY <1>1, Inductive, PTL

\* Up to there insertBlocked never fails: as many descriptors as processes are
\* enough.
THEOREM SemdsAlwaysSuffice == Spec => []SemdsSuffice
<1>1. (astray = {} => IInv) => SemdsSuffice
  BY SpareSemd DEF SemdsSuffice, SemdsExhausted
<1> QED
  BY <1>1, Inductive, PTL

-----------------------------------------------------------------------------
(* The lists implement those of the module Kernel.                         *)

\* What the operations of the module Kernel say of the lists.
LEMMA KernelTerms ==
  /\ K(NULL)!Sem = Key
  /\ \A q, S : K(NULL)!Only(q, S) = Only(q, S)
  /\ \A p : K(NULL)!AllocPcb(p) <=>
       p \in free /\ free' = free \ {p} /\ semAdds' = [semAdds EXCEPT ![p] = NULL]
  /\ \A prnt, p : K(prnt)!InsertChild(p) <=> tree' = [tree EXCEPT ![p] = prnt]
  /\ \A s, p : K(NULL)!InsertBlocked(s, p) <=>
       /\ waiting' = [waiting EXCEPT ![s] = Append(waiting[s], p)]
       /\ semAdds' = [semAdds EXCEPT ![p] = s]
  /\ \A s : K(NULL)!RemoveBlocked(s) <=>
       /\ semAdds' = [semAdds EXCEPT ![Head(waiting[s])] = NULL]
       /\ waiting' = [waiting EXCEPT ![s] = Tail(waiting[s])]
  /\ \A w : /\ K(NULL)!HighWith(w) = high \o Only(w, {p \in Pcb : mem.p_prio[p] = 1})
            /\ K(NULL)!LowWith(w) = low \o Only(w, {p \in Pcb : mem.p_prio[p] # 1})
  /\ \A T : /\ K(NULL)!HighWithout(T) = Only(high, Pcb \ {p \in T : mem.p_prio[p] # 0})
            /\ K(NULL)!LowWithout(T) = Only(low, Pcb \ {p \in T : mem.p_prio[p] = 0})
            /\ K(NULL)!FreePcb(T) <=> free' = free \cup T
            /\ K(NULL)!OutChild(T) <=> tree' = [p \in Pcb |-> IF p \in T THEN NULL ELSE tree[p]]
            /\ K(NULL)!OutBlocked(T) <=>
                 waiting' = [s \in Key |-> Only(waiting[s], Pcb \ {p \in T : semAdds[p] = s})]
  /\ \A p : K(NULL)!Subtree(p) =
       {q \in Pcb : \A S \in SUBSET Pcb :
          (p \in S /\ \A c \in Pcb : tree[c] \in S => c \in S) => q \in S}
<1>1. K(NULL)!Sem = Key
  <2>1. K(NULL)!Unit = {}
    BY DEF K!Unit
  <2>2. K(NULL)!DevSem = {48}
    BY <2>1 DEF K!DevSem, K!CLOCK
  <2>3. 48 \in Key
    BY ClockAssumption DEF K!CLOCK
  <2> QED
    BY <2>2, <2>3 DEF K!Sem
<1>2. \A q, S : K(NULL)!Only(q, S) = Only(q, S)
  BY DEF K!Only, Only
<1>3. /\ \A p : K(NULL)!AllocPcb(p) <=>
          p \in free /\ free' = free \ {p} /\ semAdds' = [semAdds EXCEPT ![p] = NULL]
      /\ \A prnt, p : K(prnt)!InsertChild(p) <=> tree' = [tree EXCEPT ![p] = prnt]
  BY DEF K!AllocPcb, K!InsertChild, free, semAdds, tree
<1>4. \A s, p : K(NULL)!InsertBlocked(s, p) <=>
        /\ waiting' = [waiting EXCEPT ![s] = Append(waiting[s], p)]
        /\ semAdds' = [semAdds EXCEPT ![p] = s]
  BY DEF K!InsertBlocked, waiting, semAdds
<1>5. \A s : K(NULL)!RemoveBlocked(s) <=>
        /\ semAdds' = [semAdds EXCEPT ![Head(waiting[s])] = NULL]
        /\ waiting' = [waiting EXCEPT ![s] = Tail(waiting[s])]
  BY DEF K!RemoveBlocked, waiting, semAdds
<1>6. \A w : /\ K(NULL)!HighWith(w) = high \o Only(w, {p \in Pcb : mem.p_prio[p] = 1})
             /\ K(NULL)!LowWith(w) = low \o Only(w, {p \in Pcb : mem.p_prio[p] # 1})
  BY <1>2 DEF K!HighWith, K!LowWith, high, low
<1>7. \A T : /\ K(NULL)!HighWithout(T) = Only(high, Pcb \ {p \in T : mem.p_prio[p] # 0})
             /\ K(NULL)!LowWithout(T) = Only(low, Pcb \ {p \in T : mem.p_prio[p] = 0})
  BY <1>2 DEF K!HighWithout, K!LowWithout, high, low
<1>8. \A T : /\ K(NULL)!FreePcb(T) <=> free' = free \cup T
             /\ K(NULL)!OutChild(T) <=> tree' = [p \in Pcb |-> IF p \in T THEN NULL ELSE tree[p]]
  BY DEF K!FreePcb, K!OutChild, free, tree
<1>9. \A T : K(NULL)!OutBlocked(T) <=>
        waiting' = [s \in Key |-> Only(waiting[s], Pcb \ {p \in T : semAdds[p] = s})]
  BY <1>1, <1>2 DEF K!OutBlocked, waiting, semAdds
<1>10. \A p : K(NULL)!Subtree(p) =
         {q \in Pcb : \A S \in SUBSET Pcb :
            (p \in S /\ \A c \in Pcb : tree[c] \in S => c \in S) => q \in S}
  BY DEF K!Subtree, tree
<1> QED
  BY <1>1, <1>2, <1>3, <1>4, <1>5, <1>6, <1>7, <1>8, <1>9, <1>10

\* The free list has the control blocks that are not live.
LEMMA FreeOnes ==
  ASSUME NEW m, Inv(m)
  PROVE  Members(m, pcbFree_h) = Pcb \ Live(m)
<1>1. pcbFree_h \in InUse(Live(m)) /\ Intact(m, InUse(Live(m)))
  BY DEF InUse, Inv
<1>2. Members(m, pcbFree_h) \subseteq Pcb
  BY <1>1, InListFacts, EntriesType
<1> QED
  BY <1>2 DEF Live

\* A field of one control block is written.
LEMMA FieldWritten ==
  ASSUME NEW f, f = [c \in Pcb |-> f[c]], NEW p \in Pcb, NEW v, v # Zero \/ v = NULL
  PROVE  FieldOrNULL([f EXCEPT ![p] = v]) = [FieldOrNULL(f) EXCEPT ![p] = v]
<1> DEFINE g == [f EXCEPT ![p] = v]
<1>1. g[p] = v /\ \A c \in Pcb : c # p => g[c] = f[c]
  OBVIOUS
<1> HIDE DEF g
<1>2. ASSUME NEW c \in Pcb
      PROVE  (IF g[c] = Zero THEN NULL ELSE g[c]) = [FieldOrNULL(f) EXCEPT ![p] = v][c]
  BY <1>1 DEF FieldOrNULL
<1>3. FieldOrNULL(g) = [c \in Pcb |-> [FieldOrNULL(f) EXCEPT ![p] = v][c]]
  BY <1>2 DEF FieldOrNULL
<1> QED
  BY <1>3 DEF g, FieldOrNULL

\* What the module Kernel sees does not change where the memory does not.
LEMMA SameView ==
  ASSUME Inv(mem), Inv(mem)'
  PROVE  /\ Live(mem)' = Live(mem) => free' = free
         /\ mem.p_parent' = mem.p_parent => tree' = tree
         /\ mem.p_semAdd' = mem.p_semAdd => semAdds' = semAdds
         /\ SameWaits(mem', mem) => waiting' = waiting
         /\ SameReady(mem', mem) => high' = high /\ low' = low
<1>1. free = Pcb \ Live(mem) /\ free' = Pcb \ Live(mem)'
  BY FreeOnes DEF free
<1> QED
  BY <1>1 DEF tree, semAdds, waiting, WaitingFor, SameWaits, SameReady, high, low

\* The scheduler takes the first of a queue.
LEMMA DispatchImplemented ==
  ASSUME Inv(mem), Inv(mem)', NEW q \in {high_ready_q, low_ready_q}, Dispatch(q)
  PROVE  DispatchedOrReadied
<1> DEFINE p == First(mem, q)
           w == InList(mem, q)
<1>1. q \in InUse(Live(mem)) /\ Intact(mem, InUse(Live(mem))) /\ ~list_empty(mem, q)
  BY DEF InUse, Inv, Dispatch, emptyProcQ
<1>2. p \in Members(mem, q) /\ w \in Seq(Pcb) /\ NoRepeats(w) /\ w # <<>> /\ p = Head(w)
  BY <1>1, MembersFacts, InListFacts
<1>3. mem' = list_del(mem, PList(p))
  BY DEF Dispatch, removeProcQ
<1> HIDE DEF p, w
<1>4. /\ SameData(mem', mem) /\ Live(mem') = Live(mem)
      /\ InList(mem', q) = Only(InList(mem, q), Pcb \ {p}) /\ SameWaits(mem', mem)
      /\ \A k \in {high_ready_q, low_ready_q} : q # k => InList(mem', k) = InList(mem, k)
  <2>1. Inv(mem) /\ p \in Members(mem, q)
    BY <1>2
  <2>2. /\ Inv(mem') /\ LooseIn(mem', p) /\ SameData(mem', mem) /\ Live(mem') = Live(mem)
        /\ InList(mem', q) = Only(InList(mem, q), Pcb \ {p}) /\ SameWaits(mem', mem)
        /\ \A k \in {high_ready_q, low_ready_q} : q # k => InList(mem', k) = InList(mem, k)
    BY <1>3, <2>1, UnreadyKeeps
  <2> QED
    BY <2>2
<1>5. Only(w, Pcb \ {p}) = Tail(w)
  BY <1>2, OnlyTail
<1>6. InList(mem', q) = Tail(w)
  BY <1>4, <1>5 DEF w
<1>7. UNCHANGED <<semAdds, tree, free, waiting>>
  BY <1>4, SameView DEF SameData
<1>8. \/ high # <<>> /\ high' = Tail(high) /\ low' = low
      \/ low # <<>> /\ high' = high /\ low' = Tail(low)
  <2>1. high_ready_q # low_ready_q
    BY HeadsDiffer
  <2>2. CASE q = high_ready_q
    BY <1>2, <1>4, <1>6, <2>1, <2>2 DEF high, low, w
  <2>3. CASE q = low_ready_q
    BY <1>2, <1>4, <1>6, <2>1, <2>3 DEF high, low, w
  <2> QED
    BY <2>2, <2>3
<1> QED
  BY <1>7, <1>8 DEF DispatchedOrReadied

\* Who is put in a ready queue comes last; one of high priority may be put in
\* the low queue, by a preemption.
LEMMA ReadyImplemented ==
  ASSUME Inv(mem), Inv(mem)', NEW p \in Pcb, Preempt(p) \/ Yield(p)
  PROVE  DispatchedOrReadied
<1>1. PICK h \in {high_ready_q, low_ready_q} :
        (h = high_ready_q => mem.p_prio[p] # 0) /\ mem' = insertProcQ(mem, h, p)
  BY HeadsDiffer DEF Preempt, Yield
<1>2. LooseIn(mem, p)
  BY LooseAgrees DEF Preempt, Yield
<1>3. /\ SameData(mem', mem) /\ Live(mem') = Live(mem)
      /\ InList(mem', h) = Append(InList(mem, h), p) /\ SameWaits(mem', mem)
      /\ \A k \in {high_ready_q, low_ready_q} : h # k => InList(mem', k) = InList(mem, k)
  BY <1>1, <1>2, ReadyKeeps
<1>4. mem'.p_parent = mem.p_parent
  BY <1>1, <1>2, ReadyKeeps
<1>5. UNCHANGED <<semAdds, tree, free, waiting>>
  BY <1>3, <1>4, SameView DEF SameData
<1>6. \/ mem.p_prio[p] # 0 /\ high' = Append(high, p) /\ low' = low
      \/ high' = high /\ low' = Append(low, p)
  <2>1. high_ready_q # low_ready_q
    BY HeadsDiffer
  <2>2. CASE h = high_ready_q
    BY <1>1, <1>3, <2>1, <2>2 DEF high, low
  <2>3. CASE h = low_ready_q
    BY <1>1, <1>3, <2>1, <2>3 DEF high, low
  <2> QED
    BY <2>2, <2>3
<1> QED
  BY <1>5, <1>6 DEF DispatchedOrReadied

\* A process that blocks comes last in the queue of the semaphore it names.
LEMMA BlockImplemented ==
  ASSUME IInv, Inv(mem)', NEW p \in Pcb, NEW s \in Key, Block(p, s)
  PROVE  HasBlocked
<1>1. Inv(mem) /\ LooseIn(mem, p) /\ mem' = insertBlocked(mem, s, p)
  BY LooseAgrees DEF IInv, Block
<1>2. ~SemdsExhausted(mem, s)
  BY SpareSemd DEF Block, SemdsExhausted
<1>3. /\ Live(mem') = Live(mem) /\ mem'.p_parent = mem.p_parent
      /\ mem'.p_semAdd = [mem.p_semAdd EXCEPT ![p] = s] /\ SameReady(mem', mem)
      /\ WaitsFor(mem', mem, s, p)
  <2>1. /\ Inv(mem') /\ Live(mem') = Live(mem) /\ mem'.p_parent = mem.p_parent
        /\ ~SemdsExhausted(mem, s) => JoinedWaiters(mem', mem, s, p)
    BY <1>1, InsertBlockedKeeps
  <2> QED
    BY <1>2, <2>1 DEF JoinedWaiters
<1>4. UNCHANGED <<tree, high, low, free>>
  BY <1>1, <1>3, SameView
<1>5. mem.p_semAdd = [c \in Pcb |-> mem.p_semAdd[c]] /\ s # Zero
  BY <1>1, KeyAssumption DEF Inv, Intact, IsMemory
<1>6. semAdds' = [semAdds EXCEPT ![p] = s] /\ mem'.p_semAdd[p] = s
  BY <1>3, <1>5, FieldWritten DEF semAdds
<1>7. waiting' = [waiting EXCEPT ![s] = Append(waiting[s], p)]
  BY <1>3 DEF WaitsFor, waiting, WaitingFor
<1>8. K(NULL)!InsertBlocked(s, p)
  BY <1>6, <1>7, KernelTerms
<1> QED
  BY <1>4, <1>6, <1>8 DEF HasBlocked

\* A process put in a queue, in the words of the module Kernel.
LEMMA OnlyOfOne ==
  ASSUME NEW q \in Seq(Pcb), NEW p \in Pcb, NEW S
  PROVE  q \o Only(<<p>>, S) = IF p \in S THEN Append(q, p) ELSE q
<1>1. <<>> \in Seq(Pcb) /\ Append(<<>>, p) = <<p>>
  OBVIOUS
<1>2. Only(Append(<<>>, p), S) = IF p \in S THEN Append(Only(<<>>, S), p) ELSE Only(<<>>, S)
  BY <1>1, OnlyAppend
<1>3. Only(<<p>>, S) = IF p \in S THEN <<p>> ELSE <<>>
  BY <1>1, <1>2, OnlyOfEmpty
<1>4. q \o <<p>> = Append(q, p) /\ q \o <<>> = q
  OBVIOUS
<1> QED
  BY <1>3, <1>4

\* The first that waits is woken, and is the last of the queue for its priority.
LEMMA WakeImplemented ==
  ASSUME Inv(mem), Inv(mem)', NEW s \in Key, Wake(s)
  PROVE  HasWoken
<1> DEFINE p == headBlocked(mem, s)
           a == removeBlocked(mem, s)
           h == WakeQueue(mem, p)
<1>1. Described(mem, s) /\ mem' = insertProcQ(a, h, p)
  BY DEF Wake, headBlocked
<1>2. /\ p \in Live(mem) /\ Inv(a) /\ LooseIn(a, p) /\ Live(a) = Live(mem)
      /\ a.p_parent = mem.p_parent /\ a.p_prio = mem.p_prio /\ HeadTaken(a, mem, s, p)
  <2>1. p = headBlocked(mem, s) /\ a = removeBlocked(mem, s)
    OBVIOUS
  <2> HIDE DEF p, a
  <2> QED
    BY <1>1, <2>1, RemoveBlockedKeeps
<1>3. h = IF mem.p_prio[p] = 1 THEN high_ready_q ELSE low_ready_q
  BY DEF WakeQueue
<1> HIDE DEF p, a, h
<1>4. high_ready_q # low_ready_q
  BY HeadsDiffer
<1>5. /\ Live(mem') = Live(a) /\ SameData(mem', a) /\ mem'.p_parent = a.p_parent
      /\ InList(mem', h) = Append(InList(a, h), p) /\ SameWaits(mem', a)
      /\ \A k \in {high_ready_q, low_ready_q} : h # k => InList(mem', k) = InList(a, k)
  <2>1. /\ h \in {high_ready_q, low_ready_q} /\ (h = high_ready_q => a.p_prio[p] # 0)
        /\ Inv(a) /\ LooseIn(a, p)
    BY <1>2, <1>3, <1>4
  <2> QED
    BY <1>1, <2>1, ReadyKeeps
<1>6. UNCHANGED <<tree, free>>
  BY <1>2, <1>5, SameView
<1>7. /\ a.p_semAdd = [mem.p_semAdd EXCEPT ![p] = NULL] /\ SameReady(a, mem)
      /\ Waiters(mem, s) # <<>> /\ p = Head(Waiters(mem, s)) /\ Waiters(a, s) = Tail(Waiters(mem, s))
      /\ \A t : t # s => Waiters(a, t) = Waiters(mem, t)
  BY <1>2 DEF HeadTaken
<1>8. WaitingFor(s) # <<>> /\ Head(WaitingFor(s)) = p /\ waiting[s] = WaitingFor(s)
  BY <1>7 DEF WaitingFor, waiting
<1>9. K(NULL)!RemoveBlocked(s)
  <2>1. mem.p_semAdd = [c \in Pcb |-> mem.p_semAdd[c]] /\ p \in Pcb
    BY <1>2 DEF Inv, Intact, IsMemory, Live
  <2>2. semAdds' = [semAdds EXCEPT ![p] = NULL]
    <3> DEFINE f == mem.p_semAdd
    <3>1. f = [c \in Pcb |-> f[c]] /\ (NULL # Zero \/ NULL = NULL)
      BY <2>1
    <3>2. mem'.p_semAdd = [f EXCEPT ![p] = NULL]
      BY <1>5, <1>7 DEF SameData
    <3> HIDE DEF f
    <3>3. FieldOrNULL([f EXCEPT ![p] = NULL]) = [FieldOrNULL(f) EXCEPT ![p] = NULL]
      BY <2>1, <3>1, FieldWritten
    <3> QED
      BY <3>2, <3>3 DEF semAdds, f
  <2>3. waiting' = [waiting EXCEPT ![s] = Tail(waiting[s])]
    BY <1>5, <1>7 DEF SameWaits, waiting, WaitingFor
  <2> QED
    BY <1>8, <2>2, <2>3, KernelTerms
<1>10. Readied(p)
  <2>1. high \in Seq(Pcb) /\ low \in Seq(Pcb) /\ p \in Pcb
    <3>1. {high_ready_q, low_ready_q} \subseteq InUse(Live(mem)) /\ Intact(mem, InUse(Live(mem)))
      BY DEF InUse, Inv
    <3> QED
      BY <1>2, <3>1, InListFacts DEF high, low, Live
  <2>2. /\ K(NULL)!HighWith(<<p>>) = IF mem.p_prio[p] = 1 THEN Append(high, p) ELSE high
        /\ K(NULL)!LowWith(<<p>>) = IF mem.p_prio[p] # 1 THEN Append(low, p) ELSE low
    <3> DEFINE H == {x \in Pcb : mem.p_prio[x] = 1}
               L == {x \in Pcb : mem.p_prio[x] # 1}
    <3>1. /\ K(NULL)!HighWith(<<p>>) = high \o Only(<<p>>, H)
          /\ K(NULL)!LowWith(<<p>>) = low \o Only(<<p>>, L)
      BY KernelTerms
    <3>2. (p \in H <=> mem.p_prio[p] = 1) /\ (p \in L <=> mem.p_prio[p] # 1)
      BY <2>1
    <3> HIDE DEF H, L
    <3>3. /\ high \o Only(<<p>>, H) = IF p \in H THEN Append(high, p) ELSE high
          /\ low \o Only(<<p>>, L) = IF p \in L THEN Append(low, p) ELSE low
      BY <2>1, OnlyOfOne
    <3> QED
      BY <3>1, <3>2, <3>3
  <2>3. /\ high' = IF mem.p_prio[p] = 1 THEN Append(high, p) ELSE high
        /\ low' = IF mem.p_prio[p] # 1 THEN Append(low, p) ELSE low
    <3>1. CASE h = high_ready_q
      BY <1>3, <1>4, <1>5, <1>7, <3>1 DEF SameReady, high, low
    <3>2. CASE h = low_ready_q
      BY <1>3, <1>4, <1>5, <1>7, <3>2 DEF SameReady, high, low
    <3> QED
      BY <1>3, <3>1, <3>2
  <2> QED
    BY <2>2, <2>3 DEF Readied
<1> QED
  BY <1>6, <1>8, <1>9, <1>10 DEF HasWoken

\* Create_Process takes a free control block for a child of the caller, which
\* comes last in the queue for its priority.
LEMMA CreateImplemented ==
  ASSUME IInv, Inv(mem)', NEW p \in Pcb, NEW prio \in Prios, CreateProcess(p, prio)
  PROVE  Created
<1> DEFINE c == First(mem, pcbFree_h)
<1>1. /\ Inv(mem) /\ p \in Live(mem) /\ ~list_empty(mem, pcbFree_h) /\ mem' = Create(mem, p, prio)
  BY LooseAgrees DEF IInv, CreateProcess, LooseIn
<1>2. PICK rank : Ranked(mem, rank)
  BY DEF IInv
<1>3. NewlyReady(mem', mem, c, p, prio)
  BY <1>1, <1>2, CreateKeeps
<1> HIDE DEF c
<1>4. /\ c \in Pcb \ Live(mem) /\ Live(mem') = Live(mem) \cup {c} /\ SameWaits(mem', mem)
      /\ mem'.p_parent = [mem.p_parent EXCEPT ![c] = p]
      /\ mem'.p_semAdd = [mem.p_semAdd EXCEPT ![c] = NULL]
      /\ mem'.p_prio = [mem.p_prio EXCEPT ![c] = prio]
  BY <1>3 DEF NewlyReady
<1>5. /\ mem.p_parent = [x \in Pcb |-> mem.p_parent[x]] /\ p # Zero
      /\ mem.p_semAdd = [x \in Pcb |-> mem.p_semAdd[x]]
      /\ mem.p_prio = [x \in Pcb |-> mem.p_prio[x]]
  BY <1>1, KeyAssumption DEF Inv, Intact, IsMemory
<1>6. K(NULL)!AllocPcb(c)
  <2>1. free = Pcb \ Live(mem) /\ free' = Pcb \ Live(mem')
    BY <1>1, FreeOnes DEF free
  <2>2. c \in free /\ free' = free \ {c}
    BY <1>4, <2>1
  <2>3. semAdds' = [semAdds EXCEPT ![c] = NULL]
    <3> DEFINE f == mem.p_semAdd
    <3>1. f = [x \in Pcb |-> f[x]] /\ (NULL # Zero \/ NULL = NULL) /\ c \in Pcb
      BY <1>4, <1>5
    <3>2. mem'.p_semAdd = [f EXCEPT ![c] = NULL]
      BY <1>4
    <3> HIDE DEF f
    <3>3. FieldOrNULL([f EXCEPT ![c] = NULL]) = [FieldOrNULL(f) EXCEPT ![c] = NULL]
      BY <3>1, FieldWritten
    <3> QED
      BY <3>2, <3>3 DEF semAdds, f
  <2> QED
    BY <2>2, <2>3, KernelTerms
<1>7. K(p)!InsertChild(c)
  <2>1. tree' = [tree EXCEPT ![c] = p]
    <3> DEFINE f == mem.p_parent
    <3>1. f = [x \in Pcb |-> f[x]] /\ (p # Zero \/ p = NULL) /\ c \in Pcb
      BY <1>4, <1>5
    <3>2. mem'.p_parent = [f EXCEPT ![c] = p]
      BY <1>4
    <3> HIDE DEF f
    <3>3. FieldOrNULL([f EXCEPT ![c] = p]) = [FieldOrNULL(f) EXCEPT ![c] = p]
      BY <3>1, FieldWritten
    <3> QED
      BY <3>2, <3>3 DEF tree, f
  <2> QED
    BY <2>1, KernelTerms
<1>8. mem'.p_prio[c] = prio /\ waiting' = waiting
  BY <1>1, <1>4, <1>5, SameView
<1>9. /\ prio # 0 => high' = Append(high, c) /\ low' = low
      /\ prio = 0 => high' = high /\ low' = Append(low, c)
  <2>1. high_ready_q # low_ready_q
    BY HeadsDiffer
  <2>2. CASE prio # 0
    BY <1>3, <2>1, <2>2 DEF NewlyReady, high, low
  <2>3. CASE prio = 0
    BY <1>3, <2>1, <2>3 DEF NewlyReady, high, low
  <2> QED
    BY <2>2, <2>3
<1> QED
  BY <1>4, <1>6, <1>7, <1>8, <1>9 DEF Created

\* Exterminate takes out the process and its progeny, from the queues too.
LEMMA TerminateImplemented ==
  ASSUME IInv, Inv(mem)', NEW p \in Pcb, TerminateSelf(p) \/ TerminatePid(p), astray' = {}
  PROVE  Terminated
<1> DEFINE T == K(NULL)!Subtree(p)
<1>1. /\ Inv(mem) /\ p \in Live(mem) /\ mem' = Exterminate(mem, p)
      /\ \A q \in Misplaced(mem) : q \notin Progeny(mem, p)
  BY TerminationTakesAll DEF IInv
<1>2. PICK rank : Ranked(mem, rank)
  BY DEF IInv
<1>3. Exterminated(mem', mem, Progeny(mem, p))
  BY <1>1, <1>2, ExterminateKeeps
<1>4. T = Progeny(mem, p)
  <2>1. ASSUME NEW c \in Pcb, NEW S \in SUBSET Pcb
        PROVE  tree[c] \in S <=> mem.p_parent[c] \in S
    BY KeyAssumption DEF tree, FieldOrNULL
  <2>2. T = {q \in Pcb : \A S \in SUBSET Pcb :
               (p \in S /\ \A c \in Pcb : tree[c] \in S => c \in S) => q \in S}
    BY KernelTerms
  <2> HIDE DEF T
  <2>3. ASSUME NEW S \in SUBSET Pcb
        PROVE  (\A c \in Pcb : tree[c] \in S => c \in S) <=> (\A c \in Pcb : mem.p_parent[c] \in S => c \in S)
    BY <2>1
  <2> QED
    BY <2>2, <2>3 DEF Progeny
<1> HIDE DEF T
<1>5. /\ Live(mem') = Live(mem) \ T /\ T \subseteq Live(mem) /\ T \subseteq Pcb
      /\ \A c \in Pcb : mem'.p_parent[c] = IF c \in T THEN NULL ELSE mem.p_parent[c]
      /\ mem'.p_semAdd = mem.p_semAdd
      /\ \A k \in {high_ready_q, low_ready_q} : InList(mem', k) = Only(InList(mem, k), Pcb \ T)
      /\ \A t : Waiters(mem', t) = Only(Waiters(mem, t), Pcb \ T)
  BY <1>3, <1>4 DEF Exterminated, Unlisted, Live
<1>6. K(NULL)!FreePcb(T) /\ p \in Pcb \ free
  <2>1. free = Pcb \ Live(mem) /\ free' = Pcb \ Live(mem')
    BY <1>1, FreeOnes DEF free
  <2>2. free' = free \cup T
    BY <1>5, <2>1
  <2> QED
    BY <1>1, <2>1, <2>2, KernelTerms
<1>7. K(NULL)!OutChild(T)
  <2>1. ASSUME NEW c \in Pcb
        PROVE  tree'[c] = IF c \in T THEN NULL ELSE tree[c]
    BY <1>5 DEF tree, FieldOrNULL
  <2>2. tree' = [c \in Pcb |-> tree'[c]]
    BY DEF tree, FieldOrNULL
  <2>3. tree' = [c \in Pcb |-> IF c \in T THEN NULL ELSE tree[c]]
    BY <2>1, <2>2
  <2> QED
    BY <2>3, KernelTerms
<1>8. K(NULL)!OutBlocked(T)
  <2>1. ASSUME NEW s \in Key
        PROVE  Waiters(mem', s) = Only(Waiters(mem, s), Pcb \ {q \in T : semAdds[q] = s})
    <3> DEFINE w == Waiters(mem, s)
               U == {q \in T : semAdds[q] = s}
    <3>1. w \in Seq(Pcb) /\ \A q \in Entries(w) : mem.p_semAdd[q] = s
      BY <1>1, WaitersFacts
    <3>2. Entries(w) \subseteq Pcb
      BY <3>1, EntriesType
    <3>3. s # Zero
      BY KeyAssumption
    <3>4. \A q \in Entries(w) : semAdds[q] = s
      BY <3>1, <3>2, <3>3 DEF semAdds, FieldOrNULL
    <3>5. Waiters(mem', s) = Only(w, Pcb \ T)
      BY <1>5
    <3> HIDE DEF w
    <3>6. (Pcb \ T) \cap Entries(w) = (Pcb \ U) \cap Entries(w)
      BY <3>4
    <3> HIDE DEF U
    <3> QED
      BY <3>1, <3>5, <3>6, OnlyAgree DEF w, U
  <2>2. /\ waiting' = [s \in Key |-> Waiters(mem', s)]
        /\ \A s \in Key : waiting[s] = Waiters(mem, s)
    BY DEF waiting, WaitingFor
  <2>3. waiting' = [s \in Key |-> Only(waiting[s], Pcb \ {q \in T : semAdds[q] = s})]
    BY <2>1, <2>2
  <2> QED
    BY <2>3, KernelTerms
<1>9. high' = K(NULL)!HighWithout(T)
  <2> DEFINE U == {q \in T : mem.p_prio[q] # 0}
  <2>1. high \in Seq(Pcb) /\ Entries(high) = Members(mem, high_ready_q)
    <3>1. high_ready_q \in InUse(Live(mem)) /\ Intact(mem, InUse(Live(mem)))
      BY <1>1 DEF InUse, Inv
    <3> QED
      BY <3>1, InListFacts DEF high
  <2>2. (Pcb \ T) \cap Entries(high) = (Pcb \ U) \cap Entries(high)
    BY <1>1, <2>1 DEF Inv, QueueInv
  <2>3. high' = Only(high, Pcb \ T) /\ K(NULL)!HighWithout(T) = Only(high, Pcb \ U)
    BY <1>5, KernelTerms DEF high
  <2> HIDE DEF U
  <2> QED
    BY <2>1, <2>2, <2>3, OnlyAgree
<1>10. low' = K(NULL)!LowWithout(T)
  <2> DEFINE U == {q \in T : mem.p_prio[q] = 0}
  <2>1. low \in Seq(Pcb) /\ Entries(low) = Members(mem, low_ready_q)
    <3>1. low_ready_q \in InUse(Live(mem)) /\ Intact(mem, InUse(Live(mem)))
      BY <1>1 DEF InUse, Inv
    <3> QED
      BY <3>1, InListFacts DEF low
  <2>2. (Pcb \ T) \cap Entries(low) = (Pcb \ U) \cap Entries(low)
    BY <1>1, <1>4, <2>1 DEF Misplaced
  <2>3. low' = Only(low, Pcb \ T) /\ K(NULL)!LowWithout(T) = Only(low, Pcb \ U)
    BY <1>5, KernelTerms DEF low
  <2> HIDE DEF U
  <2> QED
    BY <2>1, <2>2, <2>3, OnlyAgree
<1>11. UNCHANGED semAdds
  BY <1>5 DEF semAdds
<1> QED
  BY <1>6, <1>7, <1>8, <1>9, <1>10, <1>11 DEF Terminated, T

\* main() leaves the first process ready and every other block free.
LEMMA InitImplemented ==
  Init => \E p \in Pcb : free = Pcb \ {p} /\ high = <<>> /\ low = <<p>>
<1> SUFFICES ASSUME Init PROVE \E p \in Pcb : free = Pcb \ {p} /\ high = <<>> /\ low = <<p>>
  OBVIOUS
<1> DEFINE t == mkEmptyProcQ(mkEmptyProcQ(initASL(initPcbs(Static)), high_ready_q), low_ready_q)
           p == First(t, pcbFree_h)
           a == allocPcb(t)
<1>1. mem = insertProcQ(a, low_ready_q, p)
  BY DEF Init
<1>2. /\ Inv(t) /\ Members(t, pcbFree_h) = Pcb
      /\ Members(t, high_ready_q) = {} /\ Members(t, low_ready_q) = {}
  BY TablesInitialised
<1> HIDE DEF t
<1>3. /\ {pcbFree_h, high_ready_q, low_ready_q} \subseteq InUse(Live(t)) /\ Intact(t, InUse(Live(t)))
      /\ Live(t) = {} /\ 1 \in Pcb
  BY <1>2, TableAssumption DEF InUse, Inv, Live, Pcb
<1>4. /\ ~list_empty(t, pcbFree_h)
      /\ InList(t, high_ready_q) = <<>> /\ InList(t, low_ready_q) = <<>>
  BY <1>2, <1>3, MembersFacts, InListFacts
<1>5. Inv(a) /\ LooseIn(a, p) /\ p \in Pcb /\ Live(a) = {p} /\ SameReady(a, t)
  <2>1. p = First(t, pcbFree_h) /\ a = allocPcb(t)
    OBVIOUS
  <2> HIDE DEF p, a
  <2>2. Inv(t) /\ ~list_empty(t, pcbFree_h)
    BY <1>2, <1>4
  <2>3. /\ Inv(a) /\ LooseIn(a, p) /\ p \in Pcb \ Live(t) /\ Live(a) = Live(t) \cup {p}
        /\ SameReady(a, t)
    BY <2>1, <2>2, AllocKeeps
  <2> QED
    BY <1>3, <2>3
<1> HIDE DEF p, a
<1>6. low_ready_q \in {high_ready_q, low_ready_q} /\ low_ready_q # high_ready_q
  BY HeadsDiffer
<1>7. /\ Inv(mem) /\ Live(mem) = {p}
      /\ InList(mem, low_ready_q) = Append(InList(a, low_ready_q), p)
      /\ InList(mem, high_ready_q) = InList(a, high_ready_q)
  <2>1. /\ Inv(mem) /\ Live(mem) = Live(a)
        /\ InList(mem, low_ready_q) = Append(InList(a, low_ready_q), p)
        /\ \A k \in {high_ready_q, low_ready_q} : low_ready_q # k => InList(mem, k) = InList(a, k)
    BY <1>1, <1>5, <1>6, ReadyKeeps
  <2> QED
    BY <1>5, <1>6, <2>1
<1>8. free = Pcb \ {p}
  BY <1>7, FreeOnes DEF free
<1>9. high = <<>> /\ low = Append(<<>>, p)
  BY <1>4, <1>5, <1>7 DEF SameReady, high, low
<1>10. Append(<<>>, p) = <<p>>
  OBVIOUS
<1> QED
  BY <1>5, <1>8, <1>9, <1>10

\* Every call but a termination that overlooks somebody, and any call before it,
\* does to the lists what the module Kernel says of its queues, its tree and its
\* free blocks.
THEOREM ListsImplementKernel == Spec => KernelListsImplemented
<1>1. (astray = {} => IInv) /\ [Next]_vars => [astray' = {} => KernelStep]_lists
  <2> SUFFICES ASSUME astray = {} => IInv, [Next]_vars, astray' = {} PROVE [KernelStep]_lists
    OBVIOUS
  <2>0. IInv
    BY DEF Next, vars
  <2>1. Inv(mem) /\ Inv(mem)'
    BY <2>0, NextIInv DEF IInv
  <2>2. ASSUME NEW p \in Pcb, NEW prio \in Prios, CreateProcess(p, prio)
        PROVE  KernelStep
    BY <2>0, <2>1, <2>2, CreateImplemented DEF KernelStep
  <2>3. ASSUME NEW q \in {high_ready_q, low_ready_q}, Dispatch(q)
        PROVE  KernelStep
    BY <2>1, <2>3, DispatchImplemented DEF KernelStep
  <2>4. ASSUME NEW p \in Pcb, Preempt(p) \/ Yield(p)
        PROVE  KernelStep
    BY <2>1, <2>4, ReadyImplemented DEF KernelStep
  <2>5. ASSUME NEW p \in Pcb, NEW s \in Key, Block(p, s)
        PROVE  KernelStep
    BY <2>0, <2>1, <2>5, BlockImplemented DEF KernelStep
  <2>6. ASSUME NEW s \in Key, Wake(s)
        PROVE  KernelStep
    BY <2>1, <2>6, WakeImplemented DEF KernelStep
  <2>7. ASSUME NEW p \in Pcb, TerminateSelf(p) \/ TerminatePid(p)
        PROVE  KernelStep
    BY <2>0, <2>1, <2>7, TerminateImplemented DEF KernelStep
  <2>8. CASE UNCHANGED vars
    BY <2>8 DEF vars, lists, free, high, low, tree, waiting, WaitingFor, semAdds
  <2> QED
    BY <2>2, <2>3, <2>4, <2>5, <2>6, <2>7, <2>8 DEF Next, Call
<1> QED
  BY <1>1, InitImplemented, Inductive, PTL DEF Spec, KernelListsImplemented
=============================================================================
