----------------------------- MODULE ListXProofs ----------------------------
(***************************************************************************)
(* The operations of listx.h keep rings, for any number of nodes and lists *)
(* of any length: what the run lists shows for three control blocks.       *)
(***************************************************************************)
EXTENDS ListX, QueueProofs

\* A memory with links for the nodes of Node, whatever else it holds.  The
\* links of a node in no list may be anything.
Memory(m, Node) ==
  /\ m = [f \in DOMAIN m |-> m[f]] /\ {"next", "prev"} \subseteq DOMAIN m
  /\ m.next = [n \in Node |-> m.next[n]] /\ m.prev = [n \in Node |-> m.prev[n]]

\* The nodes of S form rings among themselves: from each node both links stay in
\* S, and one leads back what the other leads forth.
Rings(m, S) ==
  \A n \in S : /\ m.next[n] \in S /\ m.prev[n] \in S
               /\ m.prev[m.next[n]] = n /\ m.next[m.prev[n]] = n

\* a is m after the four assignments of __list_add.
Added(a, m, Node, new, prv, nxt) ==
  /\ Memory(a, Node)
  /\ \A n \in Node :
       /\ a.next[n] = IF n = prv THEN new ELSE IF n = new THEN nxt ELSE m.next[n]
       /\ a.prev[n] = IF n = new THEN prv ELSE IF n = nxt THEN new ELSE m.prev[n]

\* d is m after the two assignments of __list_del.
Deleted(d, m, Node, prv, nxt) ==
  /\ Memory(d, Node)
  /\ \A n \in Node : /\ d.next[n] = IF n = prv THEN nxt ELSE m.next[n]
                     /\ d.prev[n] = IF n = nxt THEN prv ELSE m.prev[n]

\* What __list_add writes, whatever it is given.
LEMMA AddLinks ==
  ASSUME NEW Node, NEW m, Memory(m, Node),
         NEW new \in Node, NEW prv \in Node, NEW nxt \in Node
  PROVE  Added(ListAddBetween(m, new, prv, nxt), m, Node, new, prv, nxt)
BY DEF Memory, ListAddBetween, Added

\* What __list_del writes, whatever it is given.
LEMMA DelLinks ==
  ASSUME NEW Node, NEW m, Memory(m, Node), NEW prv \in Node, NEW nxt \in Node
  PROVE  Deleted(ListDelBetween(m, prv, nxt), m, Node, prv, nxt)
BY DEF Memory, ListDelBetween, Deleted

-----------------------------------------------------------------------------
\* A node that is in no ring joins one between two neighbours, and every ring
\* stays a ring.
LEMMA AddKeepsRings ==
  ASSUME NEW Node, NEW m, Memory(m, Node), NEW S \in SUBSET Node, Rings(m, S),
         NEW new \in Node \ S, NEW prv \in S
  PROVE  LET a == ListAddBetween(m, new, prv, m.next[prv])
         IN  Memory(a, Node) /\ Rings(a, S \cup {new})
<1> DEFINE nxt == m.next[prv]
           a   == ListAddBetween(m, new, prv, nxt)
<1>1. /\ nxt \in S /\ m.prev[nxt] = prv
      /\ new \in Node /\ prv \in Node /\ nxt \in Node
  BY DEF Rings
<1>2. Added(a, m, Node, new, prv, nxt)
  BY <1>1, AddLinks
<1>3. ASSUME NEW n \in S, n # prv
      PROVE  a.next[n] = m.next[n] /\ m.next[n] # nxt /\ m.next[n] \in S
  BY <1>1, <1>2, <1>3 DEF Rings, Added
<1>4. ASSUME NEW n \in S, n # nxt
      PROVE  a.prev[n] = m.prev[n] /\ m.prev[n] # prv /\ m.prev[n] \in S
  BY <1>1, <1>2, <1>4 DEF Rings, Added
<1>5. /\ a.next[prv] = new /\ a.prev[new] = prv
      /\ a.next[new] = nxt /\ a.prev[nxt] = new
  BY <1>1, <1>2 DEF Added
<1>6. ASSUME NEW n \in S \cup {new}
      PROVE  a.next[n] \in S \cup {new} /\ a.prev[a.next[n]] = n
  <2>1. CASE n = new
    BY <1>1, <1>5, <2>1
  <2>2. CASE n = prv
    BY <1>5, <2>2
  <2>3. CASE n \in S /\ n # prv
    <3>1. a.next[n] = m.next[n] /\ m.next[n] # nxt /\ m.next[n] \in S
      BY <1>3, <2>3
    <3>2. a.prev[m.next[n]] = m.prev[m.next[n]]
      BY <1>4, <3>1
    <3> QED
      BY <2>3, <3>1, <3>2 DEF Rings
  <2> QED
    BY <2>1, <2>2, <2>3
<1>7. ASSUME NEW n \in S \cup {new}
      PROVE  a.prev[n] \in S \cup {new} /\ a.next[a.prev[n]] = n
  <2>1. CASE n = new
    BY <1>5, <2>1
  <2>2. CASE n = nxt
    BY <1>1, <1>5, <2>2
  <2>3. CASE n \in S /\ n # nxt
    <3>1. a.prev[n] = m.prev[n] /\ m.prev[n] # prv /\ m.prev[n] \in S
      BY <1>4, <2>3
    <3>2. a.next[m.prev[n]] = m.next[m.prev[n]]
      BY <1>3, <3>1
    <3> QED
      BY <2>3, <3>1, <3>2 DEF Rings
  <2> QED
    BY <2>1, <2>2, <2>3
<1> QED
  BY <1>2, <1>6, <1>7 DEF Rings, Added

\* mkEmptyProcQ, initASL, and the child and sibling lists allocPcb makes: a node
\* that is in no list becomes an empty list, and all lists stay lists.
THEOREM ListInitCorrect ==
  ASSUME NEW Node, NEW m, Memory(m, Node), NEW S \in SUBSET Node, Rings(m, S),
         NEW l \in Node \ S
  PROVE  /\ Memory(INIT_LIST_HEAD(m, l), Node)
         /\ Rings(INIT_LIST_HEAD(m, l), S \cup {l})
         /\ list_empty(INIT_LIST_HEAD(m, l), l)
<1> DEFINE a == INIT_LIST_HEAD(m, l)
<1>1. /\ Memory(a, Node)
      /\ a.next = [m.next EXCEPT ![l] = l] /\ a.prev = [m.prev EXCEPT ![l] = l]
  BY DEF Memory, INIT_LIST_HEAD
<1>2. \A n \in Node : /\ a.next[n] = IF n = l THEN l ELSE m.next[n]
                      /\ a.prev[n] = IF n = l THEN l ELSE m.prev[n]
  BY <1>1 DEF Memory
<1>3. Rings(a, S \cup {l})
  BY <1>2 DEF Rings
<1> QED
  BY <1>1, <1>2, <1>3 DEF list_empty

\* insertProcQ, insertBlocked, insertChild and freePcb: adding a node that is in
\* no list, at either end of a list, leaves all lists lists.
THEOREM ListAddCorrect ==
  ASSUME NEW Node, NEW m, Memory(m, Node), NEW S \in SUBSET Node, Rings(m, S),
         NEW new \in Node \ S, NEW head \in S
  PROVE  /\ Memory(list_add(m, new, head), Node)
         /\ Rings(list_add(m, new, head), S \cup {new})
         /\ list_next(list_add(m, new, head), head, head) = new
         /\ Memory(list_add_tail(m, new, head), Node)
         /\ Rings(list_add_tail(m, new, head), S \cup {new})
         /\ list_add_tail(m, new, head).prev[head] = new
<1>1. /\ m.next[head] \in S /\ m.prev[head] \in S /\ m.next[m.prev[head]] = head
      /\ m.next[head] \in Node /\ m.prev[head] \in Node /\ head \in Node /\ new \in Node
  BY DEF Rings
<1>2. Memory(list_add(m, new, head), Node) /\ Rings(list_add(m, new, head), S \cup {new})
  BY AddKeepsRings DEF list_add
<1>3. /\ Memory(list_add_tail(m, new, head), Node)
      /\ Rings(list_add_tail(m, new, head), S \cup {new})
  BY <1>1, AddKeepsRings DEF list_add_tail
<1>4. list_add(m, new, head).next[head] = new
  <2>1. Added(list_add(m, new, head), m, Node, new, head, m.next[head])
    BY <1>1, AddLinks DEF list_add
  <2> QED
    BY <1>1, <2>1 DEF Added
<1>5. list_add_tail(m, new, head).prev[head] = new
  <2>1. Added(list_add_tail(m, new, head), m, Node, new, m.prev[head], head)
    BY <1>1, AddLinks DEF list_add_tail
  <2> QED
    BY <1>1, <2>1 DEF Added
<1> QED
  BY <1>2, <1>3, <1>4, <1>5 DEF list_next, list_empty

\* removeProcQ, outProcQ, removeChild, outChild and the moves of descriptors:
\* deleting a node of a list leaves all lists lists, without it.
THEOREM ListDelCorrect ==
  ASSUME NEW Node, NEW m, Memory(m, Node), NEW S \in SUBSET Node, Rings(m, S),
         NEW entry \in S
  PROVE  /\ Memory(list_del(m, entry), Node)
         /\ Rings(list_del(m, entry), S \ {entry})
<1> DEFINE d   == list_del(m, entry)
           prv == m.prev[entry]
           nxt == m.next[entry]
<1>1. /\ prv \in S /\ nxt \in S /\ m.next[prv] = entry /\ m.prev[nxt] = entry
      /\ prv \in Node /\ nxt \in Node /\ S \subseteq Node
  BY DEF Rings
<1>2. Deleted(d, m, Node, prv, nxt)
  BY <1>1, DelLinks DEF list_del
<1>3. ASSUME NEW n \in S \ {entry}
      PROVE  d.next[n] \in S \ {entry} /\ d.prev[d.next[n]] = n
  <2>1. CASE n = prv
    BY <1>1, <1>2, <2>1 DEF Rings, Deleted
  <2>2. CASE n # prv
    <3>1. d.next[n] = m.next[n] /\ m.next[n] \in S /\ m.prev[m.next[n]] = n
      BY <1>1, <1>2, <2>2 DEF Rings, Deleted
    <3>2. m.next[n] # entry /\ m.next[n] # nxt
      BY <1>1, <2>2, <3>1
    <3> QED
      BY <1>1, <1>2, <3>1, <3>2 DEF Deleted
  <2> QED
    BY <2>1, <2>2
<1>4. ASSUME NEW n \in S \ {entry}
      PROVE  d.prev[n] \in S \ {entry} /\ d.next[d.prev[n]] = n
  <2>1. CASE n = nxt
    BY <1>1, <1>2, <2>1 DEF Rings, Deleted
  <2>2. CASE n # nxt
    <3>1. d.prev[n] = m.prev[n] /\ m.prev[n] \in S /\ m.next[m.prev[n]] = n
      BY <1>1, <1>2, <2>2 DEF Rings, Deleted
    <3>2. m.prev[n] # entry /\ m.prev[n] # prv
      BY <1>1, <2>2, <3>1
    <3> QED
      BY <1>1, <1>2, <3>1, <3>2 DEF Deleted
  <2> QED
    BY <2>1, <2>2
<1> QED
  BY <1>2, <1>3, <1>4 DEF Rings, Deleted

\* freePcb after outProcQ, removeBlocked's return of a descriptor, and a
\* dispatch followed by a preemption: a node taken out of one list and put into
\* another leaves all lists lists, although list_del has not reset its links.
THEOREM ListMoveCorrect ==
  ASSUME NEW Node, NEW m, Memory(m, Node), NEW S \in SUBSET Node, Rings(m, S),
         NEW entry \in S, NEW head \in S \ {entry}
  PROVE  /\ Rings(list_add(list_del(m, entry), entry, head), S)
         /\ Rings(list_add_tail(list_del(m, entry), entry, head), S)
<1>1. Memory(list_del(m, entry), Node) /\ Rings(list_del(m, entry), S \ {entry})
  BY ListDelCorrect
<1>2. (S \ {entry}) \cup {entry} = S /\ S \ {entry} \in SUBSET Node /\ entry \in Node \ (S \ {entry})
  OBVIOUS
<1> QED
  BY <1>1, <1>2, ListAddCorrect

-----------------------------------------------------------------------------
(* Which nodes a list has, and in which order.                             *)

\* The i-th node after the head h of a list of the nodes s; past its end is
\* the head again.
At(h, s, i) == IF i \in 1..Len(s) THEN s[i] ELSE h

\* From the head h one meets the nodes of s in their order, and in the reverse
\* order against the links, and then the head again.
Chain(m, h, s) ==
  /\ NoRepeats(s) /\ h \notin Entries(s)
  /\ \A i \in 0..Len(s) : /\ m.next[At(h, s, i)] = At(h, s, i + 1)
                          /\ m.prev[At(h, s, i + 1)] = At(h, s, i)

\* s with n behind its first k nodes, and without its k-th node.
Inserted(s, k, n) ==
  [i \in 1..(Len(s) + 1) |-> IF i <= k THEN s[i] ELSE IF i = k + 1 THEN n ELSE s[i - 1]]
Dropped(s, k) == [i \in 1..(Len(s) - 1) |-> IF i < k THEN s[i] ELSE s[i + 1]]

\* The positions of a list.
LEMMA AtFacts ==
  ASSUME NEW Node, NEW h \in Node, NEW s \in Seq(Node), NoRepeats(s), h \notin Entries(s)
  PROVE  /\ At(h, s, 0) = h /\ At(h, s, Len(s) + 1) = h
         /\ \A i \in 0..(Len(s) + 1) : At(h, s, i) \in {h} \cup Entries(s) /\ At(h, s, i) \in Node
         /\ \A i, j \in 0..Len(s) : At(h, s, i) = At(h, s, j) => i = j
         /\ \A i, j \in 1..(Len(s) + 1) : At(h, s, i) = At(h, s, j) => i = j
<1>1. Len(s) \in Nat /\ DOMAIN s = 1..Len(s)
  OBVIOUS
<1>2. \A i \in 1..Len(s) : At(h, s, i) = s[i] /\ s[i] \in Entries(s) /\ s[i] # h /\ s[i] \in Node
  BY <1>1 DEF At, Entries
<1>3. \A i \in 0..(Len(s) + 1) : i \notin 1..Len(s) => At(h, s, i) = h
  BY DEF At
<1>4. \A i, j \in 1..Len(s) : s[i] = s[j] => i = j
  BY <1>1 DEF NoRepeats
<1>5. At(h, s, 0) = h /\ At(h, s, Len(s) + 1) = h
  BY <1>1, <1>3
<1>6. \A i, j \in 0..Len(s) : At(h, s, i) = At(h, s, j) => i = j
  BY <1>1, <1>2, <1>3, <1>4
<1>7. \A i, j \in 1..(Len(s) + 1) : At(h, s, i) = At(h, s, j) => i = j
  BY <1>1, <1>2, <1>3, <1>4
<1>8. \A i \in 0..(Len(s) + 1) : At(h, s, i) \in {h} \cup Entries(s) /\ At(h, s, i) \in Node
  BY <1>1, <1>2, <1>3
<1> QED
  BY <1>5, <1>6, <1>7, <1>8

\* The sequences with a node more and with a node less.
LEMMA InsertedFacts ==
  ASSUME NEW Node, NEW h \in Node, NEW s \in Seq(Node), NoRepeats(s), h \notin Entries(s),
         NEW n \in Node, n # h, n \notin Entries(s), NEW k \in 0..Len(s)
  PROVE  /\ Inserted(s, k, n) \in Seq(Node) /\ Len(Inserted(s, k, n)) = Len(s) + 1
         /\ NoRepeats(Inserted(s, k, n)) /\ Entries(Inserted(s, k, n)) = Entries(s) \cup {n}
         /\ \A i \in 0..(Len(s) + 2) : At(h, Inserted(s, k, n), i) =
              IF i <= k THEN At(h, s, i) ELSE IF i = k + 1 THEN n ELSE At(h, s, i - 1)
<1> DEFINE t == Inserted(s, k, n)
<1>1. Len(s) \in Nat /\ DOMAIN s = 1..Len(s)
  OBVIOUS
<1>2. /\ t \in Seq(Node) /\ Len(t) = Len(s) + 1 /\ DOMAIN t = 1..(Len(s) + 1)
      /\ \A i \in 1..(Len(s) + 1) :
           t[i] = IF i <= k THEN s[i] ELSE IF i = k + 1 THEN n ELSE s[i - 1]
  BY <1>1 DEF Inserted
<1> HIDE DEF t
<1>3. \A i \in 1..Len(s) : s[i] # n /\ s[i] \in Entries(s)
  BY <1>1 DEF Entries
<1>4. NoRepeats(t)
  <2> SUFFICES ASSUME NEW i \in 1..(Len(s) + 1), NEW j \in 1..(Len(s) + 1), t[i] = t[j]
               PROVE  i = j
    BY <1>2 DEF NoRepeats
  <2>1. \A x, y \in 1..Len(s) : s[x] = s[y] => x = y
    BY <1>1 DEF NoRepeats
  <2>2. ASSUME NEW x \in 1..(Len(s) + 1)
        PROVE  \/ x <= k /\ x \in 1..Len(s) /\ t[x] = s[x]
               \/ x = k + 1 /\ t[x] = n
               \/ x > k + 1 /\ x - 1 \in 1..Len(s) /\ t[x] = s[x - 1]
    BY <1>1, <1>2
  <2>3. i \in Nat /\ j \in Nat
    BY <1>1
  <2>4. CASE i <= k
    BY <1>1, <1>3, <2>1, <2>2, <2>3, <2>4
  <2>5. CASE i = k + 1
    BY <1>1, <1>3, <2>1, <2>2, <2>3, <2>5
  <2>6. CASE i > k + 1
    BY <1>1, <1>3, <2>1, <2>2, <2>3, <2>6
  <2> QED
    BY <2>3, <2>4, <2>5, <2>6
<1>5. Entries(t) = Entries(s) \cup {n}
  <2>1. \A i \in 1..(Len(s) + 1) : t[i] \in Entries(s) \cup {n}
    BY <1>1, <1>2, <1>3
  <2>2. t[k + 1] = n /\ k + 1 \in 1..(Len(s) + 1)
    BY <1>1, <1>2
  <2>3. ASSUME NEW i \in 1..Len(s)
        PROVE  s[i] \in Entries(t)
    <3>1. CASE i <= k
      <4>1. t[i] = s[i] /\ i \in 1..(Len(s) + 1)
        BY <1>1, <1>2, <3>1
      <4> QED
        BY <1>2, <4>1 DEF Entries
    <3>2. CASE i > k
      <4>1. t[i + 1] = s[i] /\ i + 1 \in 1..(Len(s) + 1)
        BY <1>1, <1>2, <3>2
      <4> QED
        BY <1>2, <4>1 DEF Entries
    <3> QED
      BY <3>1, <3>2
  <2> QED
    BY <1>1, <1>2, <2>1, <2>2, <2>3 DEF Entries
<1>6. \A i \in 0..(Len(s) + 2) :
        At(h, t, i) = IF i <= k THEN At(h, s, i) ELSE IF i = k + 1 THEN n ELSE At(h, s, i - 1)
  BY <1>1, <1>2 DEF At
<1> QED
  BY <1>2, <1>4, <1>5, <1>6 DEF t

\* A sequence without its k-th entry: what is in it, and where.
LEMMA DroppedFacts ==
  ASSUME NEW Node, NEW h \in Node, NEW s \in Seq(Node), NoRepeats(s), h \notin Entries(s),
         NEW k \in 1..Len(s)
  PROVE  /\ Dropped(s, k) \in Seq(Node) /\ Len(Dropped(s, k)) = Len(s) - 1
         /\ NoRepeats(Dropped(s, k)) /\ Entries(Dropped(s, k)) = Entries(s) \ {s[k]}
         /\ \A i \in 0..Len(s) :
              At(h, Dropped(s, k), i) = IF i < k THEN At(h, s, i) ELSE At(h, s, i + 1)
<1> DEFINE t == Dropped(s, k)
<1>1. Len(s) \in Nat \ {0} /\ DOMAIN s = 1..Len(s)
  OBVIOUS
<1>2. /\ t \in Seq(Node) /\ Len(t) = Len(s) - 1 /\ DOMAIN t = 1..(Len(s) - 1)
      /\ \A i \in 1..(Len(s) - 1) : t[i] = IF i < k THEN s[i] ELSE s[i + 1]
  BY <1>1 DEF Dropped
<1> HIDE DEF t
<1>3. \A x, y \in 1..Len(s) : s[x] = s[y] => x = y
  BY <1>1 DEF NoRepeats
<1>4. NoRepeats(t)
  <2> SUFFICES ASSUME NEW i \in 1..(Len(s) - 1), NEW j \in 1..(Len(s) - 1), t[i] = t[j]
               PROVE  i = j
    BY <1>2 DEF NoRepeats
  <2> QED
    BY <1>1, <1>2, <1>3
<1>5. Entries(t) = Entries(s) \ {s[k]}
  <2>1. \A i \in 1..(Len(s) - 1) : t[i] \in Entries(s) \ {s[k]}
    BY <1>1, <1>2, <1>3 DEF Entries
  <2>2. ASSUME NEW i \in 1..Len(s), s[i] # s[k]
        PROVE  s[i] \in Entries(t)
    <3>1. CASE i < k
      <4>1. t[i] = s[i] /\ i \in 1..(Len(s) - 1)
        BY <1>1, <1>2, <3>1
      <4> QED
        BY <1>2, <4>1 DEF Entries
    <3>2. CASE i > k
      <4>1. t[i - 1] = s[i] /\ i - 1 \in 1..(Len(s) - 1)
        BY <1>1, <1>2, <3>2
      <4> QED
        BY <1>2, <4>1 DEF Entries
    <3> QED
      BY <2>2, <3>1, <3>2
  <2> QED
    BY <1>1, <1>2, <2>1, <2>2 DEF Entries
<1>6. \A i \in 0..Len(s) : At(h, t, i) = IF i < k THEN At(h, s, i) ELSE At(h, s, i + 1)
  BY <1>1, <1>2 DEF At
<1> QED
  BY <1>2, <1>4, <1>5, <1>6 DEF t

\* An initialised list_head is an empty list.
LEMMA ChainInit ==
  ASSUME NEW Node, NEW m, Memory(m, Node), NEW h \in Node
  PROVE  Chain(INIT_LIST_HEAD(m, h), h, <<>>)
<1> DEFINE a == INIT_LIST_HEAD(m, h)
<1>1. a.next = [m.next EXCEPT ![h] = h] /\ a.prev = [m.prev EXCEPT ![h] = h]
  BY DEF Memory, INIT_LIST_HEAD
<1>2. a.next[h] = h /\ a.prev[h] = h
  BY <1>1 DEF Memory
<1>3. Len(<<>>) = 0 /\ 0..0 = {0} /\ At(h, <<>>, 0) = h /\ At(h, <<>>, 1) = h
  BY DEF At
<1> HIDE DEF a
<1>4. \A i \in 0..Len(<<>>) : /\ a.next[At(h, <<>>, i)] = At(h, <<>>, i + 1)
                              /\ a.prev[At(h, <<>>, i + 1)] = At(h, <<>>, i)
  BY <1>2, <1>3
<1> QED
  BY <1>4, EntriesOfNothing DEF Chain, a

\* A list whose links are not touched stays as it is.
LEMMA ChainFrame ==
  ASSUME NEW Node, NEW m, NEW a, NEW h \in Node, NEW s \in Seq(Node), Chain(m, h, s),
         \A n \in {h} \cup Entries(s) : a.next[n] = m.next[n] /\ a.prev[n] = m.prev[n]
  PROVE  Chain(a, h, s)
<1>1. /\ NoRepeats(s) /\ h \notin Entries(s) /\ Len(s) \in Nat
      /\ \A i \in 0..Len(s) : /\ m.next[At(h, s, i)] = At(h, s, i + 1)
                              /\ m.prev[At(h, s, i + 1)] = At(h, s, i)
  BY DEF Chain
<1>2. \A i \in 0..(Len(s) + 1) : At(h, s, i) \in {h} \cup Entries(s)
  BY <1>1, AtFacts
<1> QED
  BY <1>1, <1>2 DEF Chain

\* __list_add between two neighbours of a list puts the new node there.
LEMMA ChainAdd ==
  ASSUME NEW Node, NEW m, Memory(m, Node), NEW h \in Node, NEW s \in Seq(Node), Chain(m, h, s),
         NEW n \in Node, n # h, n \notin Entries(s), NEW k \in 0..Len(s)
  PROVE  Chain(ListAddBetween(m, n, At(h, s, k), At(h, s, k + 1)), h, Inserted(s, k, n))
<1> DEFINE prv == At(h, s, k)
           nxt == At(h, s, k + 1)
           a   == ListAddBetween(m, n, prv, nxt)
           t   == Inserted(s, k, n)
<1>1. /\ NoRepeats(s) /\ h \notin Entries(s) /\ Len(s) \in Nat
      /\ \A i \in 0..Len(s) : /\ m.next[At(h, s, i)] = At(h, s, i + 1)
                              /\ m.prev[At(h, s, i + 1)] = At(h, s, i)
  BY DEF Chain
<1>2. /\ \A i \in 0..(Len(s) + 1) : At(h, s, i) \in {h} \cup Entries(s) /\ At(h, s, i) \in Node
      /\ \A i, j \in 0..Len(s) : At(h, s, i) = At(h, s, j) => i = j
      /\ \A i, j \in 1..(Len(s) + 1) : At(h, s, i) = At(h, s, j) => i = j
  BY <1>1, AtFacts
<1>3. /\ Len(t) = Len(s) + 1 /\ NoRepeats(t) /\ Entries(t) = Entries(s) \cup {n}
      /\ \A i \in 0..(Len(s) + 2) :
           At(h, t, i) = IF i <= k THEN At(h, s, i) ELSE IF i = k + 1 THEN n ELSE At(h, s, i - 1)
  BY <1>1, InsertedFacts
<1>4. prv \in Node /\ nxt \in Node
  BY <1>1, <1>2
<1>5. Added(a, m, Node, n, prv, nxt)
  BY <1>4, AddLinks
<1> HIDE DEF a, t
<1>6. ASSUME NEW i \in 0..Len(t)
      PROVE  a.next[At(h, t, i)] = At(h, t, i + 1) /\ a.prev[At(h, t, i + 1)] = At(h, t, i)
  <2>1. i \in Nat /\ k \in Nat /\ i + 1 \in 0..(Len(s) + 2) /\ i \in 0..(Len(s) + 2)
    BY <1>1, <1>3
  <2>2. CASE i < k
    <3>1. At(h, t, i) = At(h, s, i) /\ At(h, t, i + 1) = At(h, s, i + 1)
      BY <1>3, <2>1, <2>2
    <3>2. /\ i \in 0..Len(s) /\ i + 1 \in 1..(Len(s) + 1) /\ k + 1 \in 1..(Len(s) + 1)
          /\ i \in 0..(Len(s) + 1) /\ i + 1 \in 0..(Len(s) + 1) /\ i # k /\ i + 1 # k + 1
      BY <1>1, <2>1, <2>2
    <3>3. At(h, s, i) # prv /\ At(h, s, i + 1) # nxt
      BY <1>2, <3>2
    <3>4. At(h, s, i) # n /\ At(h, s, i + 1) # n /\ At(h, s, i) \in Node /\ At(h, s, i + 1) \in Node
      BY <1>2, <3>2
    <3> QED
      BY <1>1, <1>5, <3>1, <3>2, <3>3, <3>4 DEF Added
  <2>3. CASE i = k
    <3>1. At(h, t, i) = prv /\ At(h, t, i + 1) = n
      BY <1>3, <2>1, <2>3
    <3> QED
      BY <1>4, <1>5, <3>1 DEF Added
  <2>4. CASE i = k + 1
    <3>1. At(h, t, i) = n /\ At(h, t, i + 1) = nxt
      BY <1>3, <2>1, <2>4
    <3>2. prv # n /\ nxt # n
      BY <1>1, <1>2
    <3> QED
      BY <1>4, <1>5, <3>1, <3>2 DEF Added
  <2>5. CASE i > k + 1
    <3>0. PICK j \in 0..Len(s) : j = i - 1
      BY <1>1, <1>3, <2>1, <2>5
    <3>1. At(h, t, i) = At(h, s, j) /\ At(h, t, i + 1) = At(h, s, j + 1)
      <4>1. i - 1 = j /\ (i + 1) - 1 = j + 1
        BY <2>1, <3>0
      <4> QED
        BY <1>3, <2>1, <2>5, <4>1
    <3>2. /\ j + 1 \in 1..(Len(s) + 1) /\ k + 1 \in 1..(Len(s) + 1)
          /\ j \in 0..(Len(s) + 1) /\ j + 1 \in 0..(Len(s) + 1) /\ j # k /\ j + 1 # k + 1
      BY <1>1, <2>1, <2>5, <3>0
    <3>3. At(h, s, j) # prv /\ At(h, s, j + 1) # nxt
      BY <1>2, <3>2
    <3>4. At(h, s, j) # n /\ At(h, s, j + 1) # n /\ At(h, s, j) \in Node /\ At(h, s, j + 1) \in Node
      BY <1>2, <3>2
    <3> QED
      BY <1>1, <1>5, <3>1, <3>2, <3>3, <3>4 DEF Added
  <2> QED
    BY <2>1, <2>2, <2>3, <2>4, <2>5
<1>7. h \notin Entries(t)
  BY <1>1, <1>3
<1> QED
  BY <1>3, <1>6, <1>7 DEF Chain, a, t

\* list_del takes a node out of its list and leaves the others in their order.
LEMMA ChainDel ==
  ASSUME NEW Node, NEW m, Memory(m, Node), NEW h \in Node, NEW s \in Seq(Node), Chain(m, h, s),
         NEW k \in 1..Len(s)
  PROVE  /\ Chain(list_del(m, s[k]), h, Dropped(s, k))
         /\ m.prev[s[k]] = At(h, s, k - 1) /\ m.next[s[k]] = At(h, s, k + 1)
<1> DEFINE prv == At(h, s, k - 1)
           nxt == At(h, s, k + 1)
           d   == list_del(m, s[k])
           t   == Dropped(s, k)
<1>1. /\ NoRepeats(s) /\ h \notin Entries(s) /\ Len(s) \in Nat
      /\ \A i \in 0..Len(s) : /\ m.next[At(h, s, i)] = At(h, s, i + 1)
                              /\ m.prev[At(h, s, i + 1)] = At(h, s, i)
  BY DEF Chain
<1>2. /\ \A i \in 0..(Len(s) + 1) : At(h, s, i) \in {h} \cup Entries(s) /\ At(h, s, i) \in Node
      /\ \A i, j \in 0..Len(s) : At(h, s, i) = At(h, s, j) => i = j
      /\ \A i, j \in 1..(Len(s) + 1) : At(h, s, i) = At(h, s, j) => i = j
  BY <1>1, AtFacts
<1>3. /\ Len(t) = Len(s) - 1 /\ NoRepeats(t) /\ Entries(t) = Entries(s) \ {s[k]}
      /\ \A i \in 0..Len(s) : At(h, t, i) = IF i < k THEN At(h, s, i) ELSE At(h, s, i + 1)
  BY <1>1, DroppedFacts
<1>4. prv \in Node /\ nxt \in Node /\ At(h, s, k) = s[k] /\ k - 1 \in 0..Len(s) /\ k \in Nat
  BY <1>1, <1>2 DEF At
<1>5. m.prev[s[k]] = prv /\ m.next[s[k]] = nxt
  <2>1. (k - 1) + 1 = k /\ k \in 0..Len(s)
    BY <1>4
  <2> QED
    BY <1>1, <1>4, <2>1
<1>6. Deleted(d, m, Node, prv, nxt)
  BY <1>4, <1>5, DelLinks DEF list_del
<1> HIDE DEF d, t
<1>7. ASSUME NEW i \in 0..Len(t)
      PROVE  d.next[At(h, t, i)] = At(h, t, i + 1) /\ d.prev[At(h, t, i + 1)] = At(h, t, i)
  <2>1. i \in Nat /\ i \in 0..Len(s) /\ i + 1 \in 0..Len(s)
    BY <1>1, <1>3
  <2>2. CASE i < k - 1
    <3>1. At(h, t, i) = At(h, s, i) /\ At(h, t, i + 1) = At(h, s, i + 1)
      BY <1>3, <1>4, <2>1, <2>2
    <3>2. /\ i + 1 \in 1..(Len(s) + 1) /\ k + 1 \in 1..(Len(s) + 1)
          /\ i \in 0..(Len(s) + 1) /\ i + 1 \in 0..(Len(s) + 1) /\ i # k - 1 /\ i + 1 # k + 1
      BY <1>1, <1>4, <2>1, <2>2
    <3>3. At(h, s, i) # prv /\ At(h, s, i + 1) # nxt
      BY <1>2, <1>4, <2>1, <3>2
    <3>4. At(h, s, i) \in Node /\ At(h, s, i + 1) \in Node
      BY <1>2, <3>2
    <3> QED
      BY <1>1, <1>6, <2>1, <3>1, <3>3, <3>4 DEF Deleted
  <2>3. CASE i = k - 1
    <3>1. At(h, t, i) = prv /\ At(h, t, i + 1) = nxt
      <4>1. i < k /\ ~(i + 1 < k) /\ (i + 1) + 1 = k + 1
        BY <1>4, <2>1, <2>3
      <4> QED
        BY <1>3, <2>1, <2>3, <4>1
    <3> QED
      BY <1>4, <1>6, <3>1 DEF Deleted
  <2>4. CASE i > k - 1
    <3>0. PICK j \in 0..Len(s) : j = i + 1
      BY <2>1
    <3>1. At(h, t, i) = At(h, s, j) /\ At(h, t, i + 1) = At(h, s, j + 1)
      BY <1>3, <1>4, <2>1, <2>4, <3>0
    <3>2. /\ j + 1 \in 1..(Len(s) + 1) /\ k + 1 \in 1..(Len(s) + 1)
          /\ j \in 0..(Len(s) + 1) /\ j + 1 \in 0..(Len(s) + 1) /\ j # k - 1 /\ j + 1 # k + 1
      BY <1>1, <1>4, <2>1, <2>4, <3>0
    <3>3. At(h, s, j) # prv /\ At(h, s, j + 1) # nxt
      BY <1>2, <1>4, <3>2
    <3>4. At(h, s, j) \in Node /\ At(h, s, j + 1) \in Node
      BY <1>2, <3>2
    <3> QED
      BY <1>1, <1>6, <3>1, <3>3, <3>4 DEF Deleted
  <2> QED
    BY <1>4, <2>1, <2>2, <2>3, <2>4
<1>8. h \notin Entries(t)
  BY <1>1, <1>3
<1> QED
  BY <1>3, <1>5, <1>7, <1>8 DEF Chain, d, t

-----------------------------------------------------------------------------
(* Taking an entry out, as outProcQ does.                                  *)

\* A sequence is its domain and its values.
LEMMA SeqEqual ==
  ASSUME NEW T, NEW q \in Seq(T), NEW r \in Seq(T), Len(q) = Len(r),
         \A i \in 1..Len(q) : q[i] = r[i]
  PROVE  q = r
OBVIOUS

\* The entry is left out of the sequence.
LEMMA OnlyDropped ==
  ASSUME NEW T, NEW q \in Seq(T), NoRepeats(q), NEW k \in 1..Len(q)
  PROVE  Only(q, T \ {q[k]}) = Dropped(q, k)
<1> DEFINE S == T \ {q[k]}
           d == Dropped(q, k)
           Good(f, n) == /\ f[n] \in Seq(T)
                         /\ n < k => Len(f[n]) = n /\ \A i \in 1..n : f[n][i] = q[i]
                         /\ n >= k => Len(f[n]) = n - 1 /\ \A i \in 1..(n - 1) : f[n][i] = d[i]
<1>0. Len(q) \in Nat /\ DOMAIN q = 1..Len(q) /\ k \in Nat /\ \A i \in 1..Len(q) : q[i] \in T
  OBVIOUS
<1>1. PICK f : Kept(q, S, f, Len(q)) /\ Only(q, S) = f[Len(q)]
  BY OnlyUnfolds
<1>2. /\ d \in Seq(T) /\ Len(d) = Len(q) - 1
      /\ \A i \in 1..(Len(q) - 1) : d[i] = IF i < k THEN q[i] ELSE q[i + 1]
  BY <1>0 DEF Dropped
<1> DEFINE Bad == {n \in 0..Len(q) : ~Good(f, n)}
<1>3. Bad = {}
  <2>1. SUFFICES ASSUME Bad # {} PROVE FALSE
    OBVIOUS
  <2>2. PICK n \in Bad : \A m \in Bad : n <= m
    <3>1. Bad \in SUBSET Nat
      OBVIOUS
    <3> HIDE DEF Bad
    <3> QED
      BY <2>1, <3>1, LeastNat
  <2>3. n \in 0..Len(q) /\ ~Good(f, n)
    OBVIOUS
  <2>4. Good(f, 0)
    <3>1. f[0] = <<>>
      BY <1>1 DEF Kept
    <3> QED
      BY <1>0, <3>1
  <2>5. n \in 1..Len(q) /\ n - 1 \in 0..Len(q) /\ Good(f, n - 1)
    <3>1. n # 0
      BY <2>3, <2>4
    <3>2. n - 1 \in 0..Len(q) /\ n - 1 \notin Bad
      <4> HIDE DEF Bad
      <4> QED
        BY <2>2, <2>3, <3>1
    <3> QED
      BY <2>3, <3>1, <3>2
  <2>6. f[n] = IF q[n] \in S THEN Append(f[n - 1], q[n]) ELSE f[n - 1]
    BY <1>1, <2>5 DEF Kept
  <2>7. q[n] \in T /\ (q[n] \in S <=> n # k)
    BY <1>0, <2>5 DEF NoRepeats
  <2> DEFINE g == f[n - 1]
             x == q[n]
  <2>8. /\ g \in Seq(T)
        /\ n - 1 < k => Len(g) = n - 1 /\ \A i \in 1..(n - 1) : g[i] = q[i]
        /\ n - 1 >= k => Len(g) = n - 2 /\ \A i \in 1..(n - 2) : g[i] = d[i]
    BY <1>0, <2>5
  <2>9. /\ Append(g, x) \in Seq(T) /\ Len(Append(g, x)) = Len(g) + 1
        /\ Append(g, x)[Len(g) + 1] = x
        /\ \A i \in 1..Len(g) : Append(g, x)[i] = g[i]
    BY <2>7, <2>8
  <2>10. f[n] = IF n # k THEN Append(g, x) ELSE g
    BY <2>6, <2>7
  <2> HIDE DEF Bad, d
  <2>11. CASE n < k
    <3>1. Len(g) = n - 1 /\ \A i \in 1..(n - 1) : g[i] = q[i]
      BY <1>0, <2>5, <2>8, <2>11
    <3>2. f[n] = Append(g, x)
      BY <2>10, <2>11
    <3> HIDE DEF g
    <3>3. Len(f[n]) = n /\ \A i \in 1..n : f[n][i] = q[i]
      BY <2>5, <2>9, <3>1, <3>2
    <3> QED
      BY <1>0, <2>3, <2>5, <2>9, <2>11, <3>2, <3>3
  <2>12. CASE n = k
    <3>1. Len(g) = n - 1 /\ \A i \in 1..(n - 1) : g[i] = q[i]
      BY <1>0, <2>5, <2>8, <2>12
    <3>2. ASSUME NEW i \in 1..(n - 1)
          PROVE  d[i] = q[i]
      <4>1. i \in 1..(Len(q) - 1) /\ i < k
        BY <1>0, <2>5, <2>12
      <4> QED
        BY <1>2, <4>1
    <3> QED
      BY <1>0, <2>3, <2>5, <2>8, <2>10, <2>12, <3>1, <3>2
  <2>13. CASE n > k
    <3>1. Len(g) = n - 2 /\ \A i \in 1..(n - 2) : g[i] = d[i]
      BY <1>0, <2>5, <2>8, <2>13
    <3>2. d[n - 1] = x
      BY <1>0, <1>2, <2>5, <2>13
    <3>3. f[n] = Append(g, x)
      BY <2>10, <2>13
    <3> HIDE DEF g, x
    <3>4. Len(f[n]) = n - 1 /\ \A i \in 1..(n - 1) : f[n][i] = d[i]
      BY <1>0, <2>5, <2>9, <2>13, <3>1, <3>2, <3>3
    <3> QED
      BY <1>0, <2>3, <2>5, <2>9, <2>13, <3>3, <3>4 DEF g, x
  <2> QED
    BY <1>0, <2>5, <2>11, <2>12, <2>13
<1>4. Good(f, Len(q)) /\ Len(q) >= k
  <2>1. Len(q) \in 0..Len(q) /\ Len(q) \notin Bad /\ Len(q) >= k
    <3> HIDE DEF Bad
    <3> QED
      BY <1>0, <1>3
  <2> HIDE DEF Good
  <2> QED
    BY <2>1
<1> HIDE DEF d
<1>5. f[Len(q)] = d
  BY <1>2, <1>4, SeqEqual
<1> QED
  BY <1>1, <1>5 DEF d

\* Without its first entry a sequence is its tail.
LEMMA OnlyTail ==
  ASSUME NEW T, NEW q \in Seq(T), q # <<>>, NoRepeats(q)
  PROVE  Only(q, T \ {Head(q)}) = Tail(q)
<1>1. 1 \in 1..Len(q) /\ Head(q) = q[1] /\ Len(q) \in Nat
  OBVIOUS
<1>2. Only(q, T \ {Head(q)}) = Dropped(q, 1)
  BY <1>1, OnlyDropped
<1>3. /\ Dropped(q, 1) \in Seq(T) /\ Tail(q) \in Seq(T)
      /\ Len(Dropped(q, 1)) = Len(q) - 1 /\ Len(Tail(q)) = Len(q) - 1
      /\ \A i \in 1..(Len(q) - 1) : Dropped(q, 1)[i] = q[i + 1] /\ Tail(q)[i] = q[i + 1]
  BY <1>1 DEF Dropped
<1>4. Dropped(q, 1) = Tail(q)
  BY <1>1, <1>3, SeqEqual
<1> QED
  BY <1>2, <1>4
=============================================================================
