----------------------------- MODULE QueueProofs ----------------------------
(***************************************************************************)
(* What the operations on the lists of control blocks do to the processes  *)
(* in them: which they are, and that none of them is in a list twice.      *)
(*                                                                         *)
(* Only is a recursive function.  The induction on the length goes through *)
(* the least counterexample, a set of naturals.                            *)
(***************************************************************************)
EXTENDS Queue, FiniteSetTheorems, WellFoundedInduction, TLAPS

\* Every nonempty set of naturals has a least element.
LEMMA LeastNat ==
  ASSUME NEW S \in SUBSET Nat, S # {}
  PROVE  \E x \in S : \A y \in S : x <= y
<1>1. PICK x \in S : \A y \in S : <<y, x>> \notin OpToRel(<, Nat)
  <2>1. IsWellFoundedOn(OpToRel(<, Nat), Nat)
    BY NatLessThanWellFounded
  <2> HIDE DEF OpToRel
  <2> QED
    BY <2>1, WFMin
<1>2. \A y \in S : ~(y < x)
  BY <1>1 DEF OpToRel
<1> QED
  BY <1>2

\* The steps of the recursion in Only.
Kept(q, S, g, n) ==
  /\ g[0] = <<>>
  /\ \A i \in 1..n : g[i] = IF q[i] \in S THEN Append(g[i - 1], q[i]) ELSE g[i - 1]

\* The recursion can be followed to any length.
LEMMA KeptExists ==
  ASSUME NEW T, NEW q \in Seq(T), NEW S
  PROVE  \A n \in 0..Len(q) : \E g \in [0..n -> Seq(T)] : Kept(q, S, g, n)
<1> DEFINE Bad == {n \in 0..Len(q) : ~ \E g \in [0..n -> Seq(T)] : Kept(q, S, g, n)}
<1>1. SUFFICES ASSUME Bad # {} PROVE FALSE
  OBVIOUS
<1>2. PICK n \in Bad : \A m \in Bad : n <= m
  <2>1. Bad \in SUBSET Nat
    OBVIOUS
  <2> HIDE DEF Bad
  <2> QED
    BY <1>1, <2>1, LeastNat
<1>3. n # 0
  <2>1. [i \in 0..0 |-> <<>>] \in [0..0 -> Seq(T)]
    OBVIOUS
  <2>2. Kept(q, S, [i \in 0..0 |-> <<>>], 0)
    BY DEF Kept
  <2> QED
    BY <2>1, <2>2
<1>4. n - 1 \in 0..Len(q) /\ n - 1 \notin Bad
  <2>1. n \in 0..Len(q)
    OBVIOUS
  <2> HIDE DEF Bad
  <2> QED
    BY <1>2, <1>3, <2>1
<1>5. PICK g \in [0..(n - 1) -> Seq(T)] : Kept(q, S, g, n - 1)
  BY <1>4
<1> DEFINE last == IF q[n] \in S THEN Append(g[n - 1], q[n]) ELSE g[n - 1]
           h == [i \in 0..n |-> IF i = n THEN last ELSE g[i]]
<1>6. n \in 1..Len(q)
  BY <1>3
<1>7. last \in Seq(T)
  BY <1>6
<1>8. h \in [0..n -> Seq(T)]
  <2> HIDE DEF last
  <2> QED
    BY <1>6, <1>7
<1>9. Kept(q, S, h, n)
  <2>1. h[0] = <<>>
    BY <1>5, <1>6 DEF Kept
  <2>2. ASSUME NEW i \in 1..n
        PROVE  h[i] = IF q[i] \in S THEN Append(h[i - 1], q[i]) ELSE h[i - 1]
    <3>1. CASE i = n
      BY <1>6, <3>1
    <3>2. CASE i # n
      <4>1. /\ i \in 1..(n - 1) /\ i \in 0..n /\ i # n
            /\ i - 1 \in 0..n /\ i - 1 # n
        BY <1>6, <3>2
      <4>2. g[i] = IF q[i] \in S THEN Append(g[i - 1], q[i]) ELSE g[i - 1]
        BY <1>5, <4>1 DEF Kept
      <4>3. h[i] = g[i] /\ h[i - 1] = g[i - 1]
        BY <4>1, Zenon
      <4> QED
        BY <4>2, <4>3, Zenon
    <3> QED
      BY <3>1, <3>2
  <2> QED
    BY <2>1, <2>2 DEF Kept
<1> QED
  BY <1>8, <1>9

\* Only is the end of such a recursion.
LEMMA OnlyUnfolds ==
  ASSUME NEW T, NEW q \in Seq(T), NEW S
  PROVE  \E f : Kept(q, S, f, Len(q)) /\ Only(q, S) = f[Len(q)]
<1> DEFINE Step(f) == [n \in 0..Len(q) |->
              IF n = 0 THEN <<>>
              ELSE IF q[n] \in S THEN Append(f[n - 1], q[n]) ELSE f[n - 1]]
           kept == CHOOSE f : f = Step(f)
<1>1. PICK g \in [0..Len(q) -> Seq(T)] : Kept(q, S, g, Len(q))
  <2>1. Len(q) \in 0..Len(q)
    OBVIOUS
  <2> QED
    BY <2>1, KeptExists
<1>2. g = Step(g)
  <2>1. ASSUME NEW n \in 0..Len(q)
        PROVE  g[n] = Step(g)[n]
    <3>1. CASE n = 0
      BY <1>1, <3>1 DEF Kept
    <3>2. CASE n # 0
      <4>1. n \in 1..Len(q)
        BY <3>2
      <4> QED
        BY <1>1, <3>2, <4>1 DEF Kept
    <3> QED
      BY <3>1, <3>2
  <2>2. DOMAIN g = 0..Len(q) /\ g = [n \in 0..Len(q) |-> g[n]]
    OBVIOUS
  <2> QED
    BY <2>1, <2>2
<1>3. kept = Step(kept)
  <2> HIDE DEF Step
  <2> QED
    BY <1>2
<1>4. Only(q, S) = kept[Len(q)]
  BY Zenon DEF Only
<1> HIDE DEF kept
<1>5. Kept(q, S, kept, Len(q))
  <2>1. ASSUME NEW i \in 0..Len(q)
        PROVE  kept[i] = Step(kept)[i]
    BY <1>3, Zenon
  <2> QED
    BY <2>1 DEF Kept
<1> QED
  BY <1>4, <1>5

\* Every stage of the recursion is a sequence over what the queue and the set
\* have in common, and is no longer than what it has read.
LEMMA KeptStages ==
  ASSUME NEW T, NEW q \in Seq(T), NEW S, NEW f, Kept(q, S, f, Len(q))
  PROVE  \A n \in 0..Len(q) : f[n] \in Seq(T \cap S) /\ Len(f[n]) <= n
<1> DEFINE Good(n) == f[n] \in Seq(T \cap S) /\ Len(f[n]) <= n
           Bad == {n \in 0..Len(q) : ~Good(n)}
<1>1. SUFFICES ASSUME Bad # {} PROVE FALSE
  OBVIOUS
<1>2. PICK n \in Bad : \A m \in Bad : n <= m
  <2>1. Bad \in SUBSET Nat
    OBVIOUS
  <2> HIDE DEF Bad
  <2> QED
    BY <1>1, <2>1, LeastNat
<1>3. n \in 0..Len(q) /\ ~Good(n)
  OBVIOUS
<1>4. Good(0)
  BY DEF Kept
<1>5. n - 1 \in 0..Len(q) /\ Good(n - 1)
  <2>1. n # 0
    BY <1>3, <1>4
  <2>2. n - 1 \in 0..Len(q) /\ n - 1 \notin Bad
    <3> HIDE DEF Bad
    <3> QED
      BY <1>2, <1>3, <2>1
  <2> QED
    BY <2>2
<1>6. f[n] = IF q[n] \in S THEN Append(f[n - 1], q[n]) ELSE f[n - 1]
  BY <1>3, <1>5 DEF Kept
<1>7. q[n] \in T
  BY <1>3, <1>5
<1> QED
  BY <1>3, <1>5, <1>6, <1>7

\* What is left of a queue is a queue of the same kind, and not a longer one.
THEOREM OnlyType ==
  ASSUME NEW T, NEW q \in Seq(T), NEW S
  PROVE  /\ Only(q, S) \in Seq(T)
         /\ Only(q, S) \in Seq(T \cap S)
         /\ Len(Only(q, S)) <= Len(q)
<1>1. PICK f : Kept(q, S, f, Len(q)) /\ Only(q, S) = f[Len(q)]
  BY OnlyUnfolds
<1>2. f[Len(q)] \in Seq(T \cap S) /\ Len(f[Len(q)]) <= Len(q)
  BY <1>1, KeptStages
<1> QED
  BY <1>1, <1>2
-----------------------------------------------------------------------------
(* Which processes are in a list.                                          *)

\* No process is in the list twice.
NoRepeats(q) == \A i, j \in DOMAIN q : q[i] = q[j] => i = j

\* The processes in a list are of its kind, and a list without any is empty.
LEMMA EntriesType ==
  ASSUME NEW T, NEW q \in Seq(T)
  PROVE  /\ Entries(q) \subseteq T
         /\ Entries(q) = {} <=> q = <<>>
<1>1. q = <<>> => Entries(q) = {}
  BY DEF Entries
<1>2. q # <<>> => q[1] \in Entries(q)
  BY DEF Entries
<1>3. Entries(q) \subseteq T
  BY DEF Entries
<1> QED
  BY <1>1, <1>2, <1>3

\* The empty list.
LEMMA EntriesOfNothing == Entries(<<>>) = {} /\ NoRepeats(<<>>)
  BY DEF Entries, NoRepeats

\* insertProcQ adds one process, at the end.
LEMMA EntriesAppend ==
  ASSUME NEW T, NEW q \in Seq(T), NEW x \in T
  PROVE  /\ Append(q, x) \in Seq(T)
         /\ Entries(Append(q, x)) = Entries(q) \cup {x}
         /\ NoRepeats(q) /\ x \notin Entries(q) => NoRepeats(Append(q, x))
<1> DEFINE r == Append(q, x)
<1>1. /\ r \in Seq(T) /\ Len(r) = Len(q) + 1 /\ r[Len(q) + 1] = x
      /\ \A i \in 1..Len(q) : r[i] = q[i]
  OBVIOUS
<1>2. DOMAIN q = 1..Len(q) /\ DOMAIN r = 1..(Len(q) + 1) /\ Len(q) \in Nat
  BY <1>1
<1> HIDE DEF r
<1>3. Entries(r) = Entries(q) \cup {x}
  <2>1. \A y \in Entries(r) : y \in Entries(q) \cup {x}
    BY <1>1, <1>2 DEF Entries
  <2>2. \A y \in Entries(q) : y \in Entries(r)
    BY <1>1, <1>2 DEF Entries
  <2>3. x \in Entries(r)
    BY <1>1, <1>2 DEF Entries
  <2> QED
    BY <2>1, <2>2, <2>3
<1>4. ASSUME NoRepeats(q), x \notin Entries(q)
      PROVE  NoRepeats(r)
  <2>1. \A i \in 1..Len(q) : r[i] # x
    BY <1>1, <1>2, <1>4 DEF Entries
  <2> QED
    BY <1>1, <1>2, <1>4, <2>1 DEF NoRepeats
<1> QED
  BY <1>1, <1>3, <1>4 DEF r

\* A list of one process.
LEMMA EntriesOfOne ==
  ASSUME NEW T, NEW x \in T
  PROVE  <<x>> \in Seq(T) /\ Entries(<<x>>) = {x} /\ NoRepeats(<<x>>)
  BY DEF Entries, NoRepeats

\* headProcQ and removeProcQ take one process away, which is not left behind.
LEMMA EntriesTail ==
  ASSUME NEW T, NEW q \in Seq(T), q # <<>>
  PROVE  /\ Head(q) \in T /\ Tail(q) \in Seq(T)
         /\ Entries(q) = Entries(Tail(q)) \cup {Head(q)}
         /\ NoRepeats(q) => NoRepeats(Tail(q)) /\ Head(q) \notin Entries(Tail(q))
<1> DEFINE r == Tail(q)
<1>1. /\ Head(q) = q[1] /\ r \in Seq(T) /\ Len(r) = Len(q) - 1
      /\ \A i \in 1..Len(r) : r[i] = q[i + 1]
  OBVIOUS
<1>2. DOMAIN q = 1..Len(q) /\ DOMAIN r = 1..(Len(q) - 1) /\ Len(q) \in Nat \ {0}
  BY <1>1
<1>3. Head(q) \in T
  OBVIOUS
<1> HIDE DEF r
<1>4. Entries(q) = Entries(r) \cup {q[1]}
  <2>1. ASSUME NEW i \in DOMAIN q
        PROVE  q[i] \in Entries(r) \cup {q[1]}
    <3>1. CASE i = 1
      BY <3>1
    <3>2. CASE i # 1
      <4>1. i - 1 \in DOMAIN r /\ r[i - 1] = q[i]
        BY <1>1, <1>2, <3>2
      <4> QED
        BY <4>1 DEF Entries
    <3> QED
      BY <3>1, <3>2
  <2>2. \A y \in Entries(r) : y \in Entries(q)
    BY <1>1, <1>2 DEF Entries
  <2>3. q[1] \in Entries(q)
    BY <1>2 DEF Entries
  <2> QED
    BY <2>1, <2>2, <2>3 DEF Entries
<1>5. ASSUME NoRepeats(q)
      PROVE  NoRepeats(r) /\ q[1] \notin Entries(r)
  <2>1. \A i \in DOMAIN r : i + 1 \in DOMAIN q /\ r[i] = q[i + 1] /\ i + 1 # 1
    BY <1>1, <1>2
  <2>2. NoRepeats(r)
    BY <1>2, <1>5, <2>1 DEF NoRepeats
  <2>3. 1 \in DOMAIN q
    BY <1>2
  <2>4. q[1] \notin Entries(r)
    BY <1>2, <1>5, <2>1, <2>3 DEF NoRepeats, Entries
  <2> QED
    BY <2>2, <2>4
<1> QED
  BY <1>1, <1>3, <1>4, <1>5 DEF r

\* Processes that join a list one after the other.
LEMMA EntriesConcat ==
  ASSUME NEW T, NEW q \in Seq(T), NEW w \in Seq(T)
  PROVE  /\ q \o w \in Seq(T)
         /\ Entries(q \o w) = Entries(q) \cup Entries(w)
         /\ NoRepeats(q) /\ NoRepeats(w) /\ Entries(q) \cap Entries(w) = {}
              => NoRepeats(q \o w)
<1> DEFINE r == q \o w
<1>1. /\ r \in Seq(T) /\ Len(r) = Len(q) + Len(w)
      /\ \A i \in 1..Len(q) : r[i] = q[i]
      /\ \A i \in 1..Len(w) : r[Len(q) + i] = w[i]
  OBVIOUS
<1>2. /\ DOMAIN q = 1..Len(q) /\ DOMAIN w = 1..Len(w) /\ DOMAIN r = 1..(Len(q) + Len(w))
      /\ Len(q) \in Nat /\ Len(w) \in Nat
  BY <1>1
<1> HIDE DEF r
<1>3. ASSUME NEW i \in DOMAIN r
      PROVE  \/ i \in DOMAIN q /\ r[i] = q[i]
             \/ i - Len(q) \in DOMAIN w /\ r[i] = w[i - Len(q)]
  <2>1. CASE i <= Len(q)
    BY <1>1, <1>2, <2>1
  <2>2. CASE i > Len(q)
    <3>1. i - Len(q) \in 1..Len(w) /\ Len(q) + (i - Len(q)) = i
      BY <1>2, <2>2
    <3> QED
      BY <1>1, <1>2, <3>1
  <2> QED
    BY <1>2, <2>1, <2>2
<1>4. Entries(r) = Entries(q) \cup Entries(w)
  <2>1. \A i \in DOMAIN r : r[i] \in Entries(q) \cup Entries(w)
    BY <1>3 DEF Entries
  <2>2. \A i \in DOMAIN q : i \in DOMAIN r /\ r[i] = q[i]
    BY <1>1, <1>2
  <2>3. \A i \in DOMAIN w : Len(q) + i \in DOMAIN r /\ r[Len(q) + i] = w[i]
    BY <1>1, <1>2
  <2> QED
    BY <2>1, <2>2, <2>3 DEF Entries
<1>5. ASSUME NoRepeats(q), NoRepeats(w), Entries(q) \cap Entries(w) = {}
      PROVE  NoRepeats(r)
  <2>1. \A i \in DOMAIN q, j \in DOMAIN w : q[i] # w[j]
    BY <1>5 DEF Entries
  <2> SUFFICES ASSUME NEW i \in DOMAIN r, NEW j \in DOMAIN r, r[i] = r[j]
               PROVE  i = j
    BY DEF NoRepeats
  <2>2. i \in Nat /\ j \in Nat
    BY <1>2
  <2> QED
    BY <1>2, <1>3, <1>5, <2>1, <2>2 DEF NoRepeats
<1> QED
  BY <1>1, <1>4, <1>5 DEF r

\* A list without repetitions is as long as the set of its processes is large.
LEMMA EntriesCount ==
  ASSUME NEW T, NEW q \in Seq(T), NoRepeats(q)
  PROVE  IsFiniteSet(Entries(q)) /\ Cardinality(Entries(q)) = Len(q)
<1>1. DOMAIN q = 1..Len(q) /\ Len(q) \in Nat
  OBVIOUS
<1>2. q \in [1..Len(q) -> Entries(q)]
  BY <1>1 DEF Entries
<1>3. q \in Bijection(1..Len(q), Entries(q))
  BY <1>1, <1>2 DEF NoRepeats, Entries, Bijection, Injection, Surjection, IsInjective
<1>4. ExistsBijection(1..Len(q), Entries(q))
  BY <1>3 DEF ExistsBijection
<1>5. IsFiniteSet(1..Len(q)) /\ Cardinality(1..Len(q)) = Len(q)
  BY <1>1, FS_Interval
<1> QED
  BY <1>4, <1>5, FS_Bijection

-----------------------------------------------------------------------------
(* Which processes outProcQ leaves.                                        *)

\* Every stage of the recursion has kept what it has read and S holds, each
\* process once if the list has it once.
LEMMA KeptEntries ==
  ASSUME NEW T, NEW q \in Seq(T), NEW S, NEW f, Kept(q, S, f, Len(q))
  PROVE  \A n \in 0..Len(q) :
           /\ Entries(f[n]) = {q[i] : i \in 1..n} \cap S
           /\ NoRepeats(q) => NoRepeats(f[n])
<1> DEFINE Good(n) == /\ Entries(f[n]) = {q[i] : i \in 1..n} \cap S
                      /\ NoRepeats(q) => NoRepeats(f[n])
           Bad == {n \in 0..Len(q) : ~Good(n)}
<1>1. SUFFICES ASSUME Bad # {} PROVE FALSE
  OBVIOUS
<1>2. PICK n \in Bad : \A m \in Bad : n <= m
  <2>1. Bad \in SUBSET Nat
    OBVIOUS
  <2> HIDE DEF Bad
  <2> QED
    BY <1>1, <2>1, LeastNat
<1>3. n \in 0..Len(q) /\ ~Good(n)
  OBVIOUS
<1>4. Good(0)
  <2>1. f[0] = <<>>
    BY DEF Kept
  <2>2. {q[i] : i \in 1..0} = {}
    OBVIOUS
  <2> QED
    BY <2>1, <2>2, EntriesOfNothing
<1>5. n \in 1..Len(q) /\ n - 1 \in 0..Len(q) /\ Good(n - 1)
  <2>1. n # 0
    BY <1>3, <1>4
  <2>2. n - 1 \in 0..Len(q) /\ n - 1 \notin Bad
    <3> HIDE DEF Bad
    <3> QED
      BY <1>2, <1>3, <2>1
  <2> QED
    BY <1>3, <2>1, <2>2
<1> DEFINE g == f[n - 1]
           x == q[n]
           Read == {q[i] : i \in 1..(n - 1)}
<1>6. f[n] = IF x \in S THEN Append(g, x) ELSE g
  BY <1>5 DEF Kept
<1>7. x \in T /\ g \in Seq(T)
  <2>1. g \in Seq(T \cap S)
    BY <1>5, KeptStages
  <2> QED
    BY <1>5, <2>1
<1>8. {q[i] : i \in 1..n} = Read \cup {x}
  <2>1. 1..n = 1..(n - 1) \cup {n}
    BY <1>5
  <2> QED
    BY <2>1
<1>9. Entries(g) = Read \cap S /\ (NoRepeats(q) => NoRepeats(g))
  BY <1>5
<1>10. NoRepeats(q) => x \notin Read
  BY <1>5 DEF NoRepeats
<1> HIDE DEF g, x, Read, Bad
<1>11. /\ Entries(Append(g, x)) = Entries(g) \cup {x}
       /\ NoRepeats(g) /\ x \notin Entries(g) => NoRepeats(Append(g, x))
  BY <1>7, EntriesAppend
<1>12. Good(n)
  BY <1>6, <1>8, <1>9, <1>10, <1>11
<1> QED
  BY <1>3, <1>12

\* outProcQ takes out the processes asked for and no other, whatever the order
\* they are asked for in, and does not double any.
THEOREM OnlyEntries ==
  ASSUME NEW T, NEW q \in Seq(T), NEW S
  PROVE  /\ Entries(Only(q, S)) = Entries(q) \cap S
         /\ NoRepeats(q) => NoRepeats(Only(q, S))
<1>1. PICK f : Kept(q, S, f, Len(q)) /\ Only(q, S) = f[Len(q)]
  BY OnlyUnfolds
<1>2. Len(q) \in 0..Len(q)
  OBVIOUS
<1>3. Entries(q) = {q[i] : i \in 1..Len(q)}
  BY DEF Entries
<1>4. /\ Entries(f[Len(q)]) = {q[i] : i \in 1..Len(q)} \cap S
      /\ NoRepeats(q) => NoRepeats(f[Len(q)])
  BY <1>1, <1>2, KeptEntries, Zenon
<1> QED
  BY <1>1, <1>3, <1>4

\* With nobody to take out, the list stays as it is.
LEMMA OnlyAll ==
  ASSUME NEW T, NEW q \in Seq(T), NEW S, T \subseteq S
  PROVE  Only(q, S) = q
<1>1. PICK f : Kept(q, S, f, Len(q)) /\ Only(q, S) = f[Len(q)]
  BY OnlyUnfolds
<1> DEFINE Good(n) == f[n] = SubSeq(q, 1, n)
           Bad == {n \in 0..Len(q) : ~Good(n)}
<1>2. Bad = {}
  <2>1. SUFFICES ASSUME Bad # {} PROVE FALSE
    OBVIOUS
  <2>2. PICK n \in Bad : \A m \in Bad : n <= m
    <3>1. Bad \in SUBSET Nat
      OBVIOUS
    <3> HIDE DEF Bad
    <3> QED
      BY <2>1, <3>1, LeastNat
  <2>3. n \in 0..Len(q) /\ ~Good(n)
    OBVIOUS
  <2>4. Good(0)
    BY <1>1 DEF Kept
  <2>5. n \in 1..Len(q) /\ n - 1 \in 0..Len(q) /\ Good(n - 1)
    <3>1. n # 0
      BY <2>3, <2>4
    <3>2. n - 1 \in 0..Len(q) /\ n - 1 \notin Bad
      <4> HIDE DEF Bad
      <4> QED
        BY <2>2, <2>3, <3>1
    <3> QED
      BY <2>3, <3>1, <3>2
  <2>6. f[n] = Append(SubSeq(q, 1, n - 1), q[n])
    <3>1. q[n] \in S
      BY <2>5
    <3> QED
      BY <1>1, <2>5, <3>1 DEF Kept
  <2>7. Append(SubSeq(q, 1, n - 1), q[n]) = SubSeq(q, 1, n)
    BY <2>5
  <2> QED
    BY <2>3, <2>6, <2>7
<1>3. Len(q) \in 0..Len(q) /\ SubSeq(q, 1, Len(q)) = q
  OBVIOUS
<1> QED
  BY <1>1, <1>2, <1>3

\* Out of an empty list comes an empty one.
LEMMA OnlyOfEmpty == \A S : Only(<<>>, S) = <<>>
<1> SUFFICES ASSUME NEW S PROVE Only(<<>>, S) = <<>>
  OBVIOUS
<1>1. <<>> \in Seq({})
  OBVIOUS
<1>2. Only(<<>>, S) \in Seq({}) /\ Len(Only(<<>>, S)) <= Len(<<>>)
  BY <1>1, OnlyType
<1> QED
  BY <1>2

\* The recursion has one outcome.
LEMMA KeptUnique ==
  ASSUME NEW q, NEW S, NEW f, NEW g, NEW N \in Nat, Kept(q, S, f, N), Kept(q, S, g, N)
  PROVE  \A n \in 0..N : f[n] = g[n]
<1> DEFINE Bad == {n \in 0..N : f[n] # g[n]}
<1>1. SUFFICES ASSUME Bad # {} PROVE FALSE
  OBVIOUS
<1>2. PICK n \in Bad : \A m \in Bad : n <= m
  <2>1. Bad \in SUBSET Nat
    OBVIOUS
  <2> HIDE DEF Bad
  <2> QED
    BY <1>1, <2>1, LeastNat
<1>3. n \in 0..N /\ f[n] # g[n]
  OBVIOUS
<1>4. n \in 1..N /\ n - 1 \in 0..N /\ f[n - 1] = g[n - 1]
  <2>1. n # 0
    BY <1>3 DEF Kept
  <2>2. n - 1 \in 0..N /\ n - 1 \notin Bad
    <3> HIDE DEF Bad
    <3> QED
      BY <1>2, <1>3, <2>1
  <2> QED
    BY <1>3, <2>1, <2>2
<1> QED
  BY <1>3, <1>4 DEF Kept

\* Only the processes in the list decide.
LEMMA OnlyAgree ==
  ASSUME NEW T, NEW q \in Seq(T), NEW S, NEW U, S \cap Entries(q) = U \cap Entries(q)
  PROVE  Only(q, S) = Only(q, U)
<1>1. PICK f : Kept(q, S, f, Len(q)) /\ Only(q, S) = f[Len(q)]
  BY OnlyUnfolds
<1>2. PICK g : Kept(q, U, g, Len(q)) /\ Only(q, U) = g[Len(q)]
  BY OnlyUnfolds
<1>3. \A i \in 1..Len(q) : q[i] \in S <=> q[i] \in U
  BY DEF Entries
<1>4. Kept(q, S, g, Len(q))
  BY <1>2, <1>3 DEF Kept
<1>5. Len(q) \in Nat /\ Len(q) \in 0..Len(q)
  OBVIOUS
<1> QED
  BY <1>1, <1>2, <1>4, <1>5, KeptUnique

\* One process more at the end.
LEMMA OnlyAppend ==
  ASSUME NEW T, NEW q \in Seq(T), NEW x \in T, NEW S
  PROVE  Only(Append(q, x), S) = IF x \in S THEN Append(Only(q, S), x) ELSE Only(q, S)
<1> DEFINE r == Append(q, x)
<1>1. /\ r \in Seq(T) /\ Len(r) = Len(q) + 1 /\ r[Len(q) + 1] = x
      /\ \A i \in 1..Len(q) : r[i] = q[i]
      /\ Len(q) \in Nat
  OBVIOUS
<1> HIDE DEF r
<1>2. PICK f : Kept(q, S, f, Len(q)) /\ Only(q, S) = f[Len(q)]
  BY OnlyUnfolds
<1>3. PICK g : Kept(r, S, g, Len(r)) /\ Only(r, S) = g[Len(r)]
  BY <1>1, OnlyUnfolds
<1>4. Kept(q, S, g, Len(q))
  BY <1>1, <1>3 DEF Kept
<1>5. Only(q, S) = g[Len(q)]
  <2>1. Len(q) \in 0..Len(q)
    BY <1>1
  <2> QED
    BY <1>1, <1>2, <1>4, <2>1, KeptUnique
<1>6. g[Len(q) + 1] = IF x \in S THEN Append(g[Len(q)], x) ELSE g[Len(q)]
  <2>1. Len(q) + 1 \in 1..Len(r) /\ Len(q) + 1 - 1 = Len(q)
    BY <1>1
  <2> QED
    BY <1>1, <1>3, <2>1 DEF Kept
<1> QED
  BY <1>1, <1>3, <1>5, <1>6 DEF r

\* Taking out some processes and then others is taking out all of them.
LEMMA OnlyOnly ==
  ASSUME NEW T, NEW q \in Seq(T), NEW S, NEW U
  PROVE  Only(Only(q, S), U) = Only(q, S \cap U)
<1>1. PICK f : Kept(q, S, f, Len(q)) /\ Only(q, S) = f[Len(q)]
  BY OnlyUnfolds
<1>2. PICK g : Kept(q, S \cap U, g, Len(q)) /\ Only(q, S \cap U) = g[Len(q)]
  BY OnlyUnfolds
<1> DEFINE Bad == {n \in 0..Len(q) : Only(f[n], U) # g[n]}
<1>3. Bad = {}
  <2>1. SUFFICES ASSUME Bad # {} PROVE FALSE
    OBVIOUS
  <2>2. PICK n \in Bad : \A m \in Bad : n <= m
    <3>1. Bad \in SUBSET Nat
      OBVIOUS
    <3> HIDE DEF Bad
    <3> QED
      BY <2>1, <3>1, LeastNat
  <2>3. n \in 0..Len(q) /\ Only(f[n], U) # g[n]
    OBVIOUS
  <2>4. n # 0
    <3>1. f[0] = <<>> /\ g[0] = <<>>
      BY <1>1, <1>2 DEF Kept
    <3> QED
      BY <2>3, <3>1, OnlyOfEmpty
  <2>5. n \in 1..Len(q) /\ n - 1 \in 0..Len(q) /\ Only(f[n - 1], U) = g[n - 1]
    <3>1. n - 1 \in 0..Len(q) /\ n - 1 \notin Bad
      <4> HIDE DEF Bad
      <4> QED
        BY <2>2, <2>3, <2>4
    <3> QED
      BY <2>3, <2>4, <3>1
  <2>6. /\ f[n] = IF q[n] \in S THEN Append(f[n - 1], q[n]) ELSE f[n - 1]
        /\ g[n] = IF q[n] \in S \cap U THEN Append(g[n - 1], q[n]) ELSE g[n - 1]
    BY <1>1, <1>2, <2>5 DEF Kept
  <2>7. q[n] \in T /\ f[n - 1] \in Seq(T)
    <3>1. f[n - 1] \in Seq(T \cap S)
      BY <1>1, <2>5, KeptStages
    <3> QED
      BY <2>5, <3>1
  <2>8. Only(Append(f[n - 1], q[n]), U)
          = IF q[n] \in U THEN Append(Only(f[n - 1], U), q[n]) ELSE Only(f[n - 1], U)
    <3> DEFINE x == q[n]
               s == f[n - 1]
    <3>1. x \in T /\ s \in Seq(T)
      BY <2>7
    <3> HIDE DEF x, s
    <3>2. Only(Append(s, x), U) = IF x \in U THEN Append(Only(s, U), x) ELSE Only(s, U)
      BY <3>1, OnlyAppend
    <3> QED
      BY <3>2 DEF x, s
  <2> HIDE DEF Bad
  <2>9. Only(f[n], U) = g[n]
    <3>1. CASE q[n] \in S /\ q[n] \in U
      <4>1. f[n] = Append(f[n - 1], q[n]) /\ g[n] = Append(g[n - 1], q[n])
        BY <2>6, <3>1
      <4>2. Only(f[n], U) = Append(Only(f[n - 1], U), q[n])
        BY <2>8, <3>1, <4>1
      <4> QED
        BY <2>5, <4>1, <4>2
    <3>2. CASE q[n] \in S /\ q[n] \notin U
      <4>1. f[n] = Append(f[n - 1], q[n]) /\ g[n] = g[n - 1]
        BY <2>6, <3>2
      <4>2. Only(f[n], U) = Only(f[n - 1], U)
        BY <2>8, <3>2, <4>1
      <4> QED
        BY <2>5, <4>1, <4>2
    <3>3. CASE q[n] \notin S
      BY <2>5, <2>6, <3>3
    <3> QED
      BY <3>1, <3>2, <3>3
  <2> QED
    BY <2>3, <2>9
<1>4. Len(q) \in 0..Len(q)
  OBVIOUS
<1> QED
  BY <1>1, <1>2, <1>3, <1>4
=============================================================================
