--------------------------- MODULE BinarySemaphore --------------------------
(***************************************************************************)
(* What Passeren and Verhogen promise of one semaphore: at 0 a P waits, at *)
(* 1 a V waits, first come first served; an operation of the other kind    *)
(* lets the first waiter go and leaves the value alone; the value changes  *)
(* only when nobody waits.  A termination, or a tick of the pseudo-clock,  *)
(* takes waiters away and gives the semaphore nothing in return.           *)
(***************************************************************************)
EXTENDS Queue

CONSTANT Proc
VARIABLES value, waitP, waitV

TypeOK == value \in {0, 1} /\ waitP \in Seq(Proc) /\ waitV \in Seq(Proc)

Init == value \in {0, 1} /\ waitP = <<>> /\ waitV = <<>>

P(p) == \/ /\ value = 0
           /\ waitP' = Append(waitP, p) /\ UNCHANGED <<value, waitV>>
        \/ /\ value = 1 /\ waitV # <<>>
           /\ waitV' = Tail(waitV) /\ UNCHANGED <<value, waitP>>
        \/ /\ value = 1 /\ waitV = <<>>
           /\ value' = 0 /\ UNCHANGED <<waitP, waitV>>

V(p) == \/ /\ value = 1
           /\ waitV' = Append(waitV, p) /\ UNCHANGED <<value, waitP>>
        \/ /\ value = 0 /\ waitP # <<>>
           /\ waitP' = Tail(waitP) /\ UNCHANGED <<value, waitV>>
        \/ /\ value = 0 /\ waitP = <<>>
           /\ value' = 1 /\ UNCHANGED <<waitP, waitV>>

Abandon(K) == /\ waitP' = Only(waitP, Proc \ K)
              /\ waitV' = Only(waitV, Proc \ K)
              /\ UNCHANGED value

Next == \/ \E p \in Proc : P(p) \/ V(p)
        \/ \E K \in SUBSET Proc : Abandon(K)

vars == <<value, waitP, waitV>>

Spec == Init /\ [][Next]_vars
=============================================================================
