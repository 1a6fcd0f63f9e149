-------------------------------- MODULE Queue -------------------------------
(***************************************************************************)
(* The lists of process control blocks (pcb.c on listx.h) as sequences.    *)
(* insertProcQ is Append, headProcQ and removeProcQ are Head and Tail.     *)
(***************************************************************************)
EXTENDS Integers, Sequences

\* The processes in a list.
Entries(q) == {q[i] : i \in DOMAIN q}

\* The entries of q that lie in S, in the order of q: what is left of a list
\* after outProcQ took the others out one by one.
Only(q, S) ==
  LET kept[n \in 0..Len(q)] ==
        IF n = 0 THEN <<>>
        ELSE IF q[n] \in S THEN Append(kept[n - 1], q[n])
        ELSE kept[n - 1]
  IN  kept[Len(q)]
=============================================================================
