------------------------------- MODULE ListX --------------------------------
(***************************************************************************)
(* The intrusive circular lists of pandos/h/listx.h.                       *)
(*                                                                         *)
(* A list_head is a node with two links; m.next and m.prev hold the links  *)
(* of all nodes of a memory m, and an operation maps the memory to the one *)
(* it leaves.  container_of is the structure a node is named after.        *)
(***************************************************************************)
EXTENDS Naturals

INIT_LIST_HEAD(m, l) == [m EXCEPT !.next[l] = l, !.prev[l] = l]

\* __list_add, its four assignments in their order.
ListAddBetween(m, new, prv, nxt) ==
  [m EXCEPT !.prev[nxt] = new, !.next[new] = nxt, !.prev[new] = prv, !.next[prv] = new]

list_add(m, new, head) == ListAddBetween(m, new, head, m.next[head])

\* The new entry comes in front of the list.
Fault_list_add_tail(m, new, head) == ListAddBetween(m, new, head, m.next[head])

list_add_tail(m, new, head) == ListAddBetween(m, new, m.prev[head], head)

ListDelBetween(m, prv, nxt) == [m EXCEPT !.prev[nxt] = prv, !.next[prv] = nxt]

\* Only the forward link is mended.
Fault_list_del(m, entry) == [m EXCEPT !.next[m.prev[entry]] = m.next[entry]]

\* The neighbours are linked to each other; the entry keeps its own links.
list_del(m, entry) == ListDelBetween(m, m.prev[entry], m.next[entry])

list_empty(m, head) == m.next[head] = head

list_next(m, current, NULL) == IF list_empty(m, current) THEN NULL ELSE m.next[current]
=============================================================================
