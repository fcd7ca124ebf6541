----------------------------- MODULE LinkedList -----------------------------
(***************************************************************************)
(* The intrusive doubly linked list of Kernel/src/utils/list.c.  A node is *)
(* an element of the domain of the two link fields, next and prev; list    *)
(* heads are nodes as well.  Each operation of the C file becomes two      *)
(* operators, the value of each field after it.                            *)
(***************************************************************************)
EXTENDS Integers

(* The null pointer.  Nodes are natural numbers. *)
NULL == -1

(* Faulty variant: the predecessor keeps pointing at the removed node. *)
BadRemoveNext(next, prev, node) == next

(* LinkedListRemove: the neighbours are joined.  The node's own fields     *)
(* keep their values, so a second removal of the same node writes the old  *)
(* neighbours again.                                                       *)
RemoveNext(next, prev, node) ==
  IF prev[node] # NULL THEN [next EXCEPT ![prev[node]] = next[node]] ELSE next

RemovePrev(next, prev, node) ==
  IF next[node] # NULL THEN [prev EXCEPT ![next[node]] = prev[node]] ELSE prev

(* LinkedListAppend: node goes right behind current.  When current was the *)
(* last node, node's next field is not written.                            *)
AppendNext(next, prev, current, node) ==
  IF next[current] # NULL
    THEN [next EXCEPT ![node] = next[current], ![current] = node]
    ELSE [next EXCEPT ![current] = node]

AppendPrev(next, prev, current, node) ==
  IF next[current] # NULL
    THEN [prev EXCEPT ![node] = current, ![next[current]] = node]
    ELSE [prev EXCEPT ![node] = current]

=============================================================================
