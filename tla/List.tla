-------------------------------- MODULE List --------------------------------
(***************************************************************************)
(* The links of ds/list.h, a doubly linked ring through a head node.  All  *)
(* nodes live in one record of two functions, l.next and l.prev; each      *)
(* operator returns the links after the function of its name has run.      *)
(***************************************************************************)
CONSTANT Null     \* the pointer to nothing

list_init(l, head) ==
  [next |-> [l.next EXCEPT ![head] = head],
   prev |-> [l.prev EXCEPT ![head] = head]]

(* __list_add: entry goes between its two neighbours.                      *)
ListAdd(l, entry, before, after) ==
  [next |-> [l.next EXCEPT ![entry] = after, ![before] = entry],
   prev |-> [l.prev EXCEPT ![after] = entry, ![entry] = before]]

(* __list_del: the neighbours of a node forget it.                         *)
ListUnlink(l, before, after) ==
  [next |-> [l.next EXCEPT ![before] = after],
   prev |-> [l.prev EXCEPT ![after] = before]]

list_del(l, entry) ==
  LET u == ListUnlink(l, l.prev[entry], l.next[entry])
  IN  [next |-> [u.next EXCEPT ![entry] = Null],
       prev |-> [u.prev EXCEPT ![entry] = Null]]

list_add(l, entry, head)      == ListAdd(l, entry, head, l.next[head])
list_add_tail(l, entry, head) == ListAdd(l, entry, l.prev[head], head)

list_empty(l, head) == l.next[head] = head

(* A mistake: what stood first behind head keeps its backward link.        *)
SpliceForward(l, list, head) ==
  [next |-> [l.next EXCEPT ![head] = l.next[list], ![l.prev[list]] = l.next[head]],
   prev |-> [l.prev EXCEPT ![l.next[list]] = head]]

(* __list_splice: the nodes of list, in their order, right behind head.    *)
(* The head of list itself keeps its links.                                *)
ListSplice(l, list, head) ==
  [next |-> [l.next EXCEPT ![head] = l.next[list], ![l.prev[list]] = l.next[head]],
   prev |-> [l.prev EXCEPT ![l.next[list]] = head, ![l.next[head]] = l.prev[list]]]

list_splice(l, list, head) ==
  IF list_empty(l, list) THEN l ELSE ListSplice(l, list, head)

(* The neighbours turn to the new node.  When old stands alone the code's  *)
(* order of assignments links the new node to itself.                      *)
list_replace(l, old, new) ==
  LET n1 == [l.next EXCEPT ![new] = l.next[old]]
      p1 == [l.prev EXCEPT ![l.next[old]] = new]
      p2 == [p1 EXCEPT ![new] = p1[old]]
  IN  [next |-> [n1 EXCEPT ![p2[new]] = new], prev |-> p2]

list_replace_init(l, old, new) == list_init(list_replace(l, old, new), old)

list_move(l, entry, head) ==
  list_add(ListUnlink(l, l.prev[entry], l.next[entry]), entry, head)

list_move_tail(l, entry, head) ==
  list_add_tail(ListUnlink(l, l.prev[entry], l.next[entry]), entry, head)
=============================================================================
