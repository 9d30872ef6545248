------------------------------- MODULE Lists --------------------------------
(***************************************************************************)
(* Any sequence of the calls of ds/list.h that keeps to their duties: only *)
(* heads that were initialised, nodes inserted while in no list, deleted,  *)
(* moved and replaced while in one, and the head of a spliced list not     *)
(* used before it is initialised again.  Each call changes the links by    *)
(* the operator of List and, beside them, the sequences they stand for.    *)
(***************************************************************************)
EXTENDS SequencesExt

CONSTANTS Heads, Nodes, Null

ASSUME ListsAssumption == Heads \cap Nodes = {} /\ Null \notin Heads \cup Nodes

VARIABLES
  list,    \* the links of all heads and nodes
  live,    \* the heads in use
  chain    \* per head: the sequence its list has to be, <<>> out of use

listVars == <<list, live, chain>>

L == INSTANCE List

Elem   == Heads \cup Nodes
Linked == UNION {ToSet(chain[h]) : h \in live}

ListsInit ==
  /\ list = [next |-> [x \in Elem |-> Null], prev |-> [x \in Elem |-> Null]]
  /\ live = {} /\ chain = [h \in Heads |-> <<>>]

(* Heads are initialised before use, after a splice, or while empty.       *)
InitHead(h) ==
  /\ chain[h] = <<>>
  /\ list' = L!list_init(list, h)
  /\ live' = live \cup {h} /\ UNCHANGED chain

Add(n, h) ==
  /\ n \notin Linked /\ h \in live
  /\ \/ /\ list' = L!list_add(list, n, h)
        /\ chain' = [chain EXCEPT ![h] = <<n>> \o chain[h]]
     \/ /\ list' = L!list_add_tail(list, n, h)
        /\ chain' = [chain EXCEPT ![h] = chain[h] \o <<n>>]
  /\ UNCHANGED live

(* The k-th node of the list of g leaves it.                               *)
Without(g, k) == [chain EXCEPT ![g] = RemoveAt(chain[g], k)]

Del(g, k) ==
  /\ list' = L!list_del(list, chain[g][k])
  /\ chain' = Without(g, k)
  /\ UNCHANGED live

Splice(g, h) ==
  /\ {g, h} \subseteq live /\ g # h
  /\ list' = L!list_splice(list, g, h)
  /\ chain' = [chain EXCEPT ![g] = <<>>, ![h] = chain[g] \o chain[h]]
  /\ live' = IF chain[g] = <<>> THEN live ELSE live \ {g}

Replace(g, k, n) ==
  /\ n \notin Linked
  /\ \/ list' = L!list_replace(list, chain[g][k], n)
     \/ list' = L!list_replace_init(list, chain[g][k], n)
  /\ chain' = [chain EXCEPT ![g] = ReplaceAt(chain[g], k, n)]
  /\ UNCHANGED live

(* A head that is not in use replaces one that is; that is left empty.     *)
TakeOver(g, h) ==
  /\ g \in live /\ h \in Heads \ live
  /\ list' = L!list_replace_init(list, g, h)
  /\ chain' = [chain EXCEPT ![g] = <<>>, ![h] = chain[g]]
  /\ live' = live \cup {h}

Move(g, k, h) ==
  /\ h \in live
  /\ \/ /\ list' = L!list_move(list, chain[g][k], h)
        /\ chain' = [Without(g, k) EXCEPT ![h] = <<chain[g][k]>> \o Without(g, k)[h]]
     \/ /\ list' = L!list_move_tail(list, chain[g][k], h)
        /\ chain' = [Without(g, k) EXCEPT ![h] = Without(g, k)[h] \o <<chain[g][k]>>]
  /\ UNCHANGED live

ListsNext ==
  \/ \E h \in Heads : InitHead(h) \/ \E n \in Nodes : Add(n, h)
  \/ \E g, h \in Heads : Splice(g, h) \/ TakeOver(g, h)
  \/ \E g \in Heads : \E k \in DOMAIN chain[g] :
       Del(g, k) \/ (\E n \in Nodes : Replace(g, k, n)) \/ (\E h \in Heads : Move(g, k, h))

ListsSpec == ListsInit /\ [][ListsNext]_listVars

-----------------------------------------------------------------------------
(* From head around the list and back, forwards and backwards, the links   *)
(* visit the nodes that the calls so far put there, in their order: for    *)
(* neighbours, single nodes and empty lists alike.                         *)
LinksFollowChains ==
  \A h \in live :
    LET ring == <<h>> \o chain[h] \o <<h>>
    IN  \A k \in 1..Len(ring) - 1 :
          list.next[ring[k]] = ring[k + 1] /\ list.prev[ring[k + 1]] = ring[k]
=============================================================================
