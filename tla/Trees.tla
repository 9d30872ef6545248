------------------------------- MODULE Trees --------------------------------
(***************************************************************************)
(* Any sequence of insertions and removals in a tree of ds/rbtree.h.  The  *)
(* keys are the nodes themselves, numbers; where a new node goes is the    *)
(* user's search, which finds the one free place between its neighbours.   *)
(***************************************************************************)
EXTENDS FiniteSetsExt, Integers

CONSTANTS TreeNodes, NoNode

ASSUME TreesAssumption == TreeNodes \subseteq Int /\ NoNode \notin TreeNodes

VARIABLES
  tree,    \* the tree
  held     \* the nodes that have to be in it

treeVars == <<tree, held>>

T == INSTANCE RbTree WITH Nodes <- TreeNodes, Null <- NoNode

TreesInit == tree = T!EmptyTree /\ held = {}

Below(n) == {m \in held : m < n}
Above(n) == {m \in held : m > n}

Insert(n) ==
  /\ n \notin held
  /\ LET asRight == Below(n) # {} /\ tree.kid["right"][Max(Below(n))] = NoNode
         parent  == IF held = {} THEN NoNode
                    ELSE IF asRight THEN Max(Below(n)) ELSE Min(Above(n))
         linked  == T!rb_link_node(tree, n, parent, IF asRight THEN "right" ELSE "left")
     IN  tree' = T!rb_insert_color[linked, n]
  /\ held' = held \cup {n}

(* The user forgets the links of a removed node, as the scheduler does.     *)
Erase(n) ==
  /\ n \in held
  /\ tree' = T!Forget(T!rb_erase(tree, n), n)
  /\ held' = held \ {n}

TreesNext == \E n \in TreeNodes : Insert(n) \/ Erase(n)

-----------------------------------------------------------------------------
BlackHeight[n \in TreeNodes \cup {NoNode}] ==
  IF n = NoNode THEN 0
  ELSE BlackHeight[tree.kid["left"][n]] + IF tree.red[n] THEN 0 ELSE 1

(* The rules at the top of rbtree.h after every call, on the links in both *)
(* directions: the root is black, a red node has black children, every     *)
(* path down from a node passes as many black nodes on its left as on its  *)
(* right, and a child's parent is the node it hangs at.                    *)
RulesHold ==
  /\ T!Black(tree, tree.root)
  /\ \A n \in held :
       /\ tree.red[n] => \A d \in T!Side : T!Black(tree, tree.kid[d][n])
       /\ BlackHeight[tree.kid["left"][n]] = BlackHeight[tree.kid["right"][n]]
       /\ \A d \in T!Side : tree.kid[d][n] # NoNode => tree.up[tree.kid[d][n]] = n
  /\ tree.root # NoNode => tree.up[tree.root] = NoNode

(* rb_first and rb_next visit exactly the nodes that are in, in their      *)
(* order, rb_last and rb_prev the same backwards: no node is lost, left    *)
(* behind or out of place after any sequence of insertions and removals.   *)
WalksInOrder ==
  LET next(n) == IF Above(n) = {} THEN NoNode ELSE Min(Above(n))
      prev(n) == IF Below(n) = {} THEN NoNode ELSE Max(Below(n))
  IN  /\ T!rb_first(tree) = IF held = {} THEN NoNode ELSE Min(held)
      /\ T!rb_last(tree)  = IF held = {} THEN NoNode ELSE Max(held)
      /\ \A n \in held : T!rb_next(tree, n) = next(n) /\ T!rb_prev(tree, n) = prev(n)
=============================================================================
