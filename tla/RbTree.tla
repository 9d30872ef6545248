------------------------------- MODULE RbTree -------------------------------
(***************************************************************************)
(* The red-black tree of ds/rbtree.h.  A tree is one record: its root and, *)
(* per node, the parent, the colour and the child on each side; every      *)
(* operator returns the tree after the function of its name has run.  The  *)
(* two branches of the code, each the mirror image of the other, are one   *)
(* here, for a side d and the opposite side.                               *)
(***************************************************************************)
CONSTANTS Nodes, Null

Side   == {"left", "right"}
Opp(d) == IF d = "left" THEN "right" ELSE "left"

EmptyTree ==
  [root |-> Null, up |-> [n \in Nodes |-> Null], red |-> [n \in Nodes |-> TRUE],
   kid |-> [d \in Side |-> [n \in Nodes |-> Null]]]

Tree == [root : Nodes \cup {Null}, up : [Nodes -> Nodes \cup {Null}], red : [Nodes -> BOOLEAN],
         kid : [Side -> [Nodes -> Nodes \cup {Null}]]]

(* A missing child counts as black.                                        *)
Black(t, n) == n = Null \/ ~t.red[n]

SideOf(t, n, p) == IF t.kid["left"][p] = n THEN "left" ELSE "right"

rb_set_parent(t, n, p) == IF n = Null THEN t ELSE [t EXCEPT !.up[n] = p]

(* What hung at p, or at the root, in the place of old is now new.         *)
Hang(t, old, p, new) ==
  IF p = Null THEN [t EXCEPT !.root = new]
              ELSE [t EXCEPT !.kid[SideOf(t, old, p)][p] = new]

rb_link_node(t, n, p, d) ==
  LET u == [t EXCEPT !.up[n] = p, !.red[n] = TRUE, !.kid["left"][n] = Null,
                     !.kid["right"][n] = Null]
  IN  IF p = Null THEN [u EXCEPT !.root = n] ELSE [u EXCEPT !.kid[d][p] = n]

(* rb_rotate_left for d = "left": n goes down on side d.                   *)
rb_rotate(t, n, d) ==
  LET r == t.kid[Opp(d)][n]
      u == [t EXCEPT !.kid[Opp(d)][n] = t.kid[d][r], !.kid[d][r] = n, !.up[r] = t.up[n]]
  IN  [Hang(rb_set_parent(u, t.kid[d][r], n), n, t.up[n], r) EXCEPT !.up[n] = r]

rb_insert_color[t \in Tree, n \in Nodes] ==
  LET p == t.up[n]
      g == t.up[p]
      d == SideOf(t, p, g)
      uncle == t.kid[Opp(d)][g]
      inner == t.kid[Opp(d)][p] = n
      u     == IF inner THEN rb_rotate(t, p, d) ELSE t
      top   == IF inner THEN n ELSE p
      low   == IF inner THEN p ELSE n
  IN  IF Black(t, p) THEN [t EXCEPT !.red[t.root] = FALSE]
      ELSE IF ~Black(t, uncle)
      THEN rb_insert_color[[t EXCEPT !.red[uncle] = FALSE, !.red[p] = FALSE, !.red[g] = TRUE], g]
      ELSE rb_insert_color[
             rb_rotate([u EXCEPT !.red[top] = FALSE, !.red[g] = TRUE], g, Opp(d)), low]

(* A mistake: the far nephew is taken for red.                             *)
BorrowFar(t, p, d) ==
  LET s == t.kid[Opp(d)][p]
  IN  rb_rotate([t EXCEPT !.red[s] = t.red[p], !.red[p] = FALSE], p, d)

(* The last repair below p: the far nephew becomes red if it is not, then  *)
(* the sibling takes p's place and colour.                                 *)
Borrow(t, p, d) ==
  LET s    == t.kid[Opp(d)][p]
      near == t.kid[d][s]
      u == IF Black(t, t.kid[Opp(d)][s])
           THEN rb_rotate([t EXCEPT !.red[near] = FALSE, !.red[s] = TRUE], s, Opp(d)) ELSE t
      v == u.kid[Opp(d)][p]
      w == [u EXCEPT !.red[v] = u.red[p], !.red[p] = FALSE, !.red[u.kid[Opp(d)][v]] = FALSE]
  IN  rb_rotate(w, p, d)

rb_erase_color[t \in Tree, n \in Nodes \cup {Null}, p \in Nodes \cup {Null}] ==
  LET d  == SideOf(t, n, p)
      s0 == t.kid[Opp(d)][p]
      u  == IF Black(t, s0) THEN t
            ELSE rb_rotate([t EXCEPT !.red[s0] = FALSE, !.red[p] = TRUE], p, d)
      s  == u.kid[Opp(d)][p]
      done(v, m) == IF m = Null THEN v ELSE [v EXCEPT !.red[m] = FALSE]
  IN  IF ~Black(t, n) \/ n = t.root THEN done(t, n)
      ELSE IF \A e \in Side : Black(u, u.kid[e][s])
      THEN rb_erase_color[[u EXCEPT !.red[s] = TRUE], p, u.up[p]]
      ELSE LET v == Borrow(u, p, d) IN done(v, v.root)

Furthest(t, n, d) ==
  LET down[m \in Nodes] == IF t.kid[d][m] = Null THEN m ELSE down[t.kid[d][m]] IN down[n]

(* A node with one child at most leaves its place to it.                   *)
EraseOuter(t, n) ==
  LET c == IF t.kid["left"][n] = Null THEN t.kid["right"][n] ELSE t.kid["left"][n]
      p == t.up[n]
      u == Hang(rb_set_parent(t, c, p), n, p, c)
  IN  IF t.red[n] THEN u ELSE rb_erase_color[u, c, p]

(* A mistake: the successor's right child is forgotten.                    *)
EraseInnerLost(t, n) ==
  LET s == Furthest(t, t.kid["right"][n], "left")
      u == EraseOuter([t EXCEPT !.kid["right"][s] = Null], s)
  IN  [Hang(u, n, u.up[n], s) EXCEPT !.kid["left"][s] = u.kid["left"][n],
        !.kid["right"][s] = u.kid["right"][n], !.up[s] = u.up[n], !.red[s] = u.red[n]]

(* A node with two children is replaced by its successor s, whose place,   *)
(* and whose colour for the repair, goes to s's child c.                   *)
EraseInner(t, n) ==
  LET s == Furthest(t, t.kid["right"][n], "left")
      c == t.kid["right"][s]
      q == t.up[s]
      p == IF q = n THEN s ELSE q
      u == rb_set_parent(t, c, q)
      v == IF q = n THEN [u EXCEPT !.kid["right"][q] = c] ELSE [u EXCEPT !.kid["left"][q] = c]
      w == [v EXCEPT !.up[s] = v.up[n], !.red[s] = v.red[n],
                     !.kid["left"][s] = v.kid["left"][n], !.kid["right"][s] = v.kid["right"][n]]
      x == Hang(w, n, w.up[n], s)
      y == rb_set_parent(rb_set_parent(x, x.kid["left"][n], s), x.kid["right"][n], s)
  IN  IF t.red[s] THEN y ELSE rb_erase_color[y, c, p]

rb_erase(t, n) ==
  IF \A d \in Side : t.kid[d][n] # Null THEN EraseInner(t, n) ELSE EraseOuter(t, n)

(* What a user does to a removed node (memset to 0 in sched.h).             *)
Forget(t, n) ==
  [t EXCEPT !.up[n] = Null, !.red[n] = TRUE, !.kid["left"][n] = Null, !.kid["right"][n] = Null]

rb_first(t) == IF t.root = Null THEN Null ELSE Furthest(t, t.root, "left")
rb_last(t)  == IF t.root = Null THEN Null ELSE Furthest(t, t.root, "right")

Climb(t, n, d) ==
  LET above[m \in Nodes] ==
        IF t.up[m] # Null /\ m = t.kid[d][t.up[m]] THEN above[t.up[m]] ELSE t.up[m]
  IN  above[n]

(* The neighbour of n in the order, towards side d: down if there is a     *)
(* child there, up otherwise.                                              *)
Neighbour(t, n, d) ==
  IF t.kid[d][n] # Null THEN Furthest(t, t.kid[d][n], Opp(d)) ELSE Climb(t, n, d)

rb_next(t, n) == Neighbour(t, n, "right")
rb_prev(t, n) == Neighbour(t, n, "left")
=============================================================================
