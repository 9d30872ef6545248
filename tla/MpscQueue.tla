----------------------------- MODULE MpscQueue ------------------------------
(***************************************************************************)
(* What the ring of ds/mpsc.h promises: a queue of bytes in the order in   *)
(* which the producers reserved them.  A producer's bytes are pending      *)
(* until it pushes; the consumer takes bytes from the front and never      *)
(* reaches a pending one.                                                  *)
(***************************************************************************)
EXTENDS Integers, Sequences

CONSTANTS Producers, Sizes, Cap

VARIABLES
  q,    \* <<p, k, n>>: byte k of a record of n bytes; <<p>>: pending, of p
  out   \* the bytes the consumer has copied and not yet given back

vars == <<q, out>>

Pending(p) == {k \in DOMAIN q : q[k] = <<p>>}

Init == q = <<>> /\ out = <<>>

(* A producer reserves n bytes behind all others.                          *)
Reserve(p, n) ==
  /\ Pending(p) = {}
  /\ Len(q) + n < Cap
  /\ q' = q \o [k \in 1..n |-> <<p>>]
  /\ UNCHANGED out

(* Its whole record appears at once.                                       *)
Commit(p, n) ==
  /\ Pending(p) # {}
  /\ \E first \in Pending(p) :
       /\ Pending(p) = first..first + n - 1
       /\ q' = [k \in DOMAIN q |->
                  IF k \in Pending(p) THEN <<p, k - first + 1, n>> ELSE q[k]]
  /\ UNCHANGED out

(* The consumer copies the first n bytes, all of them committed ...        *)
Peek(n) ==
  /\ out = <<>>
  /\ \A k \in 1..n : Len(q[k]) = 3
  /\ out' = SubSeq(q, 1, n)
  /\ UNCHANGED q

(* ... and gives them back.                                                *)
Drop ==
  /\ out # <<>>
  /\ q' = SubSeq(q, Len(out) + 1, Len(q))
  /\ out' = <<>>

Next ==
  \/ \E p \in Producers, n \in Sizes : Reserve(p, n) \/ Commit(p, n)
  \/ \E n \in 1..Len(q) : Peek(n)
  \/ Drop

Spec == Init /\ [][Next]_vars
=============================================================================
