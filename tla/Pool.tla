-------------------------------- MODULE Pool --------------------------------
(***************************************************************************)
(* What the memory pool of ds/mp.h promises its users: the bytes it lends  *)
(* are inside the pool and nobody else's until they are given back.        *)
(***************************************************************************)
EXTENDS Integers

CONSTANTS Size, Caps

VARIABLE lent     \* the byte ranges lent, as [at, n]

Bytes(r) == r.at..r.at + r.n - 1

Init == lent = {}

(* mp_alloc answers: any free place will do.                               *)
Grab(r) ==
  /\ Bytes(r) \subseteq 0..Size-1
  /\ \A other \in lent : other.at # r.at /\ Bytes(other) \cap Bytes(r) = {}
  /\ lent' = lent \cup {r}

GiveBack(r) == lent' = lent \ {r}

(* mp_reset takes everything back.                                         *)
Clear == lent' = {}

Next ==
  \/ \E r \in [at : 0..Size, n : Caps] : Grab(r)
  \/ \E r \in lent : GiveBack(r)
  \/ Clear

Spec == Init /\ [][Next]_lent
=============================================================================
