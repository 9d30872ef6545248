------------------------------- MODULE MCSpsc -------------------------------
(* Spsc and its refinement on small rings.  The storage starts as zeros: a *)
(* cell is never delivered before it is written.                           *)
EXTENDS SpscFifo

MCInit == Init /\ buf = [c \in 0..Cap-1 |-> 0]
MCSpec == MCInit /\ [][Next]_vars
=============================================================================
