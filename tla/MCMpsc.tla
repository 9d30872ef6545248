------------------------------- MODULE MCMpsc -------------------------------
(* Mpsc and its refinement on small rings.                                 *)
EXTENDS MpscFifo
=============================================================================
