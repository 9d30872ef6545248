------------------------------ MODULE SpscFifo ------------------------------
(***************************************************************************)
(* The ring of Spsc implements the byte queue of ByteFifo: the bytes held  *)
(* are those of the cells from rp up to wp, a write takes effect at its    *)
(* store of wp and a read at its store of rp.                              *)
(***************************************************************************)
EXTENDS Spsc

Held ==
  IF wpc = "reset" THEN <<>> ELSE [k \in 1..Avail |-> buf[Cell(rp, k - 1)]]

Fifo == INSTANCE ByteFifo WITH q <- Held, src <- wsrc, ask <- want

(* Every byte a read delivers is the oldest byte written and not yet       *)
(* delivered: none is lost, repeated, reordered, torn or made up; a write  *)
(* is cut, refused or displaces old bytes exactly as its policy says, and  *)
(* a read takes all it asked for or all there was.                         *)
ImplementsByteFifo == Fifo!Spec
=============================================================================
