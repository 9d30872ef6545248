------------------------------ MODULE MpscFifo ------------------------------
(***************************************************************************)
(* The ring of Mpsc implements the queue of MpscQueue: a reservation takes *)
(* effect at its compare-and-swap, a record at its push, a read at its     *)
(* copy and at its store of rp.                                            *)
(***************************************************************************)
EXTENDS Mpsc

Held ==
  LET live == LiveCells
  IN  [k \in DOMAIN live |->
         LET owners == {p \in Producers : live[k] \in Region(p)}
         IN  IF owners = {} THEN buf[live[k]]
             ELSE <<CHOOSE p \in owners : TRUE>>]

Queue == INSTANCE MpscQueue WITH q <- Held, out <- dst

(* Records come out whole, once, in the order of their swaps, and none is  *)
(* read before it is pushed, through every wrap of the ring and every race *)
(* of the producers.                                                       *)
ImplementsQueue == Queue!Spec
=============================================================================
