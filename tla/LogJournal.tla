----------------------------- MODULE LogJournal -----------------------------
(***************************************************************************)
(* The log of Log implements Journal: a record is accepted by its          *)
(* reservation, complete once it is pushed and printed when its text       *)
(* arrives.                                                                *)
(***************************************************************************)
EXTENDS Log

(* A record that arrived, its bytes counted from behind the header.        *)
Shown(r) ==
  [id   |-> r.entry.id,
   size |-> r.entry.size,
   text |-> [k \in DOMAIN r.text |->
               <<r.text[k][1], r.text[k][2] - Header, r.text[k][3] - Header>>]]

Arrived == [i \in DOMAIN sink |-> Shown(sink[i])]

Printed == INSTANCE Journal WITH todo <- waiting, printed <- Arrived

(* Every record comes out once, whole, under its own header, in the order  *)
(* of the reservations, in both modes.                                     *)
ImplementsJournal == Printed!Spec
=============================================================================
