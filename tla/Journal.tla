------------------------------ MODULE Journal -------------------------------
(***************************************************************************)
(* What the log of log/log.h promises: every record it accepts is printed  *)
(* once, whole, under its own id, in the order of acceptance.  A record is *)
(* accepted before its text is complete and waits for that.                *)
(***************************************************************************)
EXTENDS Naturals, Sequences

CONSTANTS Producers, Payloads

VARIABLES
  todo,     \* the records accepted and not printed, as [id, size, done]
  printed   \* the records printed, as [id, size, text]

vars == <<todo, printed>>

(* The text of a record of n bytes: its k-th byte is <<id, k, n>>.         *)
Text(id, n) == [k \in 1..n |-> <<id, k, n>>]

Init == todo = <<>> /\ printed = <<>>

Accept(p, n) ==
  /\ \A k \in DOMAIN todo : todo[k].done \/ todo[k].id # p
  /\ todo' = Append(todo, [id |-> p, size |-> n, done |-> FALSE])
  /\ UNCHANGED printed

Complete(k) ==
  /\ ~todo[k].done
  /\ todo' = [todo EXCEPT ![k].done = TRUE]
  /\ UNCHANGED printed

Deliver ==
  /\ todo # <<>> /\ todo[1].done
  /\ printed' = Append(printed, [id   |-> todo[1].id,
                                 size |-> todo[1].size,
                                 text |-> Text(todo[1].id, todo[1].size)])
  /\ todo' = Tail(todo)

Next ==
  \/ \E p \in Producers, n \in Payloads : Accept(p, n)
  \/ \E k \in DOMAIN todo : Complete(k)
  \/ Deliver

Spec == Init /\ [][Next]_vars
=============================================================================
