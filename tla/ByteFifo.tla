------------------------------ MODULE ByteFifo ------------------------------
(***************************************************************************)
(* What the single-producer single-consumer ring of ds/spsc.h promises its *)
(* two users: a bounded first-in first-out sequence of bytes.  A write     *)
(* appends the bytes its caller passed all at once, a read takes the       *)
(* oldest bytes all at once.  The policy says what becomes of a write that *)
(* does not fit: it is refused, cut to the room there is, or the oldest    *)
(* bytes make exactly the room it lacks.                                   *)
(***************************************************************************)
EXTENDS Naturals, Sequences

CONSTANTS
  Byte,     \* the values of a byte
  Cap,      \* the capacity
  MaxSize   \* the largest number of bytes one call passes

VARIABLES
  policy,   \* "REJECT", "TRUNCATE" or "OVERWRITE"
  q,        \* the bytes held, oldest first
  src,      \* the bytes a write in progress is to append
  ask,      \* how many bytes a read in progress is to take
  got,      \* what the last completed read returned
  wret      \* how many bytes the last completed write accepted

vars == <<policy, q, src, ask, got, wret>>

Init ==
  /\ policy \in {"REJECT", "TRUNCATE", "OVERWRITE"}
  /\ q = <<>> /\ src = <<>> /\ ask = 0 /\ got = <<>> /\ wret = 0

TooLong == Len(q) + Len(src) > Cap

(* A write begins.                                                         *)
Offer(s) ==
  /\ src = <<>>
  /\ src' = s
  /\ UNCHANGED <<q, ask, got, wret>>

(* It does not fit: it is cut, or the oldest bytes are given up, once.     *)
Cut ==
  /\ policy = "TRUNCATE" /\ TooLong /\ Len(q) < Cap
  /\ src' = SubSeq(src, 1, Cap - Len(q))
  /\ UNCHANGED <<q, ask, got, wret>>

Displace ==
  /\ policy = "OVERWRITE" /\ TooLong
  /\ q' = SubSeq(q, Len(q) + Len(src) - Cap + 1, Len(q))
  /\ UNCHANGED <<src, ask, got, wret>>

(* It returns the number of bytes appended ...                             *)
Put ==
  /\ src # <<>> /\ ~TooLong
  /\ q' = q \o src /\ wret' = Len(src) /\ src' = <<>>
  /\ UNCHANGED <<ask, got>>

(* ... or 0 and appends nothing.                                           *)
Refuse ==
  /\ \/ src = <<>>
     \/ policy = "REJECT" /\ TooLong
     \/ policy = "TRUNCATE" /\ Len(q) = Cap
  /\ wret' = 0 /\ src' = <<>>
  /\ UNCHANGED <<q, ask, got>>

(* A read begins, is cut to what there is, and takes the oldest bytes.     *)
Ask(n) ==
  /\ ask = 0
  /\ ask' = n
  /\ UNCHANGED <<q, src, got, wret>>

Lower ==
  /\ ask > Len(q) /\ q # <<>>
  /\ ask' = Len(q)
  /\ UNCHANGED <<q, src, got, wret>>

Get ==
  /\ ask \in 1..Len(q)
  /\ got' = SubSeq(q, 1, ask) /\ q' = SubSeq(q, ask + 1, Len(q)) /\ ask' = 0
  /\ UNCHANGED <<src, wret>>

GetNone ==
  /\ ask = 0 \/ q = <<>>
  /\ got' = <<>> /\ ask' = 0
  /\ UNCHANGED <<q, src, wret>>

(* Between calls the content may be thrown away.                           *)
Reset ==
  /\ src = <<>> /\ ask = 0
  /\ q' = <<>>
  /\ UNCHANGED <<src, ask, got, wret>>

Next ==
  /\ UNCHANGED policy
  /\ \/ \E n \in 0..MaxSize : Ask(n) \/ \E s \in [1..n -> Byte] : Offer(s)
     \/ Cut \/ Displace \/ Put \/ Refuse
     \/ Lower \/ Get \/ GetNone \/ Reset

Spec == Init /\ [][Next]_vars
=============================================================================
