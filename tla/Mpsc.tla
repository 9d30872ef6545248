-------------------------------- MODULE Mpsc --------------------------------
(***************************************************************************)
(* The multi-producer single-consumer ring of ds/mpsc.h.  A producer marks *)
(* the offset it starts from in its own reserve_pos, moves wp forward with *)
(* one compare-and-swap, fills the region it won and clears reserve_pos;   *)
(* the consumer reads up to the smallest offset still reserved.  A region  *)
(* is contiguous: a reservation that would cross the end of the storage    *)
(* starts over at 0 and leaves the abandoned tail's start in warp_end.     *)
(*                                                                         *)
(* Every access to shared memory is a step, except that the bytes of one   *)
(* memcpy move together: RegionsAreExclusive and FetchIsCommitted, checked *)
(* in every state, say nobody else touches them meanwhile.                 *)
(***************************************************************************)
EXTENDS Integers, Sequences, FiniteSets

CONSTANTS
  N,          \* nproducers; the producers are 1..N
  Cap,        \* mpsc->cap
  Sizes,      \* the sizes producers write
  ReadSizes,  \* the sizes the consumer reads
  WrapMod     \* how many values MPSC_WRAP_COUNTER takes: 2^31, 2^15 on the MCU

ASSUME MpscAssumption ==
  /\ N \in Nat \ {0} /\ Cap \in Nat \ {0} /\ WrapMod \in Nat \ {0, 1}
  /\ Sizes \subseteq Nat \ {0} /\ ReadSizes \subseteq Nat \ {0}
  /\ IsFiniteSet(Sizes) /\ IsFiniteSet(ReadSizes)

Producers == 1..N
OffsetMax == Cap + 1     \* MPSC_OFFSET_MAX: above every offset

VARIABLES
  buf,       \* per cell: the byte it holds
  wp,        \* [off, cnt, lock]: offset, MPSC_WRAP_COUNTER, MPSC_WRAP_LOCK_BIT
  rp,        \* the consumer's offset
  warp_end,  \* where the abandoned tail starts, OffsetMax when there is none
  flag,      \* per producer: registered
  reserve,   \* per producer: reserve_pos as [pos, lock]
  pc,        \* per producer: where its call is
  w,         \* per producer: the locals of its call
  cpc,       \* where the consumer's call is
  want,      \* the size it reads
  crp, cwp,  \* the rp and the offset of wp it loaded
  ready,     \* the smallest reservation found so far
  ci,        \* the producer it looks at next
  dst        \* the bytes it copied

shared == <<buf, wp, rp, warp_end, flag, reserve>>
cvars  == <<cpc, want, crp, cwp, ready, ci, dst>>
vars   == <<shared, pc, w, cvars>>

Zero  == [off |-> 0, cnt |-> 0, lock |-> FALSE]
Clear == [pos |-> OffsetMax, lock |-> FALSE]       \* reserve_pos when idle

(* size: asked for; seen: the wp loaded.  Zero outside a call.             *)
NoCall == [size |-> 0, seen |-> Zero]

(* <<p, k, n>> is the k-th byte of a record of n bytes of producer p.  A   *)
(* cell whose byte was consumed, or never written, holds Empty: the stale  *)
(* byte a misplaced read would return.                                     *)
Empty == <<0, 0, 0>>

-----------------------------------------------------------------------------
(* mpsc_init leaves wp, rp and the producers as the zeroed mpsc_t has them.*)
Init ==
  /\ buf = [c \in 0..Cap-1 |-> Empty]
  /\ wp = Zero /\ rp = 0 /\ warp_end = OffsetMax
  /\ flag = [p \in Producers |-> FALSE]
  /\ reserve = [p \in Producers |-> [pos |-> 0, lock |-> FALSE]]
  /\ pc = [p \in Producers |-> "off"]
  /\ w = [p \in Producers |-> NoCall]
  /\ cpc = "idle" /\ want = 0 /\ crp = 0 /\ cwp = 0 /\ ready = OffsetMax
  /\ ci = 1 /\ dst = <<>>

Goto(p, from, to) == pc[p] = from /\ pc' = [pc EXCEPT ![p] = to]

-----------------------------------------------------------------------------
(* mpsc_reg.  reserve_pos is stored first, while flag still hides it.      *)
Reg(p) ==
  /\ Goto(p, "off", "open")
  /\ reserve' = [reserve EXCEPT ![p] = Clear]
  /\ flag' = [flag EXCEPT ![p] = TRUE]
  /\ UNCHANGED <<buf, wp, rp, warp_end, w, cvars>>

Unreg(p) ==
  /\ Goto(p, "open", "off")
  /\ flag' = [flag EXCEPT ![p] = FALSE]
  /\ UNCHANGED <<buf, wp, rp, warp_end, reserve, w, cvars>>

(* mpsc_write: a registered producer asks for n bytes.                     *)
WriteCall(p, n) ==
  /\ Goto(p, "open", "load")
  /\ w' = [w EXCEPT ![p].size = n]
  /\ UNCHANGED <<shared, cvars>>

(* mpsc_get_wp returns only when the wrap lock is free.                    *)
LoadWp(p) ==
  /\ Goto(p, "load", "mark")
  /\ ~wp.lock
  /\ w' = [w EXCEPT ![p].seen = wp]
  /\ UNCHANGED <<shared, cvars>>

Mark(p) ==
  /\ Goto(p, "mark", "check")
  /\ reserve' = [reserve EXCEPT ![p] = [pos |-> w[p].seen.off, lock |-> TRUE]]
  /\ UNCHANGED <<buf, wp, rp, warp_end, flag, w, cvars>>

(* A mistake the properties must notice: a wrap that does not count.       *)
TargetUncounted(v, n) ==
  IF v.off + n < Cap THEN [v EXCEPT !.off = v.off + n]
  ELSE [off  |-> IF v.off + n = Cap THEN 0 ELSE n,
        cnt  |-> v.cnt,
        lock |-> v.off + n > Cap]

(* Where a reservation of n bytes on top of the word v would leave wp.     *)
Target(v, n) ==
  IF v.off + n < Cap THEN [v EXCEPT !.off = v.off + n]
  ELSE [off  |-> IF v.off + n = Cap THEN 0 ELSE n,
        cnt  |-> (v.cnt + 1) % WrapMod,
        lock |-> v.off + n > Cap]

(* It would run into the consumer, before the end or after wrapping.       *)
NoRoom(v, n) ==
  \/ v.off < rp /\ v.off + n >= rp
  \/ v.off + n >= Cap /\ Target(v, n).off >= rp

NewWp(p) == Target(w[p].seen, w[p].size)

CheckFails(p) ==
  /\ Goto(p, "check", "fail")
  /\ NoRoom(w[p].seen, w[p].size)
  /\ UNCHANGED <<shared, w, cvars>>

CheckPasses(p) ==
  /\ Goto(p, "check", "cas")
  /\ ~NoRoom(w[p].seen, w[p].size)
  /\ UNCHANGED <<shared, w, cvars>>

(* A mistake: the mark is left behind.                                     *)
FailMarked(p) ==
  /\ Goto(p, "fail", "open")
  /\ w' = [w EXCEPT ![p] = NoCall]
  /\ UNCHANGED <<shared, cvars>>

Fail(p) ==
  /\ Goto(p, "fail", "open")
  /\ reserve' = [reserve EXCEPT ![p] = Clear]
  /\ w' = [w EXCEPT ![p] = NoCall]
  /\ UNCHANGED <<buf, wp, rp, warp_end, flag, cvars>>

(* The bound of the model: wp does not wrap so often that the counter      *)
(* comes back to the value a producer still holds.  In the code that takes *)
(* 2^31 wraps (2^15 on the MCU) between its load of wp and its swap.       *)
NobodyLapped(p) ==
  w[p].seen.off + w[p].size >= Cap =>
    \A q \in Producers \ {p} : pc[q] \in {"mark", "check", "cas"} =>
      w[q].seen.cnt # (w[p].seen.cnt + 1) % WrapMod

CasOk(p) ==
  /\ Goto(p, "cas", "settle")
  /\ wp = w[p].seen /\ NobodyLapped(p)
  /\ wp' = NewWp(p)
  /\ UNCHANGED <<buf, rp, warp_end, flag, reserve, w, cvars>>

(* The swap found another wp, or failed spuriously (it is the weak one).   *)
CasFail(p) ==
  /\ Goto(p, "cas", "load")
  /\ w' = [w EXCEPT ![p].seen = Zero]
  /\ UNCHANGED <<shared, cvars>>

(* A mistake: the reservation is given up before the bytes are in place.   *)
SettleCleared(p) ==
  /\ Goto(p, "settle", IF NewWp(p).lock THEN "wrap" ELSE "fill")
  /\ reserve' = [reserve EXCEPT ![p] = Clear]
  /\ UNCHANGED <<buf, wp, rp, warp_end, flag, w, cvars>>

Settle(p) ==
  /\ Goto(p, "settle", IF NewWp(p).lock THEN "wrap" ELSE "fill")
  /\ reserve' = [reserve EXCEPT ![p].lock = FALSE]
  /\ UNCHANGED <<buf, wp, rp, warp_end, flag, w, cvars>>

(* warp_end is a plain variable, written under the wrap lock.              *)
Wrap(p) ==
  /\ Goto(p, "wrap", "unlock")
  /\ warp_end' = w[p].seen.off
  /\ UNCHANGED <<buf, wp, rp, flag, reserve, w, cvars>>

Unlock(p) ==
  /\ Goto(p, "unlock", "fill")
  /\ wp' = [NewWp(p) EXCEPT !.lock = FALSE]
  /\ UNCHANGED <<buf, rp, warp_end, flag, reserve, w, cvars>>

(* The region a producer owns from its swap to its push: after a wrap it   *)
(* starts at 0, otherwise at the offset the producer saw.                  *)
Start(p)  == IF NewWp(p).lock THEN 0 ELSE w[p].seen.off
Owning(p) == pc[p] \in {"settle", "wrap", "unlock", "fill", "push"}
Region(p) == IF Owning(p) THEN Start(p)..Start(p) + w[p].size - 1 ELSE {}

Fill(p) ==
  /\ Goto(p, "fill", "push")
  /\ buf' = [c \in 0..Cap-1 |->
               IF c \in Region(p) THEN <<p, c - Start(p) + 1, w[p].size>> ELSE buf[c]]
  /\ UNCHANGED <<wp, rp, warp_end, flag, reserve, w, cvars>>

(* mpsc_push                                                               *)
Push(p) ==
  /\ Goto(p, "push", "open")
  /\ reserve' = [reserve EXCEPT ![p] = Clear]
  /\ w' = [w EXCEPT ![p] = NoCall]
  /\ UNCHANGED <<buf, wp, rp, warp_end, flag, cvars>>

-----------------------------------------------------------------------------
(* mpsc_read: mpsc_pop, the copy, mpsc_release.                            *)
ReadCall(n) ==
  /\ cpc = "idle"
  /\ want' = n /\ crp' = rp
  /\ cpc' = "load"
  /\ UNCHANGED <<shared, pc, w, cwp, ready, ci, dst>>

(* The locals of the scan are dead, and those of the whole call.           *)
Forget == cwp' = 0 /\ ready' = OffsetMax /\ ci' = 1
Return == cpc' = "idle" /\ want' = 0 /\ crp' = 0 /\ dst' = <<>> /\ Forget

ReadEmpty ==
  /\ cpc = "load"
  /\ ~wp.lock /\ wp.off = crp
  /\ Return
  /\ UNCHANGED <<shared, pc, w>>

(* A mistake: the wrap lock is not waited for.                             *)
ReadLoadUnlocked ==
  /\ cpc = "load"
  /\ wp.off # crp
  /\ cwp' = wp.off
  /\ cpc' = "flag"
  /\ UNCHANGED <<shared, pc, w, want, crp, ready, ci, dst>>

ReadLoad ==
  /\ cpc = "load"
  /\ ~wp.lock /\ wp.off # crp
  /\ cwp' = wp.off
  /\ cpc' = "flag"
  /\ UNCHANGED <<shared, pc, w, want, crp, ready, ci, dst>>

(* Moves on to the next producer, or to the decision after the last.       *)
NextProducer ==
  /\ ci' = ci + 1
  /\ cpc' = IF ci = N THEN "decide" ELSE "flag"

ScanUnregistered ==
  /\ cpc = "flag"
  /\ ~flag[ci]
  /\ NextProducer
  /\ UNCHANGED <<shared, pc, w, want, crp, cwp, ready, dst>>

ScanRegistered ==
  /\ cpc = "flag"
  /\ flag[ci]
  /\ cpc' = "reserve"
  /\ UNCHANGED <<shared, pc, w, want, crp, cwp, ready, ci, dst>>

(* A mistake: reservations behind rp, after a wrap, count too.             *)
ScanReserveAll ==
  /\ cpc = "reserve"
  /\ ~reserve[ci].lock
  /\ ready' = IF reserve[ci].pos < ready THEN reserve[ci].pos ELSE ready
  /\ NextProducer
  /\ UNCHANGED <<shared, pc, w, want, crp, cwp, dst>>

(* mpsc_get_reserve_pos waits out the lock bit.                            *)
ScanReserve ==
  /\ cpc = "reserve"
  /\ ~reserve[ci].lock
  /\ ready' = IF reserve[ci].pos >= crp /\ reserve[ci].pos < ready
                THEN reserve[ci].pos ELSE ready
  /\ NextProducer
  /\ UNCHANGED <<shared, pc, w, want, crp, cwp, dst>>

-----------------------------------------------------------------------------
(* The end of the data from crp on: the abandoned tail's start when wp has *)
(* wrapped, wp otherwise.                                                  *)
Wrapped == cwp < crp
DataEndUnwrapped == cwp      \* a mistake: the wrap is not looked for
DataEnd == IF ~Wrapped THEN cwp
           ELSE IF warp_end = OffsetMax THEN Cap ELSE warp_end

(* A mistake: a reservation before the wrap may still be pending.          *)
AtWarpEndPending == Wrapped /\ crp = DataEnd

(* Everything before the wrap is consumed: go on from offset 0.            *)
AtWarpEnd == Wrapped /\ ready = OffsetMax /\ crp = DataEnd

ReadAvail == (IF ready < DataEnd THEN ready ELSE DataEnd) - crp

RewindMark ==
  /\ cpc = "decide" /\ AtWarpEnd
  /\ warp_end' = OffsetMax
  /\ cpc' = "rewind" /\ Forget
  /\ UNCHANGED <<buf, wp, rp, flag, reserve, pc, w, want, crp, dst>>

RewindRp ==
  /\ cpc = "rewind"
  /\ rp' = 0 /\ crp' = 0
  /\ cpc' = "load"
  /\ UNCHANGED <<buf, wp, warp_end, flag, reserve, pc, w, want, cwp, ready, ci, dst>>

(* Nothing readable, or less than asked: nothing is read and the release   *)
(* of 0 bytes stores rp again.                                             *)
ReadShort ==
  /\ cpc = "decide" /\ ~AtWarpEnd
  /\ ReadAvail < want
  /\ Return
  /\ UNCHANGED <<shared, pc, w>>

ReadEnough ==
  /\ cpc = "decide" /\ ~AtWarpEnd
  /\ ReadAvail >= want
  /\ cpc' = "copy" /\ Forget
  /\ UNCHANGED <<shared, pc, w, want, crp, dst>>

Popped == crp..crp + want - 1

Fetch ==
  /\ cpc = "copy"
  /\ dst' = [k \in 1..want |-> buf[crp + k - 1]]
  /\ cpc' = "release"
  /\ UNCHANGED <<shared, pc, w, want, crp, cwp, ready, ci>>

Release ==
  /\ cpc = "release"
  /\ rp' = IF rp + want = Cap THEN 0 ELSE rp + want
  /\ buf' = [c \in 0..Cap-1 |-> IF c \in Popped THEN Empty ELSE buf[c]]
  /\ Return
  /\ UNCHANGED <<wp, warp_end, flag, reserve, pc, w>>

-----------------------------------------------------------------------------
ProducerStep(p) ==
  \/ LoadWp(p) \/ Mark(p) \/ CheckFails(p) \/ CheckPasses(p) \/ Fail(p)
  \/ CasOk(p) \/ CasFail(p) \/ Settle(p) \/ Wrap(p) \/ Unlock(p)
  \/ Fill(p) \/ Push(p)

Producer(p) ==
  \/ Reg(p) \/ Unreg(p)
  \/ \E n \in Sizes : WriteCall(p, n)
  \/ ProducerStep(p)

ConsumerStep ==
  \/ ReadEmpty \/ ReadLoad \/ ScanUnregistered \/ ScanRegistered \/ ScanReserve
  \/ RewindMark \/ RewindRp \/ ReadShort \/ ReadEnough \/ Fetch \/ Release

Consumer ==
  \/ \E n \in ReadSizes : ReadCall(n)
  \/ ConsumerStep

Next == Consumer \/ \E p \in Producers : Producer(p)

Spec == Init /\ [][Next]_vars

(* Every started call keeps taking steps; a producer that can swap again   *)
(* and again at last does (the weak swap does not fail spuriously forever).*)
Fairness ==
  /\ WF_vars(ConsumerStep)
  /\ \A p \in Producers : WF_vars(ProducerStep(p)) /\ SF_vars(CasOk(p))

FairSpec == Spec /\ Fairness

-----------------------------------------------------------------------------
(* The cells reserved and not consumed, in the order of their reservation: *)
(* from the consumer's offset to wp, around the abandoned tail if wp has   *)
(* wrapped.  The producer that wrapped knows the tail before warp_end does.*)
First == IF cpc = "rewind" THEN 0 ELSE rp

TailStart ==
  IF \E p \in Producers : pc[p] \in {"settle", "wrap"} /\ NewWp(p).lock
    THEN LET p == CHOOSE p \in Producers :
                    pc[p] \in {"settle", "wrap"} /\ NewWp(p).lock
         IN  w[p].seen.off
    ELSE IF warp_end = OffsetMax THEN Cap ELSE warp_end

LiveCells ==
  IF wp.off >= First
    THEN [k \in 1..wp.off - First |-> First + k - 1]
    ELSE LET tail == TailStart - First
         IN  [k \in 1..tail + wp.off |-> IF k <= tail THEN First + k - 1 ELSE k - 1 - tail]

Live == LET live == LiveCells IN {live[k] : k \in DOMAIN live}

(* The regions of two producers never share a cell, whatever wp each saw   *)
(* when it started, and each lies among the reserved cells inside the      *)
(* storage.                                                                *)
RegionsAreExclusive ==
  LET live == Live
  IN  \A p \in Producers :
        /\ Region(p) \subseteq live /\ Region(p) \subseteq 0..Cap-1
        /\ \A q \in Producers \ {p} : Region(p) \cap Region(q) = {}

(* The consumer copies, and gives back, only bytes whose producer is done. *)
FetchIsCommitted ==
  cpc \in {"copy", "release"} =>
    /\ Popped \subseteq Live
    /\ \A c \in Popped : buf[c] # Empty /\ \A p \in Producers : c \notin Region(p)

(* ready - rp and the end of the copy are computed in an unsigned type:    *)
(* the difference is never negative and never leaves the storage.          *)
AvailIsSane ==
  cpc = "decide" /\ ~AtWarpEnd => ReadAvail \in 0..Cap - crp

(* warp_end is not atomic: the producer that writes it and the consumer    *)
(* that reads or resets it are never there together.                       *)
WarpEndIsNotShared ==
  LET writers == {p \in Producers : pc[p] = "wrap"}
      reader  == cpc = "decide" /\ Wrapped
  IN  /\ Cardinality(writers) <= 1
      /\ reader => writers = {}

(* A consumer that took the beginning of a record gets the rest of it at   *)
(* once: log_flush reads the payload right after the header and treats a   *)
(* short read as no payload.                                               *)
BytesLeft(b) == IF b[2] > 1 THEN b[3] - b[2] + 1 ELSE 0

RestIsReadable ==
  [][cpc' = "idle" /\ cpc \in {"load", "decide"} =>
       BytesLeft(buf[rp]) = 0 \/ BytesLeft(buf[rp]) < want]_vars

(* mpsc_acquire's comment: -1 means that there is not enough space.  An    *)
(* empty ring has all of it, yet a record above half the capacity may fit  *)
(* neither behind wp nor before rp, and then no read ever makes room.      *)
RefusesOnlyForSpace ==
  [][\A p \in Producers : pc[p] = "check" /\ pc'[p] = "fail" => LiveCells # <<>>]_vars

(* Once no new write starts, every call ends: no path leaves a lock bit    *)
(* set, in wp or in a reserve_pos, for the spinning side to wait on.  With *)
(* new writes the consumer may find a reserve_pos locked every time.       *)
NoNewWrites == [][\A p \in Producers : pc[p] = "open" => pc'[p] # "load"]_vars

CallsReturn ==
  <>NoNewWrites =>
    /\ cpc # "idle" ~> cpc = "idle"
    /\ \A p \in Producers : pc[p] \notin {"off", "open"} ~> pc[p] \in {"off", "open"}
=============================================================================
