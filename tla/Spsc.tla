-------------------------------- MODULE Spsc --------------------------------
(***************************************************************************)
(* The single-producer single-consumer byte ring of ds/spsc.h.  One thread *)
(* (or, through shm.h, one process) calls spsc_write, another spsc_read.   *)
(* wp and rp run freely modulo the width of usz and are masked only to     *)
(* find a cell.  Each access to shared memory is a step: the loads, every  *)
(* byte of the two memcpy calls, the stores.                               *)
(*                                                                         *)
(* wpc/wsrc/wi/excess are the locals of the writer's call, rpc/want/rrp/   *)
(* dst those of the reader's call; a local of an idle side is 0 or <<>>.   *)
(***************************************************************************)
EXTENDS Integers, Sequences

CONSTANTS
  Byte,      \* the values a byte takes
  Cap,       \* spsc->cap
  IndexMod,  \* 2^(width of usz), scaled down: wp and rp live in 0..IndexMod-1
  MaxSize,   \* the largest size a caller passes to spsc_write or spsc_read
  Policies,  \* the values of spsc->e_policy
  Serialized \* those under which calls of the two sides never overlap

(* spsc_init_buf accepts powers of two only; cap itself is a usz.          *)
ASSUME SpscAssumption ==
  /\ Byte # {}
  /\ Cap \in Nat \ {0} /\ \E n \in 0..Cap : Cap = 2^n
  /\ IndexMod \in Nat /\ 2 * Cap <= IndexMod /\ IndexMod % Cap = 0
  /\ MaxSize \in Nat
  /\ Policies \subseteq {"TRUNCATE", "OVERWRITE", "REJECT"}
  /\ Serialized \subseteq Policies

VARIABLES
  policy,  \* spsc->e_policy, chosen by spsc_init
  buf,     \* the storage: one byte per cell
  wp, rp,  \* spsc->wp, spsc->rp
  wpc,     \* where the writer's call is
  wsrc,    \* the bytes it writes, cut to the accepted size once that is known
  excess,  \* size - free, the argument of the fetch_add under OVERWRITE
  wi,      \* how many bytes the memcpy calls have copied in
  wret,    \* what the last spsc_write returned
  rpc,     \* where the reader's call is
  want,    \* the size it reads, cut to avail once that is known
  rrp,     \* the rp it loaded
  dst,     \* the bytes the memcpy calls have copied out
  got      \* what the last spsc_read delivered

wvars == <<wpc, wsrc, excess, wi, wret>>
rvars == <<rpc, want, rrp, dst, got>>
vars  == <<policy, buf, wp, rp, wvars, rvars>>

-----------------------------------------------------------------------------
(* Arithmetic of usz, and the cell of the k-th byte copied from position p *)
(* on: the first memcpy runs to the end of the storage, the second starts  *)
(* over at cell 0.                                                         *)
Index == 0..IndexMod-1
Sub(a, b) == IF a >= b THEN a - b ELSE a - b + IndexMod
AddUnwrapped(a, n) == a + n  \* a mistake: the sum kept in a wider integer
Add(a, n) == IF a + n >= IndexMod THEN a + n - IndexMod ELSE a + n

CellUnsplit(p, k) == (p % Cap) + k  \* a mistake: one memcpy, not split at the end

Cell(p, k) ==
  LET off   == p % Cap
      first == Cap - off
  IN  IF k < first THEN off + k ELSE k - first

Avail == Sub(wp, rp)
Free  == Sub(Cap, Avail)

(* A mistake: the free space is not compared with the size.                *)
AcceptedUnchecked(free, size) == size

(* The size spsc_policy returns.                                           *)
Accepted(free, size) ==
  IF size <= free THEN size
  ELSE CASE policy = "TRUNCATE"  -> free
         [] policy = "OVERWRITE" -> size
         [] policy = "REJECT"    -> 0

-----------------------------------------------------------------------------
Init ==
  /\ policy \in Policies
  /\ buf \in [0..Cap-1 -> Byte]
  /\ wp = 0 /\ rp = 0
  /\ wpc = "idle" /\ wsrc = <<>> /\ excess = 0 /\ wi = 0 /\ wret = 0
  /\ rpc = "idle" /\ want = 0 /\ rrp = 0 /\ dst = <<>> /\ got = <<>>

(* spsc_write.  SPSC_POLICY_OVERWRITE checks no size against cap: a caller *)
(* that passes more would overrun the storage.                             *)
WriteCall(s) ==
  /\ wpc = "idle"
  /\ policy \in Serialized => rpc = "idle"
  /\ policy = "OVERWRITE" => Len(s) <= Cap
  /\ wsrc' = s
  /\ wpc' = "load"
  /\ UNCHANGED <<buf, wp, rp, excess, wi, wret, rvars>>

(* The loads of wp (the writer's own) and of rp, then spsc_policy.         *)
WriteNothing ==
  /\ wpc = "load"
  /\ Accepted(Free, Len(wsrc)) = 0
  /\ wpc' = "idle" /\ wsrc' = <<>> /\ wret' = 0
  /\ UNCHANGED <<buf, wp, rp, excess, wi, rvars>>

WriteAccept ==
  /\ wpc = "load"
  /\ LET size == Accepted(Free, Len(wsrc)) IN
       /\ size > 0
       /\ wsrc' = SubSeq(wsrc, 1, size)
       /\ IF size > Free
            THEN wpc' = "drop" /\ excess' = size - Free
            ELSE wpc' = "copy" /\ UNCHANGED excess
  /\ UNCHANGED <<buf, wp, rp, wi, wret, rvars>>

(* OVERWRITE: atomic_fetch_add on the reader's index.                      *)
WriteDrop ==
  /\ wpc = "drop"
  /\ rp' = Add(rp, excess)
  /\ wpc' = "copy"
  /\ UNCHANGED <<buf, wp, wsrc, excess, wi, wret, rvars>>

(* A mistake: the second memcpy starts at src again, not at src + first.   *)
WriteByteRestart ==
  /\ wpc = "copy"
  /\ wi < Len(wsrc)
  /\ LET first == Cap - (wp % Cap) IN
       buf' = [buf EXCEPT ![Cell(wp, wi)] =
                 wsrc[IF wi < first THEN wi + 1 ELSE wi - first + 1]]
  /\ wi' = wi + 1
  /\ UNCHANGED <<wp, rp, wpc, wsrc, excess, wret, rvars>>

WriteByte ==
  /\ wpc = "copy"
  /\ wi < Len(wsrc)
  /\ buf' = [buf EXCEPT ![Cell(wp, wi)] = wsrc[wi + 1]]
  /\ wi' = wi + 1
  /\ UNCHANGED <<wp, rp, wpc, wsrc, excess, wret, rvars>>

WriteStore ==
  /\ wpc = "copy"
  /\ wi = Len(wsrc)
  /\ wp' = Add(wp, Len(wsrc))
  /\ wret' = Len(wsrc)
  /\ wpc' = "idle" /\ wsrc' = <<>> /\ excess' = 0 /\ wi' = 0
  /\ UNCHANGED <<buf, rp, rvars>>

-----------------------------------------------------------------------------
(* The reader loads rp at the call ...                                     *)
ReadCall(n) ==
  /\ rpc = "idle"
  /\ wpc # "reset"
  /\ policy \in Serialized => wpc = "idle"
  /\ want' = n
  /\ rrp' = rp
  /\ rpc' = "load"
  /\ UNCHANGED <<buf, wp, rp, wvars, dst, got>>

(* ... and wp after it.                                                    *)
ReadNothing ==
  /\ rpc = "load"
  /\ want = 0 \/ Sub(wp, rrp) = 0
  /\ rpc' = "idle" /\ want' = 0 /\ rrp' = 0 /\ got' = <<>>
  /\ UNCHANGED <<buf, wp, rp, wvars, dst>>

(* A mistake: the size is not cut to what is available.                    *)
ReadAcceptUncut ==
  /\ rpc = "load"
  /\ want > 0 /\ Sub(wp, rrp) > 0
  /\ rpc' = "copy"
  /\ UNCHANGED <<buf, wp, rp, wvars, want, rrp, dst, got>>

(* A mistake: rp is stored before the bytes are copied out.                *)
ReadAcceptEarly ==
  /\ rpc = "load"
  /\ want > 0 /\ Sub(wp, rrp) > 0
  /\ want' = IF want > Sub(wp, rrp) THEN Sub(wp, rrp) ELSE want
  /\ rp' = Add(rrp, want')
  /\ rpc' = "copy"
  /\ UNCHANGED <<buf, wp, wvars, rrp, dst, got>>

ReadAccept ==
  /\ rpc = "load"
  /\ want > 0 /\ Sub(wp, rrp) > 0
  /\ want' = IF want > Sub(wp, rrp) THEN Sub(wp, rrp) ELSE want
  /\ rpc' = "copy"
  /\ UNCHANGED <<buf, wp, rp, wvars, rrp, dst, got>>

ReadByte ==
  /\ rpc = "copy"
  /\ Len(dst) < want
  /\ dst' = Append(dst, buf[Cell(rrp, Len(dst))])
  /\ UNCHANGED <<buf, wp, rp, wvars, rpc, want, rrp, got>>

ReadStore ==
  /\ rpc = "copy"
  /\ Len(dst) = want
  /\ rp' = Add(rrp, want)
  /\ got' = dst
  /\ rpc' = "idle" /\ want' = 0 /\ rrp' = 0 /\ dst' = <<>>
  /\ UNCHANGED <<buf, wp, wvars>>

-----------------------------------------------------------------------------
(* spsc_reset: two stores, rp first.  Its caller owns both sides: nothing  *)
(* in the code protects it from a concurrent call.                         *)
ResetRp ==
  /\ wpc = "idle" /\ rpc = "idle"
  /\ rp' = 0
  /\ wpc' = "reset"
  /\ UNCHANGED <<buf, wp, wsrc, excess, wi, wret, rvars>>

ResetWp ==
  /\ wpc = "reset"
  /\ wp' = 0
  /\ wpc' = "idle"
  /\ UNCHANGED <<buf, rp, wsrc, excess, wi, wret, rvars>>

-----------------------------------------------------------------------------
Writer ==
  \/ \E n \in 0..MaxSize : \E s \in [1..n -> Byte] : WriteCall(s)
  \/ WriteNothing \/ WriteAccept \/ WriteDrop \/ WriteByte \/ WriteStore

Reader ==
  \/ \E n \in 0..MaxSize : ReadCall(n)
  \/ ReadNothing \/ ReadAccept \/ ReadByte \/ ReadStore

Reset == ResetRp \/ ResetWp

Next == (Writer \/ Reader \/ Reset) /\ UNCHANGED policy

Spec == Init /\ [][Next]_vars

-----------------------------------------------------------------------------
(* Every variable stays in the range its declaration gives it, and the     *)
(* locals of an idle call are clear.                                       *)
TypeOK ==
  /\ policy \in Policies
  /\ buf \in [0..Cap-1 -> Byte]
  /\ wp \in Index /\ rp \in Index
  /\ wpc \in {"idle", "load", "drop", "copy", "reset"}
  /\ wsrc \in Seq(Byte) /\ Len(wsrc) <= MaxSize
  /\ excess \in 0..MaxSize /\ wi \in 0..MaxSize /\ wret \in 0..MaxSize
  /\ rpc \in {"idle", "load", "copy"}
  /\ want \in 0..MaxSize /\ rrp \in Index
  /\ dst \in Seq(Byte) /\ Len(dst) <= MaxSize
  /\ got \in Seq(Byte) /\ Len(got) <= MaxSize

(* The two indices never get further apart than the capacity (spsc.h:19),  *)
(* however the calls of the two sides interleave and the indices wrap, so  *)
(* spsc_free never underflows and spsc_policy never takes a full ring for  *)
(* an empty one.                                                           *)
AvailWithinCap == wpc # "reset" => Avail <= Cap

(* What the locals of a call mean while it runs: a write that passed       *)
(* spsc_policy has room for the bytes it is copying, a read that loaded wp *)
(* has the bytes it is copying, and the index a side loaded from itself is *)
(* still its own.  With TypeOK and AvailWithinCap it is inductive.         *)
CallsAreBacked ==
  /\ wpc \in {"idle", "load", "reset"} => wi = 0 /\ excess = 0
  /\ wpc = "copy" => wsrc # <<>> /\ wi <= Len(wsrc) /\ Avail + Len(wsrc) <= Cap
  /\ wpc = "drop" => /\ wi = 0 /\ excess \in 1..Avail
                     /\ Avail + Len(wsrc) = Cap + excess
  /\ wpc = "reset" => rp = 0 /\ rpc = "idle"
  /\ rpc # "idle" => rrp = rp
  /\ rpc # "copy" => dst = <<>>
  /\ rpc = "copy" => want > 0 /\ want <= Avail /\ Len(dst) <= want
  /\ wpc = "load" /\ policy = "OVERWRITE" => Len(wsrc) <= Cap
  /\ excess > 0 => policy = "OVERWRITE"
  /\ policy \in Serialized => wpc = "idle" \/ rpc = "idle"

(* The cells a copy in progress still has to touch.                        *)
ToFill  == IF wpc = "copy" THEN {Cell(wp, k) : k \in wi..Len(wsrc)-1} ELSE {}
ToFetch == IF rpc = "copy" THEN {Cell(rrp, k) : k \in Len(dst)..want-1} ELSE {}
Unread  == IF wpc = "reset" THEN {} ELSE {Cell(rp, k) : k \in 0..Avail-1}

(* The memcpy calls of a write stay inside the storage and clear of every  *)
(* byte that is committed but not consumed, whatever the reader did since  *)
(* the writer loaded rp.                                                   *)
FillsFreeCells ==
  /\ ToFill \subseteq 0..Cap-1
  /\ ToFill \cap Unread = {}

(* No byte is filled while the reader's memcpy has still to fetch it, and  *)
(* the reader fetches committed bytes only: a read is never torn.          *)
FetchesStableCells ==
  /\ ToFetch \subseteq 0..Cap-1
  /\ ToFetch \cap ToFill = {}
  /\ ToFetch \subseteq Unread

(* A side that looked at the other side's index and acts later is safe:    *)
(* until the writer stores wp it only gets more room than spsc_free said,  *)
(* until the reader stores rp it only gets more bytes than spsc_avail said.*)
StaleViewIsSafe ==
  [][wpc = "reset" \/ wpc' = "reset" \/
       /\ wp' = wp => Avail' <= Avail
       /\ rp' = rp => Avail' >= Avail]_vars
=============================================================================
