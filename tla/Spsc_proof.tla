----------------------------- MODULE Spsc_proof -----------------------------
(***************************************************************************)
(* Proofs about the ring of Spsc for every capacity, index width, request  *)
(* size and policy.  Under OVERWRITE they assume that the calls of the two *)
(* sides do not overlap; the other policies need no such assumption.       *)
(***************************************************************************)
EXTENDS SpscFifo, SequenceTheorems, TLAPS

(* The calls may overlap only if the writer never moves rp.                *)
Discipline == "OVERWRITE" \in Policies => "OVERWRITE" \in Serialized

-----------------------------------------------------------------------------
(* Arithmetic of indices and cells.                                        *)

(* Quotient and remainder by the capacity.                                 *)
LEMMA DivMod ==
  ASSUME NEW x \in Nat
  PROVE  /\ x % Cap \in 0..Cap-1
         /\ x \div Cap \in Int
         /\ x = Cap * (x \div Cap) + (x % Cap)
<1>1. Cap \in Nat /\ Cap > 0
  BY SpscAssumption
<1> QED BY <1>1

(* The remainder by the capacity is unique.                                *)
LEMMA ModUnique ==
  ASSUME NEW q1 \in Int, NEW q2 \in Int,
         NEW r1 \in 0..Cap-1, NEW r2 \in 0..Cap-1,
         Cap * q1 + r1 = Cap * q2 + r2
  PROVE  r1 = r2
BY SpscAssumption

(* The remainder of a sum, as both memcpy calls compute it.                *)
LEMMA ModSum ==
  ASSUME NEW x \in Nat, NEW m \in 0..Cap-1
  PROVE  (x + m) % Cap =
           IF (x % Cap) + m < Cap THEN (x % Cap) + m ELSE (x % Cap) + m - Cap
<1> DEFINE r == x % Cap
           d == x \div Cap
           s == (x + m) % Cap
           e == (x + m) \div Cap
<1>0. Cap \in Nat /\ x + m \in Nat
  BY SpscAssumption
<1>1. r \in 0..Cap-1 /\ d \in Int /\ x = Cap * d + r
  BY DivMod
<1>2. s \in 0..Cap-1 /\ e \in Int /\ x + m = Cap * e + s
  BY <1>0, DivMod
<1> HIDE DEF r, d, s, e
<1>3. CASE r + m < Cap
  <2>1. r + m \in 0..Cap-1
    BY <1>0, <1>1, <1>3
  <2>2. Cap * d + (r + m) = Cap * e + s
    BY <1>0, <1>1, <1>2
  <2>3. r + m = s
    BY <1>1, <1>2, <2>1, <2>2, ModUnique
  <2> QED BY <1>3, <2>3 DEF r, s
<1>4. CASE ~(r + m < Cap)
  <2>1. r + m - Cap \in 0..Cap-1 /\ d + 1 \in Int
    BY <1>0, <1>1, <1>4
  <2>2. Cap * (d + 1) + (r + m - Cap) = Cap * e + s
    BY <1>0, <1>1, <1>2
  <2>3. r + m - Cap = s
    BY <1>1, <1>2, <2>1, <2>2, ModUnique
  <2> QED BY <1>4, <2>3 DEF r, s
<1> QED BY <1>3, <1>4

(* Taking 2^w off an index does not change its cell.                       *)
LEMMA ModWrap ==
  ASSUME NEW x \in Nat, x >= IndexMod
  PROVE  (x - IndexMod) % Cap = x % Cap
<1> DEFINE d == x \div Cap
           e == (x - IndexMod) \div Cap
           f == IndexMod \div Cap
           r == x % Cap
           s == (x - IndexMod) % Cap
<1>0. Cap \in Nat /\ IndexMod \in Nat /\ x - IndexMod \in Nat /\ IndexMod % Cap = 0
  BY SpscAssumption
<1>1. r \in 0..Cap-1 /\ d \in Int /\ x = Cap * d + r
  BY DivMod
<1>2. s \in 0..Cap-1 /\ e \in Int /\ x - IndexMod = Cap * e + s
  BY <1>0, DivMod
<1>3. f \in Int /\ IndexMod = Cap * f + 0
  BY <1>0, DivMod
<1> HIDE DEF d, e, f, r, s
<1>4. Cap * d + r = Cap * (e + f) + s
  BY <1>0, <1>1, <1>2, <1>3
<1>5. e + f \in Int
  BY <1>2, <1>3
<1>6. r = s
  BY <1>1, <1>2, <1>4, <1>5, ModUnique
<1> QED BY <1>6 DEF r, s

(* A copy of at most Cap bytes stays inside the storage.                   *)
LEMMA CellRange ==
  ASSUME NEW p \in Nat, NEW k \in 0..Cap-1
  PROVE  Cell(p, k) \in 0..Cap-1
<1>1. Cap \in Nat /\ p % Cap \in 0..Cap-1
  BY DivMod, SpscAssumption
<1> QED BY <1>1 DEF Cell

(* Bytes less than Cap apart have different cells.                         *)
LEMMA CellInjective ==
  ASSUME NEW p \in Nat, NEW i \in 0..Cap-1, NEW j \in 0..Cap-1,
         Cell(p, i) = Cell(p, j)
  PROVE  i = j
<1>1. Cap \in Nat /\ p % Cap \in 0..Cap-1
  BY DivMod, SpscAssumption
<1> QED BY <1>1 DEF Cell

(* The cells that follow an advanced index continue those of the old one.  *)
LEMMA CellShift ==
  ASSUME NEW p \in Index, NEW m \in Nat, NEW k \in Nat, m + k < Cap
  PROVE  Cell(Add(p, m), k) = Cell(p, m + k)
<1>1. /\ p \in Nat /\ Cap \in Nat /\ Cap > 0 /\ IndexMod \in Nat
      /\ m \in 0..Cap-1 /\ p + m \in Nat
  BY SpscAssumption DEF Index
<1>2. Add(p, m) % Cap = (p + m) % Cap
  BY <1>1, ModWrap DEF Add
<1>3. p % Cap \in 0..Cap-1
  BY <1>1, DivMod
<1>4. (p + m) % Cap = IF (p % Cap) + m < Cap THEN (p % Cap) + m
                                             ELSE (p % Cap) + m - Cap
  BY <1>1, ModSum
<1> DEFINE r == p % Cap
           s == Add(p, m) % Cap
<1> HIDE DEF r, s
<1>5. /\ r \in 0..Cap-1
      /\ s = IF r + m < Cap THEN r + m ELSE r + m - Cap
  BY <1>2, <1>3, <1>4 DEF r, s
<1>6. /\ Cell(Add(p, m), k) = IF k < Cap - s THEN s + k ELSE k - (Cap - s)
      /\ Cell(p, m + k) = IF m + k < Cap - r THEN r + (m + k) ELSE (m + k) - (Cap - r)
  BY DEF Cell, r, s
<1> QED BY <1>1, <1>5, <1>6

-----------------------------------------------------------------------------
(* The inductive invariant.                                                *)
IInv == TypeOK /\ AvailWithinCap /\ CallsAreBacked

(* Advancing either index changes the distance by exactly that much.       *)
LEMMA Distance ==
  ASSUME NEW a \in Index, NEW b \in Index
  PROVE  /\ Sub(a, b) \in 0..IndexMod-1
         /\ \A n \in 0..IndexMod-1 :
              /\ Add(a, n) \in Index
              /\ Sub(a, b) + n < IndexMod => Sub(Add(a, n), b) = Sub(a, b) + n
              /\ n <= Sub(a, b) => Sub(a, Add(b, n)) = Sub(a, b) - n
BY SpscAssumption DEF Index, Sub, Add

(* While the ring holds at most Cap bytes, spsc_free does not underflow.   *)
LEMMA FreeIsDifference ==
  ASSUME wp \in Index, rp \in Index, Avail <= Cap
  PROVE  Free = Cap - Avail
<1>1. Avail \in 0..IndexMod-1
  BY Distance DEF Avail
<1> QED BY <1>1, SpscAssumption DEF Free, Sub

(* A call passes a finite sequence of bytes.                               *)
LEMMA CallBytes ==
  ASSUME NEW n \in Nat, NEW s \in [1..n -> Byte]
  PROVE  s \in Seq(Byte) /\ Len(s) = n
OBVIOUS

(* spsc_policy never accepts more than was asked, and nothing that does    *)
(* not fit unless it makes room.                                           *)
LEMMA AcceptedBounds ==
  ASSUME NEW free \in Nat, NEW size \in Nat, policy \in Policies
  PROVE  /\ Accepted(free, size) \in 0..size
         /\ Accepted(free, size) > free =>
              policy = "OVERWRITE" /\ Accepted(free, size) = size
<1>1. policy \in {"TRUNCATE", "OVERWRITE", "REJECT"}
  BY SpscAssumption
<1> QED BY <1>1 DEF Accepted

(* An empty ring satisfies the invariant.                                  *)
LEMMA InitIInv == Init => IInv
BY SpscAssumption DEF Init, IInv, TypeOK, AvailWithinCap, CallsAreBacked,
   Index, Avail, Sub

(* What the assumption on the constants gives the arithmetic of a step.    *)
LEMMA Constants ==
  /\ Cap \in Nat /\ Cap > 0
  /\ IndexMod \in Nat /\ 2 * Cap <= IndexMod
  /\ MaxSize \in Nat
  /\ Index = 0..IndexMod-1
BY SpscAssumption DEF Index

(* The types of the numbers a step computes with.                          *)
LEMMA Numbers ==
  ASSUME TypeOK
  PROVE  /\ wp \in 0..IndexMod-1 /\ rp \in 0..IndexMod-1 /\ rrp \in 0..IndexMod-1
         /\ Avail \in 0..IndexMod-1
         /\ Len(wsrc) \in 0..MaxSize /\ Len(dst) \in 0..MaxSize
         /\ want \in 0..MaxSize /\ wi \in 0..MaxSize /\ excess \in 0..MaxSize
<1>1. wsrc \in Seq(Byte) /\ Len(wsrc) <= MaxSize /\ dst \in Seq(Byte) /\ Len(dst) <= MaxSize
  BY DEF TypeOK
<1>2. Len(wsrc) \in 0..MaxSize /\ Len(dst) \in 0..MaxSize
  BY <1>1, Constants
<1>3. wp \in Index /\ rp \in Index
  BY DEF TypeOK
<1>4. Avail \in 0..IndexMod-1
  BY <1>3, Distance DEF Avail
<1> QED BY <1>2, <1>3, <1>4, Constants DEF TypeOK

(* Every step of a disciplined ring preserves the invariant.               *)
LEMMA NextIInv ==
  ASSUME Discipline, IInv, [Next]_vars
  PROVE  IInv'
<1> USE Constants DEF IInv
<1>0. /\ TypeOK /\ AvailWithinCap /\ CallsAreBacked
      /\ policy \in Policies /\ policy' = policy
      /\ wp \in 0..IndexMod-1 /\ rp \in 0..IndexMod-1 /\ rrp \in 0..IndexMod-1
      /\ Avail \in 0..IndexMod-1
      /\ Len(wsrc) \in 0..MaxSize /\ Len(dst) \in 0..MaxSize
      /\ want \in 0..MaxSize /\ wi \in 0..MaxSize /\ excess \in 0..MaxSize
  BY Numbers DEF Next, vars, TypeOK
<1>1. ASSUME NEW n \in 0..MaxSize, NEW s \in [1..n -> Byte], WriteCall(s)
      PROVE  IInv'
  <2>1. s \in Seq(Byte) /\ Len(s) = n
    BY <1>1, CallBytes
  <2> QED BY <1>0, <1>1, <2>1 DEF WriteCall, rvars, TypeOK, AvailWithinCap,
             CallsAreBacked, Avail
<1>2. CASE WriteNothing
  <2>1. <<>> \in Seq(Byte) /\ Len(<<>>) = 0
    OBVIOUS
  <2> QED BY <1>0, <1>2, <2>1 DEF WriteNothing, rvars, TypeOK, AvailWithinCap,
             CallsAreBacked, Avail
<1>3. CASE WriteAccept
  <2> DEFINE size == Accepted(Free, Len(wsrc))
  <2>1. /\ wpc = "load" /\ wi = 0 /\ excess = 0 /\ size > 0
        /\ wsrc' = SubSeq(wsrc, 1, size)
        /\ UNCHANGED <<buf, wp, rp, wi, wret, rvars>>
        /\ IF size > Free THEN wpc' = "drop" /\ excess' = size - Free
                          ELSE wpc' = "copy" /\ UNCHANGED excess
    BY <1>0, <1>3 DEF WriteAccept, CallsAreBacked
  <2>2. Avail <= Cap /\ Free = Cap - Avail
    BY <1>0, <2>1, FreeIsDifference DEF AvailWithinCap
  <2>3. /\ size \in 1..Len(wsrc)
        /\ size > Free => policy = "OVERWRITE" /\ size = Len(wsrc)
    <3>1. Free \in Nat /\ Len(wsrc) \in Nat
      BY <1>0, <2>2
    <3>2. /\ size \in 0..Len(wsrc)
          /\ size > Free => policy = "OVERWRITE" /\ size = Len(wsrc)
      BY <1>0, <3>1, AcceptedBounds DEF TypeOK
    <3> HIDE DEF size
    <3> QED BY <2>1, <3>1, <3>2
  <2> HIDE DEF size
  <2>4. wsrc \in Seq(Byte)
    BY <1>0 DEF TypeOK
  <2>5. wsrc' \in Seq(Byte) /\ Len(wsrc') = size
    BY <1>0, <2>1, <2>3, <2>4
  <2>6. Avail' = Avail
    BY <2>1 DEF Avail
  <2>7. policy = "OVERWRITE" => rpc = "idle"
    BY <1>0, <2>1 DEF Discipline, CallsAreBacked
  <2>8. CASE size > Free
    <3>1. wpc' = "drop" /\ excess' = size - Free /\ policy = "OVERWRITE" /\ rpc = "idle"
      BY <2>1, <2>3, <2>7, <2>8
    <3>2. excess' \in 1..Avail /\ Avail + size = Cap + excess' /\ excess' \in 0..MaxSize
      <4>1. Len(wsrc) <= Cap
        BY <1>0, <2>1, <3>1 DEF CallsAreBacked
      <4> QED BY <1>0, <2>2, <2>3, <2>8, <3>1, <4>1
    <3> QED BY <1>0, <2>1, <2>2, <2>3, <2>5, <2>6, <3>1, <3>2
            DEF rvars, TypeOK, AvailWithinCap, CallsAreBacked
  <2>9. CASE ~(size > Free)
    <3>1. wpc' = "copy" /\ excess' = 0 /\ Avail + size <= Cap
      BY <1>0, <2>1, <2>2, <2>3, <2>9
    <3>2. TypeOK' /\ AvailWithinCap'
      BY <1>0, <2>1, <2>2, <2>3, <2>5, <2>6, <3>1 DEF rvars, TypeOK, AvailWithinCap
    <3>3. wsrc' # <<>> /\ wi' <= Len(wsrc') /\ Avail' + Len(wsrc') <= Cap
      BY <1>0, <2>1, <2>3, <2>5, <2>6, <3>1
    <3>4. CallsAreBacked'
      BY <1>0, <2>1, <2>6, <3>1, <3>3 DEF rvars, CallsAreBacked
    <3> QED BY <3>2, <3>4
  <2> QED BY <2>8, <2>9
<1>4. CASE WriteDrop
  <2>1. /\ wpc = "drop" /\ wpc' = "copy" /\ rp' = Add(rp, excess)
        /\ UNCHANGED <<buf, wp, wsrc, excess, wi, wret, rvars>>
    BY <1>4 DEF WriteDrop
  <2>2. excess \in 1..Avail /\ Avail + Len(wsrc) = Cap + excess /\ wi = 0
    BY <1>0, <2>1 DEF CallsAreBacked
  <2>3. rpc = "idle" /\ excess > 0
    BY <1>0, <2>1, <2>2 DEF CallsAreBacked, Discipline
  <2>4. rp' \in Index /\ Avail' = Avail - excess
    <3>1. /\ wp \in Index /\ rp \in Index /\ excess \in 0..IndexMod-1
          /\ excess <= Avail
      BY <1>0, <2>1, <2>2
    <3> QED BY <2>1, <2>2, <3>1, Distance DEF Avail
  <2>5. Avail <= Cap
    BY <1>0, <2>1 DEF AvailWithinCap
  <2>6. Avail' + Len(wsrc) = Cap /\ Len(wsrc) > 0 /\ Avail' <= Cap
    BY <1>0, <2>2, <2>4, <2>5
  <2> QED BY <1>0, <2>1, <2>2, <2>3, <2>4, <2>6
          DEF rvars, TypeOK, AvailWithinCap, CallsAreBacked
<1>5. CASE WriteByte
  <2>1. /\ wpc = "copy" /\ wi < Len(wsrc) /\ wi' = wi + 1
        /\ buf' = [buf EXCEPT ![Cell(wp, wi)] = wsrc[wi + 1]]
        /\ UNCHANGED <<wp, rp, wpc, wsrc, excess, wret, rvars>>
    BY <1>5 DEF WriteByte
  <2>2. wsrc[wi + 1] \in Byte
    BY <1>0, <2>1 DEF TypeOK
  <2>3. buf' \in [0..Cap-1 -> Byte]
    BY <1>0, <2>1, <2>2 DEF TypeOK
  <2> QED BY <1>0, <2>1, <2>3 DEF rvars, TypeOK, AvailWithinCap, CallsAreBacked, Avail
<1>6. CASE WriteStore
  <2>1. /\ wpc = "copy" /\ wp' = Add(wp, Len(wsrc)) /\ wret' = Len(wsrc)
        /\ wpc' = "idle" /\ wsrc' = <<>> /\ excess' = 0 /\ wi' = 0
        /\ UNCHANGED <<buf, rp, rvars>>
    BY <1>6 DEF WriteStore
  <2>2. Avail + Len(wsrc) <= Cap
    BY <1>0, <2>1 DEF CallsAreBacked
  <2>3. wp' \in Index /\ Avail' = Avail + Len(wsrc)
    <3>1. /\ wp \in Index /\ rp \in Index /\ Len(wsrc) \in 0..IndexMod-1
          /\ Avail + Len(wsrc) < IndexMod
      BY <1>0, <2>1, <2>2
    <3> QED BY <2>1, <2>2, <3>1, Distance DEF Avail
  <2>4. <<>> \in Seq(Byte) /\ Len(<<>>) = 0
    OBVIOUS
  <2> QED BY <1>0, <2>1, <2>2, <2>3, <2>4
          DEF rvars, TypeOK, AvailWithinCap, CallsAreBacked
<1>7. ASSUME NEW n \in 0..MaxSize, ReadCall(n)
      PROVE  IInv'
  BY <1>0, <1>7 DEF ReadCall, wvars, TypeOK, AvailWithinCap, CallsAreBacked, Avail
<1>8. CASE ReadNothing
  <2>1. <<>> \in Seq(Byte) /\ Len(<<>>) = 0
    OBVIOUS
  <2> QED BY <1>0, <1>8, <2>1 DEF ReadNothing, wvars, TypeOK, AvailWithinCap,
             CallsAreBacked, Avail
<1>9. CASE ReadAccept
  <2>1. /\ rpc = "load" /\ rpc' = "copy" /\ want > 0
        /\ want' = IF want > Avail THEN Avail ELSE want
        /\ Avail > 0 /\ dst = <<>>
        /\ UNCHANGED <<buf, wp, rp, wvars, rrp, dst, got>>
    BY <1>0, <1>9 DEF ReadAccept, CallsAreBacked, Avail
  <2>2. want' \in 1..Avail /\ want' \in 0..MaxSize /\ Len(dst) = 0
    BY <1>0, <2>1
  <2> QED BY <1>0, <2>1, <2>2 DEF wvars, TypeOK, AvailWithinCap, CallsAreBacked, Avail
<1>10. CASE ReadByte
  <2>1. /\ rpc = "copy" /\ Len(dst) < want /\ rrp = rp /\ want <= Avail
        /\ dst' = Append(dst, buf[Cell(rrp, Len(dst))])
        /\ UNCHANGED <<buf, wp, rp, wvars, rpc, want, rrp, got>>
    BY <1>0, <1>10 DEF ReadByte, CallsAreBacked
  <2>2. Avail <= Cap
    BY <1>0, <2>1 DEF AvailWithinCap, CallsAreBacked
  <2>3. Cell(rrp, Len(dst)) \in 0..Cap-1
    <3>1. rrp \in Nat /\ Len(dst) \in 0..Cap-1
      BY <1>0, <2>1, <2>2
    <3> QED BY <3>1, CellRange
  <2>4. buf[Cell(rrp, Len(dst))] \in Byte
    BY <1>0, <2>3 DEF TypeOK
  <2>5. dst' \in Seq(Byte) /\ Len(dst') = Len(dst) + 1
    BY <1>0, <2>1, <2>4 DEF TypeOK
  <2> QED BY <1>0, <2>1, <2>5 DEF wvars, TypeOK, AvailWithinCap, CallsAreBacked, Avail
<1>11. CASE ReadStore
  <2>1. /\ rpc = "copy" /\ Len(dst) = want /\ rp' = Add(rp, want) /\ want \in 1..Avail
        /\ got' = dst /\ rpc' = "idle" /\ want' = 0 /\ rrp' = 0 /\ dst' = <<>>
        /\ UNCHANGED <<buf, wp, wvars>>
    BY <1>0, <1>11 DEF ReadStore, CallsAreBacked
  <2>2. rp' \in Index /\ Avail' = Avail - want
    <3>1. /\ wp \in Index /\ rp \in Index /\ want \in 0..IndexMod-1
          /\ want <= Avail
      BY <1>0, <2>1
    <3> QED BY <2>1, <3>1, Distance DEF Avail
  <2>3. <<>> \in Seq(Byte) /\ Len(<<>>) = 0
    OBVIOUS
  <2>4. wpc # "drop" /\ wpc # "reset"
    BY <1>0, <2>1 DEF CallsAreBacked, Discipline
  <2> QED BY <1>0, <2>1, <2>2, <2>3, <2>4
          DEF wvars, TypeOK, AvailWithinCap, CallsAreBacked
<1>12. CASE ResetRp
  BY <1>0, <1>12 DEF ResetRp, rvars, TypeOK, AvailWithinCap, CallsAreBacked
<1>13. CASE ResetWp
  <2>1. wp' = 0 /\ rp = 0 /\ rp' = 0
    BY <1>0, <1>13 DEF ResetWp, CallsAreBacked
  <2>2. Avail' = 0
    BY <2>1 DEF Avail, Sub
  <2> QED BY <1>0, <1>13, <2>1, <2>2 DEF ResetWp, rvars, TypeOK, AvailWithinCap,
             CallsAreBacked
<1>14. CASE UNCHANGED vars
  BY <1>0, <1>14 DEF vars, wvars, rvars, TypeOK, AvailWithinCap, CallsAreBacked, Avail
<1> QED
  BY <1>1, <1>2, <1>3, <1>4, <1>5, <1>6, <1>7, <1>8, <1>9, <1>10, <1>11, <1>12,
     <1>13, <1>14 DEF Next, Writer, Reader, Reset

-----------------------------------------------------------------------------
(* What the invariant says of the cells being copied.                      *)

(* The writer fills, and the reader fetches, cells of the storage; what is *)
(* filled is disjoint from what is unread, and what is fetched is unread.  *)
LEMMA CellsOfCalls ==
  ASSUME IInv
  PROVE  FillsFreeCells /\ FetchesStableCells
<1> USE Constants
<1>0. /\ TypeOK /\ AvailWithinCap /\ CallsAreBacked
      /\ wp \in 0..IndexMod-1 /\ rp \in 0..IndexMod-1
      /\ Avail \in 0..IndexMod-1 /\ Len(wsrc) \in Nat /\ Len(dst) \in Nat
      /\ want \in Nat /\ wi \in Nat
  BY Numbers DEF IInv
<1>1. wp = Add(rp, Avail)
  BY <1>0 DEF Avail, Sub, Add
<1>2. ASSUME NEW c \in ToFill
      PROVE  \E k \in Avail..Cap-1 : c = Cell(rp, k)
  <2>1. PICK k \in wi..Len(wsrc)-1 : c = Cell(wp, k)
    BY <1>2 DEF ToFill
  <2>2. wpc = "copy" /\ Avail + Len(wsrc) <= Cap
    BY <1>0, <1>2 DEF ToFill, CallsAreBacked
  <2>3. k \in Nat /\ Avail \in Nat /\ Avail + k < Cap /\ rp \in Index
    BY <1>0, <2>1, <2>2
  <2>4. c = Cell(rp, Avail + k)
    BY <1>1, <2>1, <2>3, CellShift
  <2>5. Avail + k \in Avail..Cap-1
    BY <2>3
  <2> QED BY <2>4, <2>5
<1>3. ASSUME NEW c \in Unread
      PROVE  \E k \in 0..Avail-1 : c = Cell(rp, k) /\ Avail <= Cap
  BY <1>0, <1>3 DEF Unread, AvailWithinCap
<1>4. ToFetch \subseteq Unread
  <2>1. SUFFICES ASSUME NEW c \in ToFetch
                 PROVE  c \in Unread
    OBVIOUS
  <2>2. /\ rpc = "copy" /\ rrp = rp /\ want <= Avail /\ wpc # "reset"
    BY <1>0, <2>1 DEF ToFetch, CallsAreBacked
  <2>3. PICK k \in Len(dst)..want-1 : c = Cell(rp, k)
    BY <2>1, <2>2 DEF ToFetch
  <2>4. k \in 0..Avail-1
    BY <1>0, <2>2, <2>3
  <2> QED BY <2>2, <2>3, <2>4 DEF Unread
<1>5. ToFill \cap Unread = {}
  <2>1. SUFFICES ASSUME NEW c \in ToFill, c \in Unread
                 PROVE  FALSE
    OBVIOUS
  <2>2. PICK i \in Avail..Cap-1 : c = Cell(rp, i)
    BY <1>2, <2>1
  <2>3. PICK j \in 0..Avail-1 : c = Cell(rp, j) /\ Avail <= Cap
    BY <1>3, <2>1
  <2>4. i \in 0..Cap-1 /\ j \in 0..Cap-1 /\ rp \in Nat /\ j < i
    BY <1>0, <2>2, <2>3
  <2>5. Cell(rp, i) = Cell(rp, j)
    BY <2>2, <2>3
  <2>6. i = j
    BY <2>4, <2>5, CellInjective
  <2> QED BY <2>4, <2>6
<1>6. ToFill \subseteq 0..Cap-1
  <2>1. SUFFICES ASSUME NEW c \in ToFill
                 PROVE  c \in 0..Cap-1
    OBVIOUS
  <2>2. PICK k \in Avail..Cap-1 : c = Cell(rp, k)
    BY <1>2, <2>1
  <2>3. k \in 0..Cap-1 /\ rp \in Nat
    BY <1>0, <2>2
  <2> QED BY <2>2, <2>3, CellRange
<1>7. Unread \subseteq 0..Cap-1
  <2>1. SUFFICES ASSUME NEW c \in Unread
                 PROVE  c \in 0..Cap-1
    OBVIOUS
  <2>2. PICK k \in 0..Avail-1 : c = Cell(rp, k) /\ Avail <= Cap
    BY <1>3, <2>1
  <2>3. k \in 0..Cap-1 /\ rp \in Nat
    BY <1>0, <2>2
  <2> QED BY <2>2, <2>3, CellRange
<1> QED BY <1>4, <1>5, <1>6, <1>7 DEF FillsFreeCells, FetchesStableCells

(* Only the stores of the two calls move an index, each in the direction   *)
(* the other side can live with.                                           *)
LEMMA StepKeepsViewsSafe ==
  ASSUME IInv, [Next]_vars, wpc # "reset", wpc' # "reset"
  PROVE  /\ wp' = wp => Avail' <= Avail
         /\ rp' = rp => Avail' >= Avail
<1> USE Constants
<1>0. /\ CallsAreBacked /\ AvailWithinCap
      /\ wp \in 0..IndexMod-1 /\ rp \in 0..IndexMod-1 /\ Avail \in 0..IndexMod-1
      /\ Len(wsrc) \in Nat /\ want \in Nat
  BY Numbers DEF IInv
<1>1. CASE UNCHANGED <<wp, rp>>
  <2>1. Avail' = Avail
    BY <1>1 DEF Avail
  <2> QED BY <1>0, <2>1
<1>2. CASE WriteDrop
  <2>1. rp' = Add(rp, excess) /\ wp' = wp /\ excess \in 1..Avail
    BY <1>0, <1>2 DEF WriteDrop, CallsAreBacked
  <2>2. wp \in Index /\ rp \in Index /\ excess \in 0..IndexMod-1 /\ excess <= Avail
    BY <1>0, <2>1
  <2>3. Avail' = Avail - excess
    BY <2>1, <2>2, Distance DEF Avail
  <2>4. rp' # rp
    BY <1>0, <2>1 DEF Add
  <2> QED BY <1>0, <2>1, <2>3, <2>4
<1>3. CASE WriteStore
  <2>1. /\ wp' = Add(wp, Len(wsrc)) /\ rp' = rp
        /\ Len(wsrc) > 0 /\ Avail + Len(wsrc) <= Cap
    BY <1>0, <1>3 DEF WriteStore, CallsAreBacked, IInv, TypeOK
  <2>2. /\ wp \in Index /\ rp \in Index /\ Len(wsrc) \in 0..IndexMod-1
        /\ Avail + Len(wsrc) < IndexMod
    BY <1>0, <2>1
  <2>3. Avail' = Avail + Len(wsrc)
    BY <2>1, <2>2, Distance DEF Avail
  <2>4. wp' # wp
    BY <1>0, <2>1 DEF Add
  <2> QED BY <1>0, <2>1, <2>3, <2>4
<1>4. CASE ReadStore
  <2>1. rp' = Add(rp, want) /\ wp' = wp /\ want \in 1..Avail
    BY <1>0, <1>4 DEF ReadStore, CallsAreBacked
  <2>2. wp \in Index /\ rp \in Index /\ want \in 0..IndexMod-1 /\ want <= Avail
    BY <1>0, <2>1
  <2>3. Avail' = Avail - want
    BY <2>1, <2>2, Distance DEF Avail
  <2>4. rp' # rp
    BY <1>0, <2>1 DEF Add
  <2> QED BY <1>0, <2>1, <2>3, <2>4
<1>5. UNCHANGED <<wp, rp>> \/ WriteDrop \/ WriteStore \/ ReadStore
  BY DEF Next, Writer, Reader, Reset, vars, WriteCall, WriteNothing, WriteAccept,
     WriteByte, ReadCall, ReadNothing, ReadAccept, ReadByte, ResetRp, ResetWp
<1> QED BY <1>1, <1>2, <1>3, <1>4, <1>5

-----------------------------------------------------------------------------
(* Theorems of the specification.                                          *)

(* The inductive invariant holds of every disciplined ring.                *)
THEOREM Invariance ==
  ASSUME Discipline
  PROVE  Spec => []IInv
<1>1. Init => IInv
  BY InitIInv
<1>2. IInv /\ [Next]_vars => IInv'
  BY NextIInv
<1> QED BY <1>1, <1>2, PTL DEF Spec

(* Every variable keeps its range, whatever the capacity and the width.    *)
THEOREM TypeCorrect ==
  ASSUME Discipline
  PROVE  Spec => []TypeOK
<1>1. IInv => TypeOK
  BY DEF IInv
<1> QED BY <1>1, Invariance, PTL

(* spsc_free never underflows: the indices stay within the capacity of     *)
(* each other although both wrap and both sides act on stale loads.        *)
THEOREM NeverOverfull ==
  ASSUME Discipline
  PROVE  Spec => []AvailWithinCap
<1>1. IInv => AvailWithinCap
  BY DEF IInv
<1> QED BY <1>1, Invariance, PTL

(* A call in progress has the room or the bytes it was granted, whatever   *)
(* the other side does meanwhile.                                          *)
THEOREM GrantsHold ==
  ASSUME Discipline
  PROVE  Spec => []CallsAreBacked
<1>1. IInv => CallsAreBacked
  BY DEF IInv
<1> QED BY <1>1, Invariance, PTL

(* No copy of a write leaves the storage or overwrites an unread byte.     *)
THEOREM CopiesAreExclusive ==
  ASSUME Discipline
  PROVE  Spec => []FillsFreeCells
<1>1. IInv => FillsFreeCells
  BY CellsOfCalls
<1> QED BY <1>1, Invariance, PTL

(* No read is torn: the cells it fetches are committed and no write fills  *)
(* them.                                                                   *)
THEOREM FetchesAreStable ==
  ASSUME Discipline
  PROVE  Spec => []FetchesStableCells
<1>1. IInv => FetchesStableCells
  BY CellsOfCalls
<1> QED BY <1>1, Invariance, PTL

(* What a side computed from the other side's index stays a safe estimate  *)
(* until it acts on it.                                                    *)
THEOREM StaleViews ==
  ASSUME Discipline
  PROVE  Spec => StaleViewIsSafe
<1>1. IInv /\ [Next]_vars =>
        [wpc = "reset" \/ wpc' = "reset" \/
           /\ wp' = wp => Avail' <= Avail
           /\ rp' = rp => Avail' >= Avail]_vars
  BY StepKeepsViewsSafe
<1> QED BY <1>1, Invariance, PTL DEF Spec, StaleViewIsSafe

-----------------------------------------------------------------------------
(* The ring implements the byte queue.                                     *)

(* What the mapping onto the queue rests on besides IInv: an idle side has *)
(* no call the queue could see, the part of a write that was copied is in  *)
(* the cells behind wp, and the part of a read that was copied is still    *)
(* what the cells from rp on hold.                                         *)
CopiesAreFaithful ==
  /\ wpc \in {"idle", "reset"} => wsrc = <<>>
  /\ rpc = "idle" => want = 0
  /\ wpc = "copy" => \A k \in 0..wi-1 : buf[Cell(wp, k)] = wsrc[k + 1]
  /\ rpc = "copy" => \A k \in 0..Len(dst)-1 : dst[k + 1] = buf[Cell(rp, k)]

(* The byte a write copies next goes to a cell that neither its own        *)
(* earlier bytes nor any unread byte occupies.                             *)
LEMMA FreshCell ==
  ASSUME IInv, wpc = "copy", wi < Len(wsrc)
  PROVE  /\ Cell(wp, wi) \in 0..Cap-1
         /\ \A k \in 0..wi-1 : Cell(wp, k) # Cell(wp, wi) /\ Cell(wp, k) \in 0..Cap-1
         /\ \A k \in 0..Avail-1 : Cell(rp, k) # Cell(wp, wi) /\ Cell(rp, k) \in 0..Cap-1
<1> USE Constants
<1>0. /\ CallsAreBacked /\ AvailWithinCap
      /\ wp \in Nat /\ rp \in Nat /\ Avail \in Nat /\ Len(wsrc) \in Nat /\ wi \in Nat
  BY Numbers DEF IInv
<1>1. Avail + Len(wsrc) <= Cap
  BY <1>0 DEF CallsAreBacked
<1>2. wi \in 0..Cap-1
  BY <1>0, <1>1
<1>3. Cell(wp, wi) \in ToFill
  BY <1>0 DEF ToFill
<1>4. ToFill \cap Unread = {} /\ ToFill \subseteq 0..Cap-1
  BY CellsOfCalls DEF FillsFreeCells
<1>5. ASSUME NEW k \in 0..wi-1
      PROVE  Cell(wp, k) # Cell(wp, wi) /\ Cell(wp, k) \in 0..Cap-1
  <2>1. k \in 0..Cap-1 /\ k # wi
    BY <1>0, <1>2, <1>5
  <2> QED BY <1>0, <1>2, <2>1, CellInjective, CellRange
<1>6. ASSUME NEW k \in 0..Avail-1
      PROVE  Cell(rp, k) # Cell(wp, wi) /\ Cell(rp, k) \in 0..Cap-1
  <2>1. Cell(rp, k) \in Unread
    BY <1>6 DEF Unread
  <2>2. k \in 0..Cap-1
    BY <1>0, <1>1, <1>6
  <2> QED BY <1>0, <1>3, <1>4, <2>1, <2>2, CellRange
<1> QED BY <1>3, <1>4, <1>5, <1>6

(* Every step keeps the copied bytes what they were.                       *)
LEMMA NextFaithful ==
  ASSUME Discipline, IInv, CopiesAreFaithful, [Next]_vars
  PROVE  CopiesAreFaithful'
<1> USE Constants
<1>0. /\ TypeOK /\ CallsAreBacked
      /\ wi \in Nat /\ Len(wsrc) \in Nat /\ Len(dst) \in Nat
      /\ want \in Nat /\ Avail \in Nat
  BY Numbers DEF IInv
<1>1. ASSUME NEW n \in 0..MaxSize, NEW s \in [1..n -> Byte], WriteCall(s)
      PROVE  CopiesAreFaithful'
  BY <1>0, <1>1 DEF WriteCall, rvars, CopiesAreFaithful
<1>2. CASE WriteNothing
  BY <1>0, <1>2 DEF WriteNothing, rvars, CopiesAreFaithful
<1>3. CASE WriteAccept
  <2>1. /\ wpc' \in {"drop", "copy"} /\ wi' = 0
        /\ UNCHANGED <<buf, rp, rvars>>
    BY <1>0, <1>3 DEF WriteAccept, CallsAreBacked
  <2> QED BY <2>1 DEF rvars, CopiesAreFaithful
<1>4. CASE WriteDrop
  <2>1. /\ wpc = "drop" /\ wpc' = "copy" /\ wi = 0 /\ wi' = 0
        /\ UNCHANGED <<buf, wp, wsrc, rvars>> /\ excess \in 1..Avail
    BY <1>0, <1>4 DEF WriteDrop, CallsAreBacked
  <2>2. rpc = "idle"
    BY <1>0, <2>1 DEF CallsAreBacked, Discipline, TypeOK
  <2> QED BY <2>1, <2>2 DEF rvars, CopiesAreFaithful
<1>5. CASE WriteByte
  <2>1. /\ wpc = "copy" /\ wi < Len(wsrc) /\ wi' = wi + 1
        /\ buf' = [buf EXCEPT ![Cell(wp, wi)] = wsrc[wi + 1]]
        /\ UNCHANGED <<wp, rp, wpc, wsrc, excess, wret, rvars>>
    BY <1>5 DEF WriteByte
  <2>2. /\ Cell(wp, wi) \in 0..Cap-1
        /\ \A k \in 0..wi-1 : Cell(wp, k) # Cell(wp, wi) /\ Cell(wp, k) \in 0..Cap-1
        /\ \A k \in 0..Avail-1 : Cell(rp, k) # Cell(wp, wi) /\ Cell(rp, k) \in 0..Cap-1
    BY <2>1, FreshCell
  <2>3. buf \in [0..Cap-1 -> Byte]
    BY <1>0 DEF TypeOK
  <2>4. ASSUME NEW k \in 0..wi'-1
        PROVE  buf'[Cell(wp, k)] = wsrc[k + 1]
    BY <1>0, <2>1, <2>2, <2>3, <2>4 DEF CopiesAreFaithful
  <2>5. ASSUME rpc = "copy", NEW k \in 0..Len(dst)-1
        PROVE  dst[k + 1] = buf'[Cell(rp, k)]
    <3>1. k \in 0..Avail-1
      BY <1>0, <2>5 DEF CallsAreBacked
    <3>2. buf'[Cell(rp, k)] = buf[Cell(rp, k)]
      BY <2>1, <2>2, <2>3, <3>1
    <3> QED BY <2>5, <3>2 DEF CopiesAreFaithful
  <2> QED BY <2>1, <2>4, <2>5 DEF rvars, Cell, CopiesAreFaithful
<1>6. CASE WriteStore
  BY <1>0, <1>6 DEF WriteStore, rvars, CopiesAreFaithful
<1>7. ASSUME NEW n \in 0..MaxSize, ReadCall(n)
      PROVE  CopiesAreFaithful'
  BY <1>0, <1>7 DEF ReadCall, wvars, CopiesAreFaithful
<1>8. CASE ReadNothing
  BY <1>0, <1>8 DEF ReadNothing, wvars, CopiesAreFaithful
<1>9. CASE ReadAccept
  BY <1>0, <1>9 DEF ReadAccept, wvars, CopiesAreFaithful, CallsAreBacked
<1>10. CASE ReadByte
  <2>1. /\ rpc = "copy" /\ Len(dst) < want /\ rrp = rp /\ want <= Avail
        /\ dst' = Append(dst, buf[Cell(rp, Len(dst))])
        /\ UNCHANGED <<buf, wp, rp, wvars, rpc, want>>
    BY <1>0, <1>10 DEF ReadByte, CallsAreBacked
  <2>2. dst \in Seq(Byte)
    BY <1>0 DEF TypeOK
  <2>3. ASSUME NEW k \in 0..Len(dst')-1
        PROVE  dst'[k + 1] = buf[Cell(rp, k)]
    <3>1. Len(dst') = Len(dst) + 1
      BY <2>1, <2>2
    <3>2. CASE k < Len(dst)
      BY <1>0, <2>1, <2>2, <3>1, <3>2 DEF CopiesAreFaithful
    <3>3. CASE k = Len(dst)
      BY <1>0, <2>1, <2>2, <3>1, <3>3
    <3> QED BY <1>0, <2>3, <3>1, <3>2, <3>3
  <2> QED BY <2>1, <2>3 DEF wvars, CopiesAreFaithful
<1>11. CASE ReadStore
  BY <1>0, <1>11 DEF ReadStore, wvars, CopiesAreFaithful
<1>12. CASE ResetRp
  BY <1>0, <1>12 DEF ResetRp, rvars, CopiesAreFaithful
<1>13. CASE ResetWp
  BY <1>0, <1>13 DEF ResetWp, rvars, CopiesAreFaithful, CallsAreBacked
<1>14. CASE UNCHANGED vars
  BY <1>14 DEF vars, wvars, rvars, CopiesAreFaithful
<1> QED
  BY <1>1, <1>2, <1>3, <1>4, <1>5, <1>6, <1>7, <1>8, <1>9, <1>10, <1>11, <1>12,
     <1>13, <1>14 DEF Next, Writer, Reader, Reset

(* Two sequences of the same length with the same bytes are one.           *)
LEMMA SameBytes ==
  ASSUME NEW s \in Seq(Byte), NEW t \in Seq(Byte), Len(s) = Len(t),
         \A i \in 1..Len(s) : s[i] = t[i]
  PROVE  s = t
OBVIOUS

(* The bytes held are those of the Avail cells from rp on.                 *)
HeldIsUnread ==
  /\ Held \in Seq(Byte)
  /\ Len(Held) = IF wpc = "reset" THEN 0 ELSE Avail
  /\ wpc # "reset" =>
       /\ Avail \in 0..Cap
       /\ \A i \in 1..Avail : Held[i] = buf[Cell(rp, i - 1)]

LEMMA HeldBytes == IInv => HeldIsUnread
<1> SUFFICES ASSUME IInv PROVE HeldIsUnread
  OBVIOUS
<1> USE Constants
<1>0. /\ AvailWithinCap /\ rp \in Nat /\ Avail \in Nat
      /\ buf \in [0..Cap-1 -> Byte]
  BY Numbers DEF IInv, TypeOK
<1>1. CASE wpc = "reset"
  BY <1>1 DEF Held, HeldIsUnread
<1>2. CASE wpc # "reset"
  <2>1. Avail \in 0..Cap
    BY <1>0, <1>2 DEF AvailWithinCap
  <2>2. ASSUME NEW i \in 1..Avail
        PROVE  buf[Cell(rp, i - 1)] \in Byte
    <3>1. i - 1 \in 0..Cap-1
      BY <2>1, <2>2
    <3>2. Cell(rp, i - 1) \in 0..Cap-1
      BY <1>0, <3>1, CellRange
    <3> QED BY <1>0, <3>2
  <2>3. Held = [i \in 1..Avail |-> buf[Cell(rp, i - 1)]]
    BY <1>2 DEF Held
  <2>4. Held \in [1..Avail -> Byte]
    BY <2>2, <2>3
  <2>5. Held \in Seq(Byte) /\ Len(Held) = Avail
    BY <1>0, <2>4, CallBytes
  <2> QED BY <1>2, <2>1, <2>3, <2>5 DEF HeldIsUnread
<1> QED BY <1>1, <1>2

(* The same after a step.                                                  *)
LEMMA HeldBytesNext == IInv' => HeldIsUnread'
BY HeldBytes, PTL

(* Without a store the queue does not move.                                *)
LEMMA HeldUnchanged ==
  ASSUME IInv, UNCHANGED <<buf, wp, rp>>, wpc # "reset", wpc' # "reset"
  PROVE  Held' = Held
<1>1. Avail' = Avail
  BY DEF Avail
<1> QED BY <1>1 DEF Held, Cell

(* The Avail oldest bytes of an empty ring are none.                       *)
LEMMA HeldNothing ==
  ASSUME IInv, wpc = "reset" \/ Avail = 0
  PROVE  Held = <<>>
<1>1. Held \in Seq(Byte) /\ Len(Held) = 0
  BY HeldBytes DEF HeldIsUnread
<1> QED BY <1>1

(* After advancing rp by m, the queue is what it was without its first m   *)
(* bytes.                                                                  *)
LEMMA HeldDropsOldest ==
  ASSUME IInv, IInv', wpc # "reset", wpc' # "reset", NEW m \in 1..Avail,
         wp' = wp, buf' = buf, rp' = Add(rp, m)
  PROVE  Held' = SubSeq(Held, m + 1, Len(Held))
<1> USE Constants
<1>1. /\ Held \in Seq(Byte) /\ Len(Held) = Avail /\ Avail \in 0..Cap
      /\ \A i \in 1..Avail : Held[i] = buf[Cell(rp, i - 1)]
  BY HeldBytes DEF HeldIsUnread
<1>2. /\ Held' \in Seq(Byte) /\ Len(Held') = Avail'
      /\ \A i \in 1..Avail' : Held'[i] = buf'[Cell(rp', i - 1)]
  BY HeldBytesNext DEF HeldIsUnread, Cell
<1>3. wp \in Index /\ rp \in Index
  BY DEF IInv, TypeOK
<1>4. Avail' = Avail - m
  <2>1. m \in 0..IndexMod-1 /\ m <= Sub(wp, rp)
    BY <1>1 DEF Avail
  <2> QED BY <1>3, <2>1, Distance DEF Avail
<1> DEFINE rest == SubSeq(Held, m + 1, Len(Held))
<1>5. /\ rest \in Seq(Byte) /\ Len(rest) = Avail - m
      /\ \A i \in 1..Avail-m : rest[i] = Held[m + i]
  BY <1>1
<1> HIDE DEF rest
<1>6. ASSUME NEW i \in 1..Avail-m
      PROVE  Held'[i] = rest[i]
  <2>1. m \in Nat /\ i - 1 \in Nat /\ m + (i - 1) < Cap /\ (m + i) - 1 = m + (i - 1)
    BY <1>1
  <2>2. Cell(Add(rp, m), i - 1) = Cell(rp, m + (i - 1))
    BY <1>3, <2>1, CellShift
  <2>3. Held'[i] = buf[Cell(Add(rp, m), i - 1)]
    BY <1>2, <1>4 DEF Cell
  <2>4. m + i \in 1..Avail
    BY <1>1
  <2>5. Held[m + i] = buf[Cell(rp, (m + i) - 1)]
    BY <1>1, <2>4
  <2> QED BY <1>5, <2>1, <2>2, <2>3, <2>5
<1>7. Held' = rest
  BY <1>2, <1>4, <1>5, <1>6, SameBytes
<1> QED BY <1>7 DEF rest

(* The store of wp appends the bytes that were copied.                     *)
LEMMA HeldAppends ==
  ASSUME IInv, IInv', CopiesAreFaithful, WriteStore
  PROVE  Held' = Held \o wsrc
<1> USE Constants
<1>0. /\ wpc = "copy" /\ wi = Len(wsrc) /\ wp' = Add(wp, Len(wsrc))
      /\ wpc' = "idle" /\ buf' = buf /\ rp' = rp
  BY DEF WriteStore
<1>1. /\ Held \in Seq(Byte) /\ Len(Held) = Avail /\ Avail \in 0..Cap
      /\ \A i \in 1..Avail : Held[i] = buf[Cell(rp, i - 1)]
  BY <1>0, HeldBytes DEF HeldIsUnread
<1>2. /\ Held' \in Seq(Byte) /\ Len(Held') = Avail'
      /\ \A i \in 1..Avail' : Held'[i] = buf'[Cell(rp', i - 1)]
  BY <1>0, HeldBytesNext DEF HeldIsUnread, Cell
<1>3. /\ wp \in Index /\ rp \in Index /\ wsrc \in Seq(Byte) /\ Len(wsrc) \in Nat
      /\ Avail + Len(wsrc) <= Cap
  BY <1>0 DEF IInv, TypeOK, CallsAreBacked
<1>4. Avail' = Avail + Len(wsrc)
  <2>1. Len(wsrc) \in 0..IndexMod-1 /\ Sub(wp, rp) + Len(wsrc) < IndexMod
    BY <1>1, <1>3 DEF Avail
  <2>2. Sub(Add(wp, Len(wsrc)), rp) = Sub(wp, rp) + Len(wsrc)
    BY <1>3, <2>1, Distance
  <2> QED BY <1>0, <2>2 DEF Avail
<1>5. wp = Add(rp, Avail)
  BY <1>3 DEF Avail, Sub, Add
<1> DEFINE sum == Held \o wsrc
<1>6. /\ sum \in Seq(Byte) /\ Len(sum) = Avail + Len(wsrc)
      /\ \A i \in 1..Avail : sum[i] = Held[i]
      /\ \A i \in 1..Len(wsrc) : sum[Avail + i] = wsrc[i]
  <2>1. /\ sum \in Seq(Byte) /\ Len(sum) = Avail + Len(wsrc)
        /\ \A i \in 1..Avail : sum[i] = Held[i]
    BY <1>1, <1>3
  <2>2. ASSUME NEW i \in 1..Len(wsrc)
        PROVE  sum[Avail + i] = wsrc[i]
    <3>1. Avail + i \in 1..Avail + Len(wsrc) /\ ~(Avail + i <= Avail) /\ (Avail + i) - Avail = i
      BY <1>1, <1>3
    <3> QED BY <1>1, <1>3, <3>1, ConcatProperties
  <2> QED BY <2>1, <2>2
<1> HIDE DEF sum
<1>7. ASSUME NEW i \in 1..Avail + Len(wsrc)
      PROVE  Held'[i] = sum[i]
  <2>1. Held'[i] = buf[Cell(rp, i - 1)]
    BY <1>0, <1>2, <1>4 DEF Cell
  <2>2. CASE i <= Avail
    <3>1. i \in 1..Avail
      BY <1>1, <1>3, <2>2
    <3> QED BY <1>1, <1>6, <2>1, <3>1
  <2>3. CASE i > Avail
    <3> DEFINE k == i - Avail - 1
    <3>1. /\ k \in 0..Len(wsrc)-1 /\ k \in Nat /\ Avail \in Nat
          /\ Avail + k < Cap /\ i - 1 = Avail + k
          /\ k + 1 \in 1..Len(wsrc) /\ Avail + (k + 1) = i
      BY <1>1, <1>3, <2>3
    <3> HIDE DEF k
    <3>2. Cell(Add(rp, Avail), k) = Cell(rp, Avail + k)
      BY <1>3, <3>1, CellShift
    <3>3. buf[Cell(wp, k)] = wsrc[k + 1]
      BY <1>0, <3>1 DEF CopiesAreFaithful
    <3>4. sum[i] = wsrc[k + 1]
      BY <1>6, <3>1
    <3> QED BY <1>5, <2>1, <3>1, <3>2, <3>3, <3>4
  <2> QED BY <1>1, <1>3, <2>2, <2>3
<1>8. Held' = sum
  BY <1>0, <1>2, <1>4, <1>6, <1>7, SameBytes
<1> QED BY <1>8 DEF sum

(* The bytes a finished read has copied are the oldest ones held.          *)
LEMMA CopiedOldest ==
  ASSUME IInv, CopiesAreFaithful, rpc = "copy", Len(dst) = want
  PROVE  dst = SubSeq(Held, 1, want) /\ want \in 1..Len(Held) /\ wpc # "reset"
<1> USE Constants
<1>1. /\ wpc # "reset" /\ want \in 1..Avail /\ dst \in Seq(Byte)
  BY Numbers DEF IInv, TypeOK, CallsAreBacked
<1>2. /\ Held \in Seq(Byte) /\ Len(Held) = Avail /\ Avail \in 0..Cap
      /\ \A i \in 1..Avail : Held[i] = buf[Cell(rp, i - 1)]
  BY <1>1, HeldBytes DEF HeldIsUnread
<1> DEFINE top == SubSeq(Held, 1, want)
<1>3. /\ top \in Seq(Byte) /\ Len(top) = want
      /\ \A i \in 1..want : top[i] = Held[i]
  BY <1>1, <1>2
<1> HIDE DEF top
<1>4. ASSUME NEW i \in 1..want
      PROVE  dst[i] = top[i]
  <2>1. i - 1 \in 0..Len(dst)-1 /\ (i - 1) + 1 = i /\ i \in 1..Avail
    BY <1>1, <1>2
  <2>2. dst[(i - 1) + 1] = buf[Cell(rp, i - 1)]
    BY <2>1 DEF CopiesAreFaithful
  <2> QED BY <1>2, <1>3, <2>1, <2>2
<1>5. dst = top
  BY <1>1, <1>3, <1>4, SameBytes
<1> QED BY <1>1, <1>2, <1>5 DEF top

(* Each step of the ring is the step of the queue it stands for, or none.  *)
LEMMA NextRefines ==
  ASSUME Discipline, IInv, IInv', CopiesAreFaithful, [Next]_vars
  PROVE  [Fifo!Next]_(Fifo!vars)
<1> USE Constants
<1>0. /\ TypeOK /\ AvailWithinCap /\ CallsAreBacked
      /\ policy \in Policies /\ policy' = policy
      /\ Len(wsrc) \in Nat /\ want \in Nat /\ Avail \in Nat
      /\ wp \in Index /\ rp \in Index /\ wsrc \in Seq(Byte)
  <2>1. TypeOK /\ AvailWithinCap /\ CallsAreBacked
    BY DEF IInv
  <2>2. policy' = policy
    BY DEF Next, vars
  <2> QED BY <2>1, <2>2, Numbers DEF TypeOK
<1>a. HeldIsUnread
  BY HeldBytes
<1>1. ASSUME NEW n \in 0..MaxSize, NEW s \in [1..n -> Byte], WriteCall(s)
      PROVE  Fifo!Next
  <2>1. /\ wpc = "idle" /\ wpc' = "load" /\ wsrc' = s
        /\ UNCHANGED <<buf, wp, rp, wret, rvars>>
    BY <1>1 DEF WriteCall
  <2>2. Held' = Held
    BY <2>1, HeldUnchanged
  <2>3. Fifo!Offer(s)
    BY <2>1, <2>2 DEF Fifo!Offer, CopiesAreFaithful, rvars
  <2> QED BY <1>0, <2>3 DEF Fifo!Next
<1>2. CASE WriteNothing
  <2>1. /\ wpc = "load" /\ wpc' = "idle" /\ wsrc' = <<>> /\ wret' = 0
        /\ Accepted(Free, Len(wsrc)) = 0
        /\ UNCHANGED <<buf, wp, rp, rvars>>
    BY <1>2 DEF WriteNothing
  <2>2. Held' = Held
    BY <2>1, HeldUnchanged
  <2>3. Len(Held) = Avail /\ Free = Cap - Avail /\ Avail \in 0..Cap
    BY <1>0, <1>a, <2>1, FreeIsDifference DEF HeldIsUnread
  <2>4. \/ wsrc = <<>>
        \/ policy = "REJECT" /\ Len(Held) + Len(wsrc) > Cap
        \/ policy = "TRUNCATE" /\ Len(Held) = Cap
    <3>1. policy \in {"TRUNCATE", "OVERWRITE", "REJECT"}
      BY <1>0, SpscAssumption
    <3>2. CASE Len(wsrc) <= Free
      BY <1>0, <2>1, <3>2 DEF Accepted
    <3>3. CASE ~(Len(wsrc) <= Free)
      BY <1>0, <2>1, <2>3, <3>1, <3>3 DEF Accepted
    <3> QED BY <3>2, <3>3
  <2>5. Fifo!Refuse
    BY <2>1, <2>2, <2>4 DEF Fifo!Refuse, Fifo!TooLong, rvars
  <2> QED BY <1>0, <2>5 DEF Fifo!Next
<1>3. CASE WriteAccept
  <2> DEFINE size == Accepted(Free, Len(wsrc))
  <2>1. /\ wpc = "load" /\ wpc' \in {"drop", "copy"} /\ size > 0
        /\ wsrc' = SubSeq(wsrc, 1, size)
        /\ UNCHANGED <<buf, wp, rp, wret, rvars>>
    BY <1>3 DEF WriteAccept
  <2>2. Held' = Held
    BY <2>1, HeldUnchanged
  <2>3. Len(Held) = Avail /\ Free = Cap - Avail /\ Avail \in 0..Cap
    BY <1>0, <1>a, <2>1, FreeIsDifference DEF HeldIsUnread
  <2>4. \/ size = Len(wsrc)
        \/ policy = "TRUNCATE" /\ Len(wsrc) > Free /\ size = Free
    <3>1. policy \in {"TRUNCATE", "OVERWRITE", "REJECT"}
      BY <1>0, SpscAssumption
    <3> QED BY <1>0, <2>1, <2>3, <3>1 DEF Accepted
  <2> HIDE DEF size
  <2>5. CASE size = Len(wsrc)
    <3>1. wsrc' = wsrc
      BY <1>0, <2>1, <2>5
    <3> QED BY <1>0, <2>1, <2>2, <3>1 DEF Fifo!vars, rvars
  <2>6. CASE policy = "TRUNCATE" /\ Len(wsrc) > Free /\ size = Free
    <3>1. Fifo!Cut
      BY <1>0, <2>1, <2>2, <2>3, <2>6 DEF Fifo!Cut, Fifo!TooLong, rvars
    <3> QED BY <1>0, <3>1 DEF Fifo!Next
  <2> QED BY <2>4, <2>5, <2>6
<1>4. CASE WriteDrop
  <2>1. /\ wpc = "drop" /\ wpc' = "copy" /\ rp' = Add(rp, excess)
        /\ UNCHANGED <<buf, wp, wsrc, wret, rvars>>
    BY <1>4 DEF WriteDrop
  <2>2. /\ excess \in 1..Avail /\ Avail + Len(wsrc) = Cap + excess
        /\ policy = "OVERWRITE"
    BY <1>0, <2>1 DEF CallsAreBacked
  <2>3. Held' = SubSeq(Held, excess + 1, Len(Held))
    BY <2>1, <2>2, HeldDropsOldest
  <2>4. Len(Held) = Avail
    BY <1>a, <2>1 DEF HeldIsUnread
  <2>5. Len(Held) + Len(wsrc) > Cap /\ Len(Held) + Len(wsrc) - Cap = excess
    BY <1>0, <2>2, <2>4
  <2>6. Fifo!Displace
    BY <2>1, <2>2, <2>3, <2>5 DEF Fifo!Displace, Fifo!TooLong, rvars
  <2> QED BY <1>0, <2>6 DEF Fifo!Next
<1>5. CASE WriteByte
  <2>1. /\ wpc = "copy" /\ wi < Len(wsrc)
        /\ buf' = [buf EXCEPT ![Cell(wp, wi)] = wsrc[wi + 1]]
        /\ UNCHANGED <<wp, rp, wpc, wsrc, wret, rvars>>
    BY <1>5 DEF WriteByte
  <2>2. ASSUME NEW i \in 1..Avail
        PROVE  buf'[Cell(rp, i - 1)] = buf[Cell(rp, i - 1)]
    <3>1. i - 1 \in 0..Avail-1
      BY <1>0
    <3>2. Cell(rp, i - 1) # Cell(wp, wi) /\ Cell(rp, i - 1) \in 0..Cap-1
      BY <2>1, <3>1, FreshCell
    <3>3. buf \in [0..Cap-1 -> Byte]
      BY <1>0 DEF TypeOK
    <3> QED BY <2>1, <3>2, <3>3
  <2>3. Avail' = Avail
    BY <2>1 DEF Avail
  <2>4. Held' = Held
    <3>1. Held = [i \in 1..Avail |-> buf[Cell(rp, i - 1)]]
      BY <2>1 DEF Held
    <3>2. Held' = [i \in 1..Avail |-> buf'[Cell(rp, i - 1)]]
      BY <2>1, <2>3 DEF Held, Cell
    <3> QED BY <2>2, <3>1, <3>2
  <2> QED BY <1>0, <2>1, <2>4 DEF Fifo!vars, rvars
<1>6. CASE WriteStore
  <2>1. /\ wpc = "copy" /\ wret' = Len(wsrc) /\ wsrc' = <<>>
        /\ UNCHANGED rvars
    BY <1>6 DEF WriteStore
  <2>2. wsrc # <<>> /\ Avail + Len(wsrc) <= Cap
    BY <1>0, <2>1 DEF CallsAreBacked
  <2>3. Len(Held) = Avail
    BY <1>a, <2>1 DEF HeldIsUnread
  <2>4. ~(Len(Held) + Len(wsrc) > Cap)
    BY <1>0, <2>2, <2>3
  <2>5. Held' = Held \o wsrc
    BY <1>6, HeldAppends
  <2>6. Fifo!Put
    BY <2>1, <2>2, <2>4, <2>5 DEF Fifo!Put, Fifo!TooLong, rvars
  <2> QED BY <1>0, <2>6 DEF Fifo!Next
<1>7. ASSUME NEW n \in 0..MaxSize, ReadCall(n)
      PROVE  Fifo!Next
  <2>1. /\ rpc = "idle" /\ wpc # "reset" /\ want' = n
        /\ UNCHANGED <<buf, wp, rp, wvars, dst, got>>
    BY <1>7 DEF ReadCall
  <2>2. Held' = Held
    BY <2>1, HeldUnchanged DEF wvars
  <2>3. Fifo!Ask(n)
    BY <2>1, <2>2 DEF Fifo!Ask, CopiesAreFaithful, wvars
  <2> QED BY <1>0, <2>3 DEF Fifo!Next
<1>8. CASE ReadNothing
  <2>1. /\ rpc = "load" /\ wpc # "reset" /\ (want = 0 \/ Avail = 0)
        /\ want' = 0 /\ got' = <<>>
        /\ UNCHANGED <<buf, wp, rp, wvars>>
    BY <1>0, <1>8 DEF ReadNothing, CallsAreBacked, Avail
  <2>2. Held' = Held
    BY <1>0, <1>8, <2>1, HeldUnchanged DEF wvars, CallsAreBacked, ReadNothing
  <2>3. want = 0 \/ Held = <<>>
    BY <2>1, HeldNothing
  <2>4. Fifo!GetNone
    BY <2>1, <2>2, <2>3 DEF Fifo!GetNone, wvars
  <2> QED BY <1>0, <2>4 DEF Fifo!Next
<1>9. CASE ReadAccept
  <2>1. /\ rpc = "load" /\ wpc # "reset" /\ want > 0 /\ Avail > 0
        /\ want' = IF want > Avail THEN Avail ELSE want
        /\ UNCHANGED <<buf, wp, rp, wvars, dst, got>>
    BY <1>0, <1>9 DEF ReadAccept, CallsAreBacked, Avail
  <2>2. Held' = Held
    BY <2>1, HeldUnchanged DEF wvars
  <2>3. Len(Held) = Avail /\ Held \in Seq(Byte)
    BY <1>a, <2>1 DEF HeldIsUnread
  <2>4. CASE want > Avail
    <3>1. want > Len(Held) /\ Held # <<>> /\ want' = Len(Held)
      BY <1>0, <2>1, <2>3, <2>4
    <3>2. Fifo!Lower
      BY <2>1, <2>2, <3>1 DEF Fifo!Lower, wvars
    <3> QED BY <1>0, <3>2 DEF Fifo!Next
  <2>5. CASE ~(want > Avail)
    BY <1>0, <2>1, <2>2, <2>5 DEF Fifo!vars, wvars
  <2> QED BY <2>4, <2>5
<1>10. CASE ReadByte
  <2>1. /\ rpc = "copy" /\ wpc # "reset"
        /\ UNCHANGED <<buf, wp, rp, wvars, want, got>>
    BY <1>0, <1>10 DEF ReadByte, CallsAreBacked
  <2>2. Held' = Held
    BY <2>1, HeldUnchanged DEF wvars
  <2> QED BY <1>0, <2>1, <2>2 DEF Fifo!vars, wvars
<1>11. CASE ReadStore
  <2>1. /\ rpc = "copy" /\ Len(dst) = want /\ rrp = rp /\ want \in 1..Avail
        /\ rp' = Add(rp, want) /\ got' = dst /\ want' = 0
        /\ UNCHANGED <<buf, wp, wvars>>
    BY <1>0, <1>11 DEF ReadStore, CallsAreBacked
  <2>2. dst = SubSeq(Held, 1, want) /\ want \in 1..Len(Held) /\ wpc # "reset"
    BY <2>1, CopiedOldest
  <2>3. Held' = SubSeq(Held, want + 1, Len(Held))
    BY <2>1, <2>2, HeldDropsOldest DEF wvars
  <2>4. Fifo!Get
    BY <2>1, <2>2, <2>3 DEF Fifo!Get, wvars
  <2> QED BY <1>0, <2>4 DEF Fifo!Next
<1>12. CASE ResetRp
  <2>1. /\ wpc = "idle" /\ rpc = "idle" /\ wpc' = "reset"
        /\ UNCHANGED <<wsrc, wret, rvars>>
    BY <1>12 DEF ResetRp
  <2>2. Held' = <<>> /\ wsrc = <<>> /\ want = 0
    BY <2>1 DEF Held, CopiesAreFaithful
  <2>3. Fifo!Reset
    BY <2>1, <2>2 DEF Fifo!Reset, rvars
  <2> QED BY <1>0, <2>3 DEF Fifo!Next
<1>13. CASE ResetWp
  <2>1. /\ wpc = "reset" /\ wpc' = "idle" /\ wp' = 0 /\ rp' = 0
        /\ UNCHANGED <<wsrc, wret, rvars>>
    BY <1>0, <1>13 DEF ResetWp, CallsAreBacked
  <2>2. Held = <<>>
    BY <2>1 DEF Held
  <2>3. Held' = <<>>
    <3>1. Avail' = 0
      BY <2>1 DEF Avail, Sub
    <3>2. Len(Held') = 0 /\ Held' \in Seq(Byte)
      BY <2>1, <3>1, HeldBytesNext DEF HeldIsUnread
    <3> QED BY <3>2
  <2> QED BY <1>0, <2>1, <2>2, <2>3 DEF Fifo!vars, rvars
<1>14. CASE UNCHANGED vars
  <2>1. Held' = Held
    BY <1>14 DEF vars, wvars, Held, Avail, Cell
  <2> QED BY <1>14, <2>1 DEF vars, wvars, rvars, Fifo!vars
<1> QED
  BY <1>1, <1>2, <1>3, <1>4, <1>5, <1>6, <1>7, <1>8, <1>9, <1>10, <1>11, <1>12,
     <1>13, <1>14 DEF Next, Writer, Reader, Reset

(* The ring delivers every byte once, in order and untorn, and cuts,       *)
(* refuses or displaces as its policy says: with every capacity, index     *)
(* width and interleaving of the two sides it is the byte queue.           *)
THEOREM RingIsAFifo ==
  ASSUME Discipline
  PROVE  Spec => ImplementsByteFifo
<1>1. Init => Fifo!Init
  <2> SUFFICES ASSUME Init PROVE Fifo!Init
    OBVIOUS
  <2>1. IInv
    BY InitIInv
  <2>2. Avail = 0
    BY DEF Init, Avail, Sub
  <2>3. Held = <<>>
    BY <2>1, <2>2, HeldNothing
  <2> QED BY <2>3, SpscAssumption DEF Init, Fifo!Init
<1>2. Init => CopiesAreFaithful
  BY DEF Init, CopiesAreFaithful
<1>3. IInv /\ CopiesAreFaithful /\ [Next]_vars => CopiesAreFaithful'
  BY NextFaithful
<1>4. IInv /\ IInv' /\ CopiesAreFaithful /\ [Next]_vars => [Fifo!Next]_(Fifo!vars)
  BY NextRefines
<1> QED
  BY <1>1, <1>2, <1>3, <1>4, Invariance, PTL DEF Spec, ImplementsByteFifo, Fifo!Spec
=============================================================================
