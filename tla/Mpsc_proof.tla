----------------------------- MODULE Mpsc_proof -----------------------------
(***************************************************************************)
(* Proofs about the ring of Mpsc for any number of producers, any capacity *)
(* and any sizes of writes and reads: the regions of the producers are     *)
(* exclusive, the consumer takes committed bytes only, its arithmetic      *)
(* stays in range, warp_end is never shared, the ring is a queue, and what *)
(* is left of a record can be read at once.                                *)
(***************************************************************************)
EXTENDS MpscFifo, FiniteSetTheorems, SequenceTheorems, TLAPS

Offset    == 0..Cap-1
AnyOffset == Offset \cup {OffsetMax}
Words     == [off : Offset, cnt : 0..WrapMod-1, lock : BOOLEAN]
Calls     == [size : Nat, seen : Words]
Marks     == [pos : AnyOffset, lock : BOOLEAN]
Points    == {"off", "open", "load", "mark", "check", "fail", "cas",
              "settle", "wrap", "unlock", "fill", "push"}

TypeOK ==
  /\ buf \in [Offset -> Int \X Int \X Int]
  /\ wp \in Words /\ rp \in Offset /\ warp_end \in AnyOffset
  /\ flag \in [Producers -> BOOLEAN] /\ reserve \in [Producers -> Marks]
  /\ pc \in [Producers -> Points] /\ w \in [Producers -> Calls]
  /\ cpc \in {"idle", "load", "flag", "reserve", "decide", "rewind", "copy", "release"}
  /\ want \in Nat /\ crp \in Offset /\ cwp \in Offset /\ ready \in AnyOffset
  /\ ci \in 1..N+1

(* Where the call of a producer starts from, how much it writes, and the   *)
(* end of its region.                                                      *)
Seen(p) == w[p].seen.off
Size(p) == w[p].size
End(p)  == Start(p) + Size(p)

(* The producer whose region starts over at 0.                             *)
Wraps(p) == Owning(p) /\ NewWp(p).lock

(* x is not behind the start of the abandoned tail.                        *)
InFront(x) ==
  /\ x <= Cap /\ x <= warp_end
  /\ \A p \in Producers : Wraps(p) => x <= Seen(p)

(* The cells from a up to b are reserved and not consumed.                 *)
Spans(a, b) ==
  IF First <= wp.off THEN First <= a /\ b <= wp.off
  ELSE (First <= a /\ InFront(b)) \/ b <= wp.off

(* warp_end is in use from a wrap to the consumer's rewind.                *)
RingIsSound ==
  /\ First <= wp.off => warp_end = OffsetMax /\ ~wp.lock /\ \A p \in Producers : ~Wraps(p)
  /\ wp.off < First => InFront(First)
  /\ wp.lock => \E p \in Producers : Wraps(p) /\ pc[p] \in {"settle", "wrap", "unlock"}

(* A call that has not swapped yet saw wp as it is now or as it never will *)
(* be again; as it is now, there is the room it checked for.               *)
TryIsSound(p) ==
  pc[p] \in {"mark", "check", "cas"} =>
    /\ ~w[p].seen.lock
    /\ w[p].seen.cnt = wp.cnt => w[p].seen.off <= wp.off /\ ~wp.lock
    /\ pc[p] = "cas" /\ w[p].seen = wp => ~NoRoom(w[p].seen, w[p].size)

(* A region is inside the storage, reserved, and behind the offset its     *)
(* producer published; the one that wrapped has its way with warp_end.     *)
OwnerIsSound(p) ==
  Owning(p) =>
    /\ Spans(Start(p), End(p)) /\ End(p) <= Cap
    /\ NewWp(p).lock =>
         /\ Seen(p) + Size(p) > Cap /\ First <= Seen(p) /\ wp.off < First
         /\ Size(p) <= wp.off
         /\ pc[p] \in {"settle", "wrap"} => warp_end = OffsetMax
         /\ pc[p] \in {"unlock", "fill", "push"} => warp_end = Seen(p)
         /\ pc[p] \in {"settle", "wrap", "unlock"} => wp = NewWp(p)
    /\ pc[p] \in {"wrap", "unlock"} => NewWp(p).lock

CallIsSound(p) ==
  /\ flag[p] <=> pc[p] # "off"
  /\ pc[p] \notin {"off", "open"} => w[p].size \in Sizes
  /\ pc[p] \in {"check", "cas"} \/ Owning(p) => reserve[p].pos = Seen(p)
  /\ TryIsSound(p) /\ OwnerIsSound(p)

Apart(p, q) == End(p) <= Start(q) \/ End(q) <= Start(p)

RegionsApart ==
  \A p, q \in Producers : Owning(p) /\ Owning(q) /\ p # q => Apart(p, q)

(* Reserved bytes without an owner are committed, filled ones are not      *)
(* empty.                                                                  *)
BytesAreThere ==
  /\ \A c \in Offset :
       Spans(c, c + 1) /\ (\A p \in Producers : c \notin Region(p)) => buf[c] # Empty
  /\ \A p \in Producers : pc[p] = "push" => \A c \in Region(p) : buf[c] # Empty

(* The swap that reserved from offset s on came before the consumer loaded *)
(* wp, and the bytes are ahead of it.                                      *)
Early(s) == crp <= s /\ (crp < cwp => s < cwp)

Scanning == cpc \in {"flag", "reserve", "decide"}

(* What the consumer knows: what it may read is reserved, and no producer  *)
(* it has looked at owns a part in front of ready.                         *)
ScanIsSound ==
  Scanning =>
    /\ cwp # crp /\ crp <= ready
    /\ cpc = "decide" => ci = N + 1
    /\ cpc # "decide" => ci \in Producers
    /\ crp < cwp => IF First <= wp.off THEN cwp <= wp.off ELSE InFront(cwp)
    /\ cwp < crp => cwp <= wp.off /\ wp.off < crp /\ ~wp.lock
    /\ \A p \in Producers : p < ci /\ Owning(p) /\ Early(Seen(p)) => ready <= Seen(p)

ReadIsSound ==
  /\ cpc # "idle" => crp = rp /\ want \in ReadSizes
  /\ ~Scanning => ci = 1 /\ ready = OffsetMax
  /\ cpc = "rewind" => wp.off < rp
  /\ cpc \in {"copy", "release"} =>
       /\ Spans(crp, crp + want)
       /\ \A p \in Producers : Owning(p) => End(p) <= crp \/ crp + want <= Start(p)

IInv ==
  /\ TypeOK /\ RingIsSound /\ RegionsApart /\ BytesAreThere /\ ScanIsSound /\ ReadIsSound
  /\ \A p \in Producers : CallIsSound(p)

-----------------------------------------------------------------------------
(* The constants, and the word a swap leaves.                              *)

LEMMA Constants ==
  /\ N \in Nat /\ N > 0 /\ Cap \in Nat /\ Cap > 0 /\ WrapMod \in Nat /\ WrapMod > 1
  /\ OffsetMax = Cap + 1
  /\ \A n \in Sizes : n \in Nat /\ n > 0
  /\ \A n \in ReadSizes : n \in Nat /\ n > 0
BY MpscAssumption DEF OffsetMax

LEMMA Targets ==
  ASSUME NEW v \in Words, NEW n \in Nat
  PROVE  /\ v.off + n < Cap => /\ Target(v, n).off = v.off + n
                               /\ Target(v, n).cnt = v.cnt /\ Target(v, n).lock = v.lock
                               /\ Target(v, n) \in Words
         /\ v.off + n = Cap => /\ Target(v, n).off = 0 /\ ~Target(v, n).lock
                               /\ Target(v, n).cnt = (v.cnt + 1) % WrapMod
                               /\ Target(v, n) \in Words
         /\ v.off + n > Cap => /\ Target(v, n).off = n /\ Target(v, n).lock
                               /\ Target(v, n).cnt = (v.cnt + 1) % WrapMod
                               /\ n \in Offset => Target(v, n) \in Words
         /\ Target(v, n).lock \in BOOLEAN
<1>1. v.off \in Nat /\ v.off < Cap /\ v.cnt \in 0..WrapMod-1 /\ v.lock \in BOOLEAN
  BY Constants DEF Words, Offset
<1>2. (v.cnt + 1) % WrapMod \in 0..WrapMod-1 /\ 0 \in Offset
  BY <1>1, Constants DEF Offset
<1>3. CASE v.off + n < Cap
  <2>1. Target(v, n) = [v EXCEPT !.off = v.off + n] /\ v.off + n \in Offset
    BY <1>1, <1>3, Constants DEF Target, Offset
  <2> QED BY <1>1, <1>3, <2>1, Constants DEF Words
<1>4. CASE v.off + n = Cap
  <2>1. ~(v.off + n < Cap) /\ (v.off + n > Cap) = FALSE /\ (v.off + n = Cap) = TRUE
    BY <1>1, <1>4, Constants
  <2>2. Target(v, n) = [off |-> 0, cnt |-> (v.cnt + 1) % WrapMod, lock |-> FALSE]
    BY <2>1, Zenon DEF Target
  <2>3. /\ Target(v, n).off = 0 /\ ~Target(v, n).lock /\ Target(v, n).lock \in BOOLEAN
        /\ Target(v, n).cnt = (v.cnt + 1) % WrapMod
    BY <2>2
  <2>4. 0 \in Offset => Target(v, n) \in Words
    BY <1>2, <2>2 DEF Words
  <2> QED BY <1>1, <1>2, <1>4, <2>3, <2>4, Constants
<1>5. CASE v.off + n > Cap
  <2>1. ~(v.off + n < Cap) /\ (v.off + n > Cap) = TRUE /\ (v.off + n = Cap) = FALSE
    BY <1>1, <1>5, Constants
  <2>2. Target(v, n) = [off |-> n, cnt |-> (v.cnt + 1) % WrapMod, lock |-> TRUE]
    BY <2>1, Zenon DEF Target
  <2>3. /\ Target(v, n).off = n /\ Target(v, n).lock /\ Target(v, n).lock \in BOOLEAN
        /\ Target(v, n).cnt = (v.cnt + 1) % WrapMod
    BY <2>2
  <2>4. n \in Offset => Target(v, n) \in Words
    BY <1>2, <2>2 DEF Words
  <2> QED BY <1>5, <2>1, <2>3, <2>4, Zenon
<1> QED BY <1>1, <1>3, <1>4, <1>5, Constants

(* The numbers of a state are offsets, sizes are sizes.                    *)
LEMMA Numbers ==
  ASSUME TypeOK
  PROVE  /\ wp \in Words /\ wp.off \in Nat /\ wp.off < Cap /\ wp.off \in Int /\ wp.lock \in BOOLEAN
         /\ rp \in Nat /\ rp < Cap /\ crp \in Nat /\ crp < Cap /\ cwp \in Nat /\ cwp < Cap
         /\ warp_end \in Nat /\ warp_end <= OffsetMax /\ warp_end # Cap
         /\ ready \in Nat /\ ready <= OffsetMax
         /\ First \in Nat /\ First < Cap
         /\ \A p \in Producers :
              /\ w[p] \in Calls /\ w[p].seen \in Words /\ reserve[p] \in Marks
              /\ Seen(p) \in Nat /\ Seen(p) < Cap /\ Size(p) \in Nat
              /\ Start(p) \in Nat /\ End(p) \in Nat /\ End(p) = Start(p) + Size(p)
<1>1. /\ wp \in Words /\ rp \in Offset /\ crp \in Offset /\ cwp \in Offset
      /\ warp_end \in AnyOffset /\ ready \in AnyOffset
  BY DEF TypeOK
<1>2. /\ \A x \in Offset : x \in Nat /\ x < Cap
      /\ \A x \in AnyOffset : x \in Nat /\ x <= OffsetMax /\ x # Cap
  BY Constants DEF Offset, AnyOffset
<1>3. wp.off \in Offset /\ wp.lock \in BOOLEAN
  BY <1>1 DEF Words
<1>4. First \in Nat /\ First < Cap
  BY <1>1, <1>2, Constants DEF First
<1>5. ASSUME NEW p \in Producers
      PROVE  /\ w[p] \in Calls /\ w[p].seen \in Words /\ reserve[p] \in Marks
             /\ Seen(p) \in Nat /\ Seen(p) < Cap /\ Size(p) \in Nat
             /\ Start(p) \in Nat /\ End(p) \in Nat /\ End(p) = Start(p) + Size(p)
  <2>1. w[p] \in Calls /\ w[p].seen \in Words /\ reserve[p] \in Marks
    BY DEF TypeOK, Calls
  <2>2. Size(p) \in Nat /\ Seen(p) \in Offset
    BY <2>1 DEF Size, Seen, Calls, Words
  <2>3. Start(p) \in Nat
    BY <1>2, <2>2 DEF Start, Seen
  <2> QED BY <1>2, <2>1, <2>2, <2>3 DEF End
<1> QED BY <1>1, <1>2, <1>3, <1>4, <1>5

-----------------------------------------------------------------------------
(* Steps that leave the regions alone.                                     *)

(* A call keeps its region as long as it keeps its locals.                 *)
LEMMA SameRegion ==
  ASSUME NEW q \in Producers, Owning(q)' <=> Owning(q), Owning(q) => w'[q] = w[q]
  PROVE  /\ Wraps(q)' <=> Wraps(q)
         /\ Region(q)' = Region(q)
         /\ Owning(q) => /\ Start(q)' = Start(q) /\ End(q)' = End(q) /\ Seen(q)' = Seen(q)
                         /\ Size(q)' = Size(q) /\ NewWp(q)' = NewWp(q)
<1>1. CASE Owning(q)
  <2>1. NewWp(q)' = NewWp(q) /\ Seen(q)' = Seen(q) /\ Size(q)' = Size(q)
    BY <1>1 DEF NewWp, Seen, Size
  <2>2. Start(q)' = Start(q)
    BY <1>1, <2>1 DEF Start
  <2>3. End(q)' = End(q)
    BY <2>1, <2>2 DEF End
  <2> QED BY <1>1, <2>1, <2>2, <2>3 DEF Wraps, Region
<1>2. CASE ~Owning(q)
  BY <1>2 DEF Wraps, Region
<1> QED BY <1>1, <1>2

SameOwners == \A q \in Producers : (Owning(q)' <=> Owning(q)) /\ (Owning(q) => w'[q] = w[q])

(* Nobody comes to own a region.                                           *)
KeptOwners == \A q \in Producers : Owning(q)' => Owning(q) /\ w'[q] = w[q]

LEMMA SameFront ==
  ASSUME SameOwners, warp_end' = warp_end
  PROVE  \A x \in Int : InFront(x)' <=> InFront(x)
<1>1. \A q \in Producers : (Wraps(q)' <=> Wraps(q)) /\ (Wraps(q) => Seen(q)' = Seen(q))
  BY SameRegion DEF SameOwners, Wraps
<1>2. ASSUME NEW x \in Int
      PROVE  (\A p \in Producers : Wraps(p) => x <= Seen(p))'
               <=> \A p \in Producers : Wraps(p) => x <= Seen(p)
  BY <1>1
<1> QED BY <1>2 DEF InFront

LEMMA SameSpans ==
  ASSUME \A x \in Int : InFront(x)' <=> InFront(x), First' = First, wp'.off = wp.off
  PROVE  \A a, b \in Int : Spans(a, b)' <=> Spans(a, b)
BY DEF Spans

LEMMA StillApart ==
  ASSUME KeptOwners, RegionsApart
  PROVE  RegionsApart'
<1>1. \A q \in Producers : Owning(q)' =>
        Owning(q) /\ Start(q)' = Start(q) /\ End(q)' = End(q)
  BY SameRegion DEF KeptOwners
<1> QED BY <1>1 DEF RegionsApart, Apart

(* The other calls are as sound as they were.                              *)
LEMMA OtherOwner ==
  ASSUME TypeOK, NEW q \in Producers, OwnerIsSound(q), pc'[q] = pc[q], w'[q] = w[q],
         \A a, b \in Int : Spans(a, b) => Spans(a, b)',
         Wraps(q) => UNCHANGED <<wp, warp_end, First>>
  PROVE  OwnerIsSound(q)'
<1>1. Owning(q)' <=> Owning(q)
  BY DEF Owning
<1>2. /\ Wraps(q)' <=> Wraps(q)
      /\ Seen(q)' = Seen(q) /\ Size(q)' = Size(q) /\ NewWp(q)' = NewWp(q)
      /\ Start(q)' = Start(q) /\ End(q)' = End(q)
  BY <1>1 DEF Wraps, Seen, Size, NewWp, Start, End
<1>3. Spans(Start(q), End(q)) => Spans(Start(q), End(q))'
  <2>1. Start(q) \in Int /\ End(q) \in Int
    BY Numbers
  <2> QED BY <1>2, <2>1 DEF Spans, InFront
<1> QED BY <1>1, <1>2, <1>3 DEF OwnerIsSound, Wraps

LEMMA OtherCall ==
  ASSUME TypeOK, NEW q \in Producers, CallIsSound(q),
         pc'[q] = pc[q], w'[q] = w[q], reserve'[q] = reserve[q], flag'[q] = flag[q],
         wp' = wp, rp' = rp, First' = First,
         \A a, b \in Int : Spans(a, b) => Spans(a, b)',
         Wraps(q) => warp_end' = warp_end
  PROVE  CallIsSound(q)'
<1>1. (Owning(q)' <=> Owning(q)) /\ Seen(q)' = Seen(q)
  BY DEF Owning, Seen
<1>2. TryIsSound(q)'
  <2>1. NoRoom(w[q].seen, w[q].size)' <=> NoRoom(w[q].seen, w[q].size)
    BY DEF NoRoom
  <2> QED BY <2>1 DEF CallIsSound, TryIsSound
<1>3. OwnerIsSound(q)'
  BY OtherOwner DEF CallIsSound
<1> QED BY <1>1, <1>2, <1>3 DEF CallIsSound

(* A step of producer p leaves the other producers alone.                  *)
OthersRest(p) ==
  \A q \in Producers \ {p} :
    pc'[q] = pc[q] /\ w'[q] = w[q] /\ reserve'[q] = reserve[q] /\ flag'[q] = flag[q]

(* What the consumer knows of the owners stays true while they and the     *)
(* words it looks at stay.                                                 *)
LEMMA SameConsumer ==
  ASSUME TypeOK, ScanIsSound, ReadIsSound, KeptOwners, UNCHANGED cvars, rp' = rp,
         wp'.off = wp.off, wp'.lock => wp.lock, First' = First,
         \A x \in Int : InFront(x) => InFront(x)', \A a, b \in Int : Spans(a, b) => Spans(a, b)'
  PROVE  ScanIsSound' /\ ReadIsSound'
<1>1. \A q \in Producers : Owning(q)' =>
        Owning(q) /\ Start(q)' = Start(q) /\ End(q)' = End(q) /\ Seen(q)' = Seen(q)
  BY SameRegion DEF KeptOwners
<1>2. ScanIsSound'
  <2>1. \A s : Early(s)' <=> Early(s)
    BY DEF Early, cvars
  <2>2. (Scanning' <=> Scanning) /\ UNCHANGED <<cwp, crp, ready, cpc, ci>>
    BY DEF Scanning, cvars
  <2>3. InFront(cwp) => InFront(cwp)'
    <3>1. cwp \in Int
      BY Numbers
    <3> QED BY <2>2, <3>1 DEF InFront
  <2>4. Scanning =>
          \A p \in Producers : p < ci /\ Owning(p)' /\ Early(Seen(p)') => ready <= Seen(p)'
    BY <1>1 DEF ScanIsSound
  <2>5. Scanning =>
          (\A p \in Producers : p < ci /\ Owning(p) /\ Early(Seen(p)) => ready <= Seen(p))'
    BY <2>1, <2>2, <2>4
  <2> QED BY <2>2, <2>3, <2>5 DEF ScanIsSound
<1>3. ReadIsSound'
  <2>1. UNCHANGED <<cpc, crp, want, ci, ready>> /\ (Scanning' <=> Scanning)
    BY DEF cvars, Scanning
  <2>2. Spans(crp, crp + want) => Spans(crp, crp + want)'
    <3>1. crp \in Int /\ crp + want \in Int
      BY Numbers DEF TypeOK
    <3> QED BY <2>1, <3>1 DEF Spans, InFront
  <2>3. (\A p \in Producers : Owning(p) => End(p) <= crp \/ crp + want <= Start(p))
          => (\A p \in Producers : Owning(p) => End(p) <= crp \/ crp + want <= Start(p))'
    BY <1>1, <2>1
  <2> QED BY <2>1, <2>2, <2>3 DEF ReadIsSound
<1> QED BY <1>2, <1>3

(* A producer that neither swaps nor touches the ring.                     *)
LEMMA QuietProducer ==
  ASSUME IInv, NEW p \in Producers, OthersRest(p),
         UNCHANGED <<buf, wp, rp, warp_end, cvars>>,
         pc' \in [Producers -> Points], w' \in [Producers -> Calls],
         reserve' \in [Producers -> Marks], flag' \in [Producers -> BOOLEAN],
         Owning(p)' <=> Owning(p), Owning(p) => w'[p] = w[p],
         Owning(p) => pc[p] = "settle" /\ (pc'[p] = "wrap" <=> NewWp(p).lock),
         pc'[p] # "push", CallIsSound(p)'
  PROVE  IInv'
<1>1. TypeOK'
  BY DEF IInv, TypeOK, cvars
<1>2. SameOwners
  BY DEF SameOwners, OthersRest, Owning
<1>3. First' = First
  BY DEF First, cvars
<1>4. /\ \A x \in Int : InFront(x)' <=> InFront(x)
      /\ \A a, b \in Int : Spans(a, b)' <=> Spans(a, b)
      /\ RegionsApart'
      /\ \A q \in Producers : (Wraps(q)' <=> Wraps(q)) /\ Region(q)' = Region(q)
  BY <1>2, <1>3, SameFront, SameSpans, StillApart, SameRegion DEF SameOwners, KeptOwners, IInv
<1>5. RingIsSound'
  <2>1. ASSUME wp.lock
        PROVE  \E q \in Producers : Wraps(q)' /\ pc'[q] \in {"settle", "wrap", "unlock"}
    <3>1. PICK q \in Producers : Wraps(q) /\ pc[q] \in {"settle", "wrap", "unlock"}
      BY <2>1 DEF IInv, RingIsSound
    <3>2. CASE q = p
      BY <1>4, <3>1, <3>2 DEF Wraps
    <3>3. CASE q # p
      BY <1>4, <3>1, <3>3 DEF OthersRest
    <3> QED BY <3>2, <3>3
  <2>2. InFront(First) => InFront(First)'
    <3>1. First \in Int
      BY Numbers DEF IInv
    <3> QED BY <1>3, <1>4, <3>1 DEF InFront
  <2> QED BY <1>3, <1>4, <2>1, <2>2 DEF IInv, RingIsSound
<1>6. BytesAreThere'
  <2>1. \A c \in Offset : Spans(c, c + 1)' /\ (\A q \in Producers : c \notin Region(q)')
                            => buf[c] # Empty
    <3>1. \A c \in Offset : c \in Int /\ c + 1 \in Int
      BY DEF Offset
    <3> QED BY <1>4, <3>1 DEF IInv, BytesAreThere
  <2>2. \A q \in Producers : pc'[q] = "push" => \A c \in Region(q)' : buf[c] # Empty
    BY <1>4 DEF IInv, BytesAreThere, OthersRest
  <2> QED BY <2>1, <2>2 DEF BytesAreThere
<1>7. ScanIsSound' /\ ReadIsSound'
  BY <1>2, <1>3, <1>4, SameConsumer DEF IInv, SameOwners, KeptOwners
<1>8. ASSUME NEW q \in Producers \ {p}
      PROVE  CallIsSound(q)'
  BY <1>3, <1>4, OtherCall DEF IInv, OthersRest
<1> QED BY <1>1, <1>4, <1>5, <1>6, <1>7, <1>8 DEF IInv

(* How the variables of one producer change.                               *)
LEMMA Updates ==
  ASSUME TypeOK, NEW p \in Producers
  PROVE  /\ \A to \in Points :
              /\ [pc EXCEPT ![p] = to] \in [Producers -> Points]
              /\ [pc EXCEPT ![p] = to][p] = to
              /\ \A q \in Producers \ {p} : [pc EXCEPT ![p] = to][q] = pc[q]
         /\ \A c \in Calls :
              /\ [w EXCEPT ![p] = c] \in [Producers -> Calls]
              /\ [w EXCEPT ![p] = c][p] = c
              /\ \A q \in Producers \ {p} : [w EXCEPT ![p] = c][q] = w[q]
         /\ \A m \in Marks :
              /\ [reserve EXCEPT ![p] = m] \in [Producers -> Marks]
              /\ [reserve EXCEPT ![p] = m][p] = m
              /\ \A q \in Producers \ {p} : [reserve EXCEPT ![p] = m][q] = reserve[q]
         /\ \A b \in BOOLEAN :
              /\ [flag EXCEPT ![p] = b] \in [Producers -> BOOLEAN]
              /\ [flag EXCEPT ![p] = b][p] = b
              /\ \A q \in Producers \ {p} : [flag EXCEPT ![p] = b][q] = flag[q]
BY DEF TypeOK

LEMMA IdleValues ==
  /\ Clear \in Marks /\ Clear.pos = OffsetMax
  /\ Zero \in Words /\ NoCall \in Calls
<1>1. 0 \in Offset /\ 0 \in 0..WrapMod-1 /\ OffsetMax \in AnyOffset
  BY Constants DEF Offset, AnyOffset
<1>2. Zero \in Words
  BY <1>1 DEF Zero, Words
<1>3. NoCall \in Calls
  BY <1>2 DEF NoCall, Calls
<1> QED BY <1>1, <1>2, <1>3 DEF Clear, Marks

LEMMA RegKeeps ==
  ASSUME IInv, NEW p \in Producers, Reg(p)
  PROVE  IInv'
<1>1. /\ pc[p] = "off" /\ pc' = [pc EXCEPT ![p] = "open"]
      /\ reserve' = [reserve EXCEPT ![p] = Clear] /\ flag' = [flag EXCEPT ![p] = TRUE]
      /\ w' = w /\ UNCHANGED <<buf, wp, rp, warp_end, cvars>>
  BY DEF Reg, Goto
<1>2. /\ pc' \in [Producers -> Points] /\ w' \in [Producers -> Calls]
      /\ reserve' \in [Producers -> Marks] /\ flag' \in [Producers -> BOOLEAN]
      /\ pc'[p] = "open" /\ flag'[p] = TRUE /\ OthersRest(p)
  BY <1>1, Updates, IdleValues DEF IInv, TypeOK, Points, OthersRest
<1>3. ~Owning(p) /\ ~Owning(p)'
  BY <1>1, <1>2 DEF Owning
<1>4. CallIsSound(p)'
  BY <1>2, <1>3 DEF CallIsSound, TryIsSound, OwnerIsSound
<1> QED BY <1>1, <1>2, <1>3, <1>4, QuietProducer

LEMMA UnregKeeps ==
  ASSUME IInv, NEW p \in Producers, Unreg(p)
  PROVE  IInv'
<1>1. /\ pc[p] = "open" /\ pc' = [pc EXCEPT ![p] = "off"]
      /\ flag' = [flag EXCEPT ![p] = FALSE]
      /\ w' = w /\ reserve' = reserve /\ UNCHANGED <<buf, wp, rp, warp_end, cvars>>
  BY DEF Unreg, Goto
<1>2. /\ pc' \in [Producers -> Points] /\ w' \in [Producers -> Calls]
      /\ reserve' \in [Producers -> Marks] /\ flag' \in [Producers -> BOOLEAN]
      /\ pc'[p] = "off" /\ flag'[p] = FALSE /\ OthersRest(p)
  BY <1>1, Updates, IdleValues DEF IInv, TypeOK, Points, OthersRest
<1>3. ~Owning(p) /\ ~Owning(p)'
  BY <1>1, <1>2 DEF Owning
<1>4. CallIsSound(p)'
  BY <1>2, <1>3 DEF CallIsSound, TryIsSound, OwnerIsSound
<1> QED BY <1>1, <1>2, <1>3, <1>4, QuietProducer

LEMMA WriteCallKeeps ==
  ASSUME IInv, NEW p \in Producers, NEW n \in Sizes, WriteCall(p, n)
  PROVE  IInv'
<1> DEFINE c == [w[p] EXCEPT !.size = n]
<1>1. /\ pc[p] = "open" /\ pc' = [pc EXCEPT ![p] = "load"]
      /\ w' = [w EXCEPT ![p] = c]
      /\ flag' = flag /\ reserve' = reserve /\ UNCHANGED <<buf, wp, rp, warp_end, cvars>>
  BY DEF WriteCall, Goto, shared
<1>2. c \in Calls /\ c.size = n
  BY Numbers, Constants DEF IInv, Calls
<1> HIDE DEF c
<1>3. /\ pc' \in [Producers -> Points] /\ w' \in [Producers -> Calls]
      /\ reserve' \in [Producers -> Marks] /\ flag' \in [Producers -> BOOLEAN]
      /\ pc'[p] = "load" /\ w'[p] = c /\ OthersRest(p)
  BY <1>1, <1>2, Updates DEF IInv, TypeOK, Points, OthersRest
<1>4. ~Owning(p) /\ ~Owning(p)'
  BY <1>1, <1>3 DEF Owning
<1>5. flag'[p] = TRUE
  BY <1>1 DEF IInv, CallIsSound, TypeOK
<1>6. CallIsSound(p)'
  BY <1>2, <1>3, <1>4, <1>5 DEF CallIsSound, TryIsSound, OwnerIsSound
<1> QED BY <1>1, <1>3, <1>4, <1>6, QuietProducer

(* Inside a call: the producer is registered, its size a size.             *)
LEMMA InCall ==
  ASSUME IInv, NEW p \in Producers, pc[p] \notin {"off", "open"}
  PROVE  /\ flag[p] = TRUE /\ w[p].size \in Sizes /\ w[p].size \in Nat /\ w[p].size > 0
         /\ w[p] \in Calls
<1>1. flag[p] = TRUE /\ w[p].size \in Sizes
  BY DEF IInv, CallIsSound, TypeOK
<1> QED BY <1>1, Constants, Numbers DEF IInv

LEMMA LoadWpKeeps ==
  ASSUME IInv, NEW p \in Producers, LoadWp(p)
  PROVE  IInv'
<1> DEFINE c == [w[p] EXCEPT !.seen = wp]
<1>1. /\ pc[p] = "load" /\ pc' = [pc EXCEPT ![p] = "mark"] /\ ~wp.lock
      /\ w' = [w EXCEPT ![p] = c]
      /\ flag' = flag /\ reserve' = reserve /\ UNCHANGED <<buf, wp, rp, warp_end, cvars>>
  BY DEF LoadWp, Goto, shared
<1>2. flag[p] = TRUE /\ w[p].size \in Sizes /\ w[p] \in Calls /\ wp \in Words /\ wp.off \in Nat
  BY <1>1, InCall, Numbers DEF IInv
<1>3. c \in Calls /\ c.size = w[p].size /\ c.seen = wp
  BY <1>2 DEF Calls
<1> HIDE DEF c
<1>4. /\ pc' \in [Producers -> Points] /\ w' \in [Producers -> Calls]
      /\ reserve' \in [Producers -> Marks] /\ flag' \in [Producers -> BOOLEAN]
      /\ pc'[p] = "mark" /\ w'[p] = c /\ OthersRest(p)
  BY <1>1, <1>3, Updates DEF IInv, TypeOK, Points, OthersRest
<1>5. ~Owning(p) /\ ~Owning(p)'
  BY <1>1, <1>4 DEF Owning
<1>6. TryIsSound(p)'
  BY <1>1, <1>2, <1>3, <1>4 DEF TryIsSound
<1>7. CallIsSound(p)'
  BY <1>1, <1>2, <1>3, <1>4, <1>5, <1>6 DEF CallIsSound, OwnerIsSound
<1> QED BY <1>1, <1>4, <1>5, <1>7, QuietProducer

LEMMA MarkKeeps ==
  ASSUME IInv, NEW p \in Producers, Mark(p)
  PROVE  IInv'
<1> DEFINE m == [pos |-> w[p].seen.off, lock |-> TRUE]
<1>1. /\ pc[p] = "mark" /\ pc' = [pc EXCEPT ![p] = "check"]
      /\ reserve' = [reserve EXCEPT ![p] = m]
      /\ flag' = flag /\ w' = w /\ UNCHANGED <<buf, wp, rp, warp_end, cvars>>
  BY DEF Mark, Goto, shared
<1>2. flag[p] = TRUE /\ w[p].size \in Sizes /\ w[p] \in Calls
  BY <1>1, InCall
<1>3. m \in Marks /\ m.pos = w[p].seen.off
  BY <1>2 DEF Calls, Words, Marks, AnyOffset
<1> HIDE DEF m
<1>4. /\ pc' \in [Producers -> Points] /\ w' \in [Producers -> Calls]
      /\ reserve' \in [Producers -> Marks] /\ flag' \in [Producers -> BOOLEAN]
      /\ pc'[p] = "check" /\ reserve'[p] = m /\ OthersRest(p)
  BY <1>1, <1>3, Updates DEF IInv, TypeOK, Points, OthersRest
<1>5. ~Owning(p) /\ ~Owning(p)'
  BY <1>1, <1>4 DEF Owning
<1>6. TryIsSound(p)'
  BY <1>1, <1>4 DEF IInv, CallIsSound, TryIsSound
<1>7. reserve'[p].pos = Seen(p)'
  BY <1>1, <1>3, <1>4 DEF Seen
<1>8. CallIsSound(p)'
  BY <1>1, <1>2, <1>4, <1>5, <1>6, <1>7 DEF CallIsSound, OwnerIsSound
<1> QED BY <1>1, <1>4, <1>5, <1>8, QuietProducer

LEMMA CheckFailsKeeps ==
  ASSUME IInv, NEW p \in Producers, CheckFails(p)
  PROVE  IInv'
<1>1. /\ pc[p] = "check" /\ pc' = [pc EXCEPT ![p] = "fail"]
      /\ flag' = flag /\ w' = w /\ reserve' = reserve
      /\ UNCHANGED <<buf, wp, rp, warp_end, cvars>>
  BY DEF CheckFails, Goto, shared
<1>2. flag[p] = TRUE /\ w[p].size \in Sizes
  BY <1>1, InCall
<1>3. /\ pc' \in [Producers -> Points] /\ w' \in [Producers -> Calls]
      /\ reserve' \in [Producers -> Marks] /\ flag' \in [Producers -> BOOLEAN]
      /\ pc'[p] = "fail" /\ OthersRest(p)
  BY <1>1, Updates DEF IInv, TypeOK, Points, OthersRest
<1>4. ~Owning(p) /\ ~Owning(p)'
  BY <1>1, <1>3 DEF Owning
<1>5. CallIsSound(p)'
  BY <1>1, <1>2, <1>3, <1>4 DEF CallIsSound, TryIsSound, OwnerIsSound
<1> QED BY <1>1, <1>3, <1>4, <1>5, QuietProducer

LEMMA CheckPassesKeeps ==
  ASSUME IInv, NEW p \in Producers, CheckPasses(p)
  PROVE  IInv'
<1>1. /\ pc[p] = "check" /\ pc' = [pc EXCEPT ![p] = "cas"]
      /\ ~NoRoom(w[p].seen, w[p].size)
      /\ flag' = flag /\ w' = w /\ reserve' = reserve
      /\ UNCHANGED <<buf, wp, rp, warp_end, cvars>>
  BY DEF CheckPasses, Goto, shared
<1>2. flag[p] = TRUE /\ w[p].size \in Sizes /\ reserve[p].pos = Seen(p)
  BY <1>1, InCall DEF IInv, CallIsSound
<1>3. /\ pc' \in [Producers -> Points] /\ w' \in [Producers -> Calls]
      /\ reserve' \in [Producers -> Marks] /\ flag' \in [Producers -> BOOLEAN]
      /\ pc'[p] = "cas" /\ OthersRest(p)
  BY <1>1, Updates DEF IInv, TypeOK, Points, OthersRest
<1>4. ~Owning(p) /\ ~Owning(p)'
  BY <1>1, <1>3 DEF Owning
<1>5. TryIsSound(p)'
  <2>1. ~NoRoom(w[p].seen, w[p].size)'
    BY <1>1 DEF NoRoom
  <2> QED BY <1>1, <1>3, <2>1 DEF IInv, CallIsSound, TryIsSound
<1>6. reserve'[p].pos = Seen(p)'
  BY <1>1, <1>2 DEF Seen
<1>7. CallIsSound(p)'
  BY <1>1, <1>2, <1>3, <1>4, <1>5, <1>6 DEF CallIsSound, OwnerIsSound
<1> QED BY <1>1, <1>3, <1>4, <1>7, QuietProducer

LEMMA FailKeeps ==
  ASSUME IInv, NEW p \in Producers, Fail(p)
  PROVE  IInv'
<1>1. /\ pc[p] = "fail" /\ pc' = [pc EXCEPT ![p] = "open"]
      /\ reserve' = [reserve EXCEPT ![p] = Clear] /\ w' = [w EXCEPT ![p] = NoCall]
      /\ flag' = flag /\ UNCHANGED <<buf, wp, rp, warp_end, cvars>>
  BY DEF Fail, Goto, shared
<1>2. flag[p] = TRUE
  BY <1>1, InCall
<1>3. /\ pc' \in [Producers -> Points] /\ w' \in [Producers -> Calls]
      /\ reserve' \in [Producers -> Marks] /\ flag' \in [Producers -> BOOLEAN]
      /\ pc'[p] = "open" /\ OthersRest(p)
  BY <1>1, Updates, IdleValues DEF IInv, TypeOK, Points, OthersRest
<1>4. ~Owning(p) /\ ~Owning(p)'
  BY <1>1, <1>3 DEF Owning
<1>5. CallIsSound(p)'
  BY <1>1, <1>2, <1>3, <1>4 DEF CallIsSound, TryIsSound, OwnerIsSound
<1> QED BY <1>1, <1>3, <1>4, <1>5, QuietProducer

LEMMA CasFailKeeps ==
  ASSUME IInv, NEW p \in Producers, CasFail(p)
  PROVE  IInv'
<1> DEFINE c == [w[p] EXCEPT !.seen = Zero]
<1>1. /\ pc[p] = "cas" /\ pc' = [pc EXCEPT ![p] = "load"]
      /\ w' = [w EXCEPT ![p] = c]
      /\ flag' = flag /\ reserve' = reserve /\ UNCHANGED <<buf, wp, rp, warp_end, cvars>>
  BY DEF CasFail, Goto, shared
<1>2. flag[p] = TRUE /\ w[p].size \in Sizes /\ w[p] \in Calls
  BY <1>1, InCall
<1>3. c \in Calls /\ c.size = w[p].size
  BY <1>2, IdleValues DEF Calls
<1> HIDE DEF c
<1>4. /\ pc' \in [Producers -> Points] /\ w' \in [Producers -> Calls]
      /\ reserve' \in [Producers -> Marks] /\ flag' \in [Producers -> BOOLEAN]
      /\ pc'[p] = "load" /\ w'[p] = c /\ OthersRest(p)
  BY <1>1, <1>3, Updates DEF IInv, TypeOK, Points, OthersRest
<1>5. ~Owning(p) /\ ~Owning(p)'
  BY <1>1, <1>4 DEF Owning
<1>6. CallIsSound(p)'
  BY <1>1, <1>2, <1>3, <1>4, <1>5 DEF CallIsSound, TryIsSound, OwnerIsSound
<1> QED BY <1>1, <1>4, <1>5, <1>6, QuietProducer

LEMMA SettleKeeps ==
  ASSUME IInv, NEW p \in Producers, Settle(p)
  PROVE  IInv'
<1> DEFINE m == [reserve[p] EXCEPT !.lock = FALSE]
           to == IF NewWp(p).lock THEN "wrap" ELSE "fill"
<1>1. /\ pc[p] = "settle" /\ pc' = [pc EXCEPT ![p] = to]
      /\ reserve' = [reserve EXCEPT ![p] = m]
      /\ flag' = flag /\ w' = w /\ UNCHANGED <<buf, wp, rp, warp_end, cvars>>
  BY DEF Settle, Goto, shared
<1>2. /\ flag[p] = TRUE /\ w[p].size \in Sizes /\ reserve[p].pos = Seen(p)
      /\ reserve[p] \in Marks /\ Owning(p) /\ OwnerIsSound(p)
  BY <1>1, InCall, Numbers DEF IInv, CallIsSound, Owning
<1>3. m \in Marks /\ m.pos = Seen(p)
  BY <1>2 DEF Marks
<1>4. to \in Points /\ to \in {"wrap", "fill"} /\ (to = "wrap" <=> NewWp(p).lock)
  BY DEF Points
<1> HIDE DEF m, to
<1>5. /\ pc' \in [Producers -> Points] /\ w' \in [Producers -> Calls]
      /\ reserve' \in [Producers -> Marks] /\ flag' \in [Producers -> BOOLEAN]
      /\ pc'[p] = to /\ reserve'[p] = m /\ OthersRest(p)
  BY <1>1, <1>3, <1>4, Updates DEF IInv, TypeOK, OthersRest
<1>6. Owning(p)'
  BY <1>4, <1>5 DEF Owning
<1>7. /\ NewWp(p)' = NewWp(p) /\ Start(p)' = Start(p) /\ End(p)' = End(p)
      /\ Seen(p)' = Seen(p) /\ Size(p)' = Size(p)
  BY <1>1, <1>2, <1>6, SameRegion
<1>8. First' = First /\ Spans(Start(p), End(p))'
  <2>1. SameOwners
    BY <1>1, <1>2, <1>5, <1>6 DEF SameOwners, OthersRest, Owning
  <2>2. First' = First
    BY <1>1 DEF First, cvars
  <2>3. \A a, b \in Int : Spans(a, b)' <=> Spans(a, b)
    BY <1>1, <2>1, <2>2, SameFront, SameSpans
  <2>4. Spans(Start(p), End(p))
    BY <1>2 DEF OwnerIsSound
  <2>5. Start(p) \in Int /\ End(p) \in Int
    BY Numbers DEF IInv
  <2> QED BY <1>7, <2>2, <2>3, <2>4, <2>5 DEF Spans, InFront
<1>9. OwnerIsSound(p)'
  BY <1>1, <1>2, <1>4, <1>5, <1>7, <1>8 DEF OwnerIsSound
<1>10. CallIsSound(p)'
  BY <1>1, <1>2, <1>3, <1>4, <1>5, <1>7, <1>9 DEF CallIsSound, TryIsSound
<1> QED BY <1>1, <1>2, <1>4, <1>5, <1>6, <1>10, QuietProducer

-----------------------------------------------------------------------------
(* The steps of an owner.                                                  *)

(* One producer at a time has wrapped and not pushed yet.                  *)
LEMMA OneWraps ==
  ASSUME IInv, NEW p \in Producers, NEW q \in Producers, Wraps(p), Wraps(q)
  PROVE  p = q
<1>1. /\ Start(p) = 0 /\ Start(q) = 0 /\ End(p) = Size(p) /\ End(q) = Size(q)
      /\ Size(p) > 0 /\ Size(q) > 0 /\ Size(p) \in Nat /\ Size(q) \in Nat
  <2>1. Start(p) = 0 /\ Start(q) = 0
    BY DEF Wraps, Start
  <2>2. pc[p] \notin {"off", "open"} /\ pc[q] \notin {"off", "open"}
    BY DEF Wraps, Owning
  <2>3. Size(p) > 0 /\ Size(q) > 0 /\ Size(p) \in Nat /\ Size(q) \in Nat
    BY <2>2, InCall DEF Size
  <2> QED BY <2>1, <2>3 DEF End
<1>2. p # q => Apart(p, q)
  BY DEF IInv, RegionsApart, Wraps
<1> QED BY <1>1, <1>2 DEF Apart

(* A step of an owner that keeps its region, or gives it up.               *)
LEMMA OwnerStep ==
  ASSUME IInv, NEW p \in Producers, Owning(p), Owning(p)' => w'[p] = w[p],
         OthersRest(p), UNCHANGED <<rp, cvars>>,
         wp' \in Words, wp'.off = wp.off, wp'.lock => wp.lock,
         buf' \in [Offset -> Int \X Int \X Int], warp_end' \in AnyOffset,
         pc' \in [Producers -> Points], w' \in [Producers -> Calls],
         reserve' \in [Producers -> Marks], flag' \in [Producers -> BOOLEAN],
         \A x \in Int : InFront(x)' <=> InFront(x),
         wp.off < First \/ warp_end' = warp_end,
         wp'.lock => \/ Owning(p)' /\ NewWp(p).lock /\ pc'[p] = "unlock"
                     \/ \E q \in Producers \ {p} :
                            Wraps(q) /\ pc[q] \in {"settle", "wrap", "unlock"},
         CallIsSound(p)', \A q \in Producers \ {p} : CallIsSound(q)',
         BytesAreThere'
  PROVE  IInv'
<1>1. TypeOK'
  BY DEF IInv, TypeOK, cvars
<1>2. KeptOwners
  BY DEF KeptOwners, OthersRest, Owning
<1>3. First' = First /\ wp'.off = wp.off
  BY DEF First, cvars
<1>4. /\ \A a, b \in Int : Spans(a, b)' <=> Spans(a, b)
      /\ RegionsApart'
  BY <1>2, <1>3, SameSpans, StillApart DEF IInv
<1>5. ScanIsSound' /\ ReadIsSound'
  BY <1>2, <1>3, <1>4, SameConsumer DEF IInv
<1>6. \A q \in Producers : Owning(q)' =>
        (Wraps(q)' <=> Wraps(q)) /\ NewWp(q)' = NewWp(q)
  BY <1>2, SameRegion DEF KeptOwners
<1>7. \A q \in Producers \ {p} : (Owning(q)' <=> Owning(q)) /\ pc'[q] = pc[q]
  BY DEF OthersRest, Owning
<1>8. RingIsSound'
  <2>1. ASSUME First <= wp.off
        PROVE  warp_end' = OffsetMax /\ ~wp'.lock /\ \A q \in Producers : ~Wraps(q)'
    <3>1. warp_end = OffsetMax /\ ~wp.lock /\ \A q \in Producers : ~Wraps(q)
      BY <2>1 DEF IInv, RingIsSound
    <3>2. warp_end' = warp_end
      <4>1. ~(wp.off < First)
        BY <2>1, Numbers DEF IInv
      <4> QED BY <4>1
    <3>3. \A q \in Producers : ~Wraps(q)'
      BY <1>2, <1>6, <3>1 DEF Wraps, KeptOwners
    <3> QED BY <3>1, <3>2, <3>3
  <2>2. InFront(First) => InFront(First)'
    <3>1. First \in Int
      BY Numbers DEF IInv
    <3> QED BY <1>3, <3>1 DEF InFront
  <2>3. ASSUME wp'.lock
        PROVE  \E q \in Producers : Wraps(q)' /\ pc'[q] \in {"settle", "wrap", "unlock"}
    <3>1. CASE Owning(p)' /\ NewWp(p).lock /\ pc'[p] = "unlock"
      BY <1>6, <3>1 DEF Wraps
    <3>2. CASE \E q \in Producers \ {p} : Wraps(q) /\ pc[q] \in {"settle", "wrap", "unlock"}
      BY <1>6, <1>7, <3>2 DEF Wraps
    <3> QED BY <2>3, <3>1, <3>2
  <2> QED BY <1>3, <2>1, <2>2, <2>3 DEF IInv, RingIsSound
<1> QED BY <1>1, <1>4, <1>5, <1>8 DEF IInv

LEMMA WrapKeeps ==
  ASSUME IInv, NEW p \in Producers, Wrap(p)
  PROVE  IInv'
<1>1. /\ pc[p] = "wrap" /\ pc' = [pc EXCEPT ![p] = "unlock"]
      /\ warp_end' = Seen(p)
      /\ flag' = flag /\ w' = w /\ reserve' = reserve /\ UNCHANGED <<buf, wp, rp, cvars>>
  BY DEF Wrap, Goto, shared, Seen
<1>2. /\ flag[p] = TRUE /\ w[p].size \in Sizes /\ reserve[p].pos = Seen(p)
      /\ Owning(p) /\ NewWp(p).lock /\ Wraps(p) /\ OwnerIsSound(p)
      /\ warp_end = OffsetMax /\ wp = NewWp(p) /\ wp.off < First
      /\ Seen(p) \in Nat /\ Seen(p) < Cap
  BY <1>1, InCall, Numbers DEF IInv, CallIsSound, OwnerIsSound, Owning, Wraps
<1>3. /\ pc' \in [Producers -> Points] /\ w' \in [Producers -> Calls]
      /\ reserve' \in [Producers -> Marks] /\ flag' \in [Producers -> BOOLEAN]
      /\ pc'[p] = "unlock" /\ OthersRest(p)
  BY <1>1, Updates DEF IInv, TypeOK, Points, OthersRest
<1>4. /\ wp' \in Words /\ buf' \in [Offset -> Int \X Int \X Int] /\ warp_end' \in AnyOffset
  BY <1>1, <1>2 DEF IInv, TypeOK, AnyOffset, Seen, Calls, Words, Offset
<1>5. Owning(p)' /\ SameOwners
  BY <1>1, <1>2, <1>3 DEF SameOwners, OthersRest, Owning
<1>6. \A q \in Producers : (Wraps(q)' <=> Wraps(q)) /\ Region(q)' = Region(q)
                           /\ (Wraps(q) => Seen(q)' = Seen(q))
  BY <1>5, SameRegion DEF SameOwners, Wraps
<1>7. \A x \in Int : InFront(x)' <=> InFront(x)
  <2>1. ASSUME NEW x \in Int
        PROVE  InFront(x)' <=> InFront(x)
    <3>1. (\A q \in Producers : Wraps(q) => x <= Seen(q))'
            <=> \A q \in Producers : Wraps(q) => x <= Seen(q)
      BY <1>6
    <3>2. (\A q \in Producers : Wraps(q) => x <= Seen(q)) => x <= Seen(p)
      BY <1>2
    <3>3. x <= Cap => x <= OffsetMax
      BY Constants
    <3> QED BY <1>1, <1>2, <3>1, <3>2, <3>3 DEF InFront
  <2> QED BY <2>1
<1>8. First' = First /\ \A a, b \in Int : Spans(a, b)' <=> Spans(a, b)
  <2>1. First' = First
    BY <1>1 DEF First, cvars
  <2> QED BY <1>1, <1>7, <2>1, SameSpans
<1>9. CallIsSound(p)'
  <2>1. /\ NewWp(p)' = NewWp(p) /\ Start(p)' = Start(p) /\ End(p)' = End(p)
        /\ Seen(p)' = Seen(p) /\ Size(p)' = Size(p)
    BY <1>2, <1>5, SameRegion DEF SameOwners
  <2>2. Spans(Start(p), End(p))'
    <3>1. Spans(Start(p), End(p)) /\ Start(p) \in Int /\ End(p) \in Int
      BY <1>2, Numbers DEF OwnerIsSound, IInv
    <3> QED BY <1>8, <2>1, <3>1 DEF Spans, InFront
  <2>3. OwnerIsSound(p)'
    BY <1>1, <1>2, <1>3, <1>8, <2>1, <2>2 DEF OwnerIsSound
  <2> QED BY <1>1, <1>2, <1>3, <2>1, <2>3 DEF CallIsSound, TryIsSound
<1>10. ASSUME NEW q \in Producers \ {p}
       PROVE  CallIsSound(q)'
  <2>1. ~Wraps(q)
    BY <1>2, OneWraps
  <2> QED BY <1>1, <1>3, <1>8, <2>1, OtherCall DEF IInv, OthersRest
<1>11. BytesAreThere'
  <2>1. \A c \in Offset : c \in Int /\ c + 1 \in Int
    BY DEF Offset
  <2>2. \A c \in Offset : Spans(c, c + 1)' /\ (\A q \in Producers : c \notin Region(q)')
                            => buf[c] # Empty
    BY <1>6, <1>8, <2>1 DEF IInv, BytesAreThere
  <2>3. \A q \in Producers : pc'[q] = "push" => \A c \in Region(q)' : buf[c] # Empty
    BY <1>3, <1>6 DEF IInv, BytesAreThere, OthersRest
  <2> QED BY <1>1, <2>2, <2>3 DEF BytesAreThere
<1> QED BY <1>1, <1>2, <1>3, <1>4, <1>5, <1>7, <1>9, <1>10, <1>11, OwnerStep

LEMMA UnlockKeeps ==
  ASSUME IInv, NEW p \in Producers, Unlock(p)
  PROVE  IInv'
<1>1. /\ pc[p] = "unlock" /\ pc' = [pc EXCEPT ![p] = "fill"]
      /\ wp' = [NewWp(p) EXCEPT !.lock = FALSE] /\ warp_end' = warp_end
      /\ flag' = flag /\ w' = w /\ reserve' = reserve /\ UNCHANGED <<buf, rp, cvars>>
  BY DEF Unlock, Goto, shared
<1>2. /\ flag[p] = TRUE /\ w[p].size \in Sizes /\ reserve[p].pos = Seen(p)
      /\ Owning(p) /\ NewWp(p).lock /\ Wraps(p) /\ OwnerIsSound(p)
      /\ warp_end = Seen(p) /\ wp = NewWp(p) /\ wp.off < First
  BY <1>1, InCall DEF IInv, CallIsSound, OwnerIsSound, Owning, Wraps
<1>3. /\ pc' \in [Producers -> Points] /\ w' \in [Producers -> Calls]
      /\ reserve' \in [Producers -> Marks] /\ flag' \in [Producers -> BOOLEAN]
      /\ pc'[p] = "fill" /\ OthersRest(p)
  BY <1>1, Updates DEF IInv, TypeOK, Points, OthersRest
<1>4. /\ wp' \in Words /\ wp'.off = wp.off /\ wp'.cnt = wp.cnt /\ ~wp'.lock /\ wp.lock
  <2>1. wp \in Words
    BY Numbers DEF IInv
  <2>2. wp' = [wp EXCEPT !.lock = FALSE] /\ wp.lock
    BY <1>1, <1>2
  <2> QED BY <2>1, <2>2 DEF Words
<1>5. Owning(p)' /\ SameOwners
  BY <1>1, <1>2, <1>3 DEF SameOwners, OthersRest, Owning
<1>6. /\ \A x \in Int : InFront(x)' <=> InFront(x)
      /\ First' = First /\ \A a, b \in Int : Spans(a, b)' <=> Spans(a, b)
      /\ \A q \in Producers : Region(q)' = Region(q)
  <2>1. First' = First
    BY <1>1 DEF First, cvars
  <2>2. \A x \in Int : InFront(x)' <=> InFront(x)
    BY <1>1, <1>5, SameFront
  <2> QED BY <1>4, <1>5, <2>1, <2>2, SameSpans, SameRegion DEF SameOwners
<1>7. CallIsSound(p)'
  <2>1. /\ NewWp(p)' = NewWp(p) /\ Start(p)' = Start(p) /\ End(p)' = End(p)
        /\ Seen(p)' = Seen(p) /\ Size(p)' = Size(p)
    BY <1>2, <1>5, SameRegion DEF SameOwners
  <2>2. Spans(Start(p), End(p))'
    <3>1. Spans(Start(p), End(p)) /\ Start(p) \in Int /\ End(p) \in Int
      BY <1>2, Numbers DEF OwnerIsSound, IInv
    <3> QED BY <1>6, <2>1, <3>1 DEF Spans, InFront
  <2>3. OwnerIsSound(p)'
    BY <1>1, <1>2, <1>3, <1>4, <1>6, <2>1, <2>2 DEF OwnerIsSound
  <2> QED BY <1>1, <1>2, <1>3, <2>1, <2>3 DEF CallIsSound, TryIsSound
<1>8. ASSUME NEW q \in Producers \ {p}
      PROVE  CallIsSound(q)'
  <2>1. ~Wraps(q)
    BY <1>2, OneWraps
  <2>2. CallIsSound(q) /\ pc'[q] = pc[q] /\ w'[q] = w[q] /\ reserve'[q] = reserve[q]
        /\ flag'[q] = flag[q]
    BY <1>3 DEF IInv, OthersRest
  <2>3. OwnerIsSound(q)'
    BY <1>6, <2>1, <2>2, OtherOwner DEF IInv, CallIsSound
  <2>4. TryIsSound(q)'
    <3>1. pc[q] \in {"mark", "check", "cas"} => w[q].seen.cnt # wp'.cnt /\ ~w[q].seen.lock
      BY <1>4, <2>2 DEF CallIsSound, TryIsSound
    <3>2. pc[q] \in {"mark", "check", "cas"} => w[q].seen # wp'
      BY <3>1
    <3> QED BY <2>2, <3>1, <3>2 DEF TryIsSound
  <2>5. (Owning(q)' <=> Owning(q)) /\ Seen(q)' = Seen(q)
    BY <2>2 DEF Owning, Seen
  <2> QED BY <2>2, <2>3, <2>4, <2>5 DEF CallIsSound
<1>9. BytesAreThere'
  <2>1. \A c \in Offset : c \in Int /\ c + 1 \in Int
    BY DEF Offset
  <2>2. \A c \in Offset : Spans(c, c + 1)' /\ (\A q \in Producers : c \notin Region(q)')
                            => buf[c] # Empty
    BY <1>6, <2>1 DEF IInv, BytesAreThere
  <2>3. \A q \in Producers : pc'[q] = "push" => \A c \in Region(q)' : buf[c] # Empty
    BY <1>3, <1>6 DEF IInv, BytesAreThere, OthersRest
  <2> QED BY <1>1, <2>2, <2>3 DEF BytesAreThere
<1>10. buf' \in [Offset -> Int \X Int \X Int] /\ warp_end' \in AnyOffset
  BY <1>1 DEF IInv, TypeOK
<1> QED BY <1>1, <1>2, <1>3, <1>4, <1>5, <1>6, <1>7, <1>8, <1>9, <1>10, OwnerStep

LEMMA FillKeeps ==
  ASSUME IInv, NEW p \in Producers, Fill(p)
  PROVE  IInv'
<1>1. /\ pc[p] = "fill" /\ pc' = [pc EXCEPT ![p] = "push"]
      /\ buf' = [c \in Offset |->
                   IF c \in Region(p) THEN <<p, c - Start(p) + 1, w[p].size>> ELSE buf[c]]
      /\ flag' = flag /\ w' = w /\ reserve' = reserve
      /\ UNCHANGED <<wp, rp, warp_end, cvars>>
  BY DEF Fill, Goto, shared, Offset
<1>2. /\ flag[p] = TRUE /\ w[p].size \in Sizes /\ reserve[p].pos = Seen(p)
      /\ Owning(p) /\ OwnerIsSound(p)
  BY <1>1, InCall DEF IInv, CallIsSound, Owning
<1>3. /\ pc' \in [Producers -> Points] /\ w' \in [Producers -> Calls]
      /\ reserve' \in [Producers -> Marks] /\ flag' \in [Producers -> BOOLEAN]
      /\ pc'[p] = "push" /\ OthersRest(p)
  BY <1>1, Updates DEF IInv, TypeOK, Points, OthersRest
<1>4. Owning(p)' /\ SameOwners
  BY <1>1, <1>2, <1>3 DEF SameOwners, OthersRest, Owning
<1>5. /\ \A x \in Int : InFront(x)' <=> InFront(x)
      /\ First' = First /\ \A a, b \in Int : Spans(a, b)' <=> Spans(a, b)
      /\ \A q \in Producers : Region(q)' = Region(q)
  <2>1. First' = First
    BY <1>1 DEF First, cvars
  <2>2. \A x \in Int : InFront(x)' <=> InFront(x)
    BY <1>1, <1>4, SameFront
  <2>3. \A q \in Producers : Region(q)' = Region(q)
    BY <1>4, SameRegion DEF SameOwners
  <2> QED BY <1>1, <2>1, <2>2, <2>3, SameSpans
<1>6. CallIsSound(p)'
  <2>1. /\ NewWp(p)' = NewWp(p) /\ Start(p)' = Start(p) /\ End(p)' = End(p)
        /\ Seen(p)' = Seen(p) /\ Size(p)' = Size(p)
    BY <1>2, <1>4, SameRegion DEF SameOwners
  <2>2. Spans(Start(p), End(p))'
    <3>1. Spans(Start(p), End(p)) /\ Start(p) \in Int /\ End(p) \in Int
      BY <1>2, Numbers DEF OwnerIsSound, IInv
    <3> QED BY <1>5, <2>1, <3>1 DEF Spans, InFront
  <2>3. OwnerIsSound(p)'
    BY <1>1, <1>2, <1>3, <1>5, <2>1, <2>2 DEF OwnerIsSound
  <2> QED BY <1>1, <1>2, <1>3, <2>1, <2>3 DEF CallIsSound, TryIsSound
<1>7. ASSUME NEW q \in Producers \ {p}
      PROVE  CallIsSound(q)'
  BY <1>1, <1>3, <1>5, OtherCall DEF IInv, OthersRest
<1>8. /\ buf' \in [Offset -> Int \X Int \X Int]
      /\ \A c \in Offset \ Region(p) : buf'[c] = buf[c]
      /\ \A c \in Offset : c \in Region(p) => buf'[c] # Empty
  <2>1. p \in Int /\ p > 0 /\ Start(p) \in Int /\ w[p].size \in Int
    <3>1. p \in Int /\ p > 0
      BY Constants DEF Producers
    <3>2. Start(p) \in Int
      BY Numbers DEF IInv
    <3>3. w[p].size \in Int
      BY <1>2, Constants
    <3> QED BY <3>1, <3>2, <3>3
  <2>2. ASSUME NEW c \in Offset
        PROVE  /\ <<p, c - Start(p) + 1, w[p].size>> \in Int \X Int \X Int
               /\ <<p, c - Start(p) + 1, w[p].size>> # Empty
    <3>1. c - Start(p) + 1 \in Int
      BY <2>1 DEF Offset
    <3>2. <<p, c - Start(p) + 1, w[p].size>>[1] # Empty[1]
      BY <2>1 DEF Empty
    <3> QED BY <2>1, <3>1, <3>2
  <2>3. buf \in [Offset -> Int \X Int \X Int]
    BY DEF IInv, TypeOK
  <2> QED BY <1>1, <2>2, <2>3
<1>9. BytesAreThere'
  <2>1. \A c \in Offset : c \in Int /\ c + 1 \in Int
    BY DEF Offset
  <2>2. \A c \in Offset : Spans(c, c + 1)' /\ (\A q \in Producers : c \notin Region(q)')
                            => buf'[c] # Empty
    BY <1>5, <1>8, <2>1 DEF IInv, BytesAreThere
  <2>3. ASSUME NEW q \in Producers, pc'[q] = "push", NEW c \in Region(q)
        PROVE  buf'[c] # Empty
    <3>1. c \in Offset
      <4>1. Owning(q)
        BY <1>2, <1>3, <2>3 DEF OthersRest, Owning
      <4>2. End(q) <= Cap /\ Start(q) \in Nat /\ End(q) = Start(q) + w[q].size /\ w[q].size \in Nat
        BY <4>1, Numbers DEF IInv, CallIsSound, OwnerIsSound, Size
      <4>3. c \in Start(q)..Start(q) + w[q].size - 1
        BY <2>3, <4>1 DEF Region
      <4> QED BY <4>2, <4>3, Constants DEF Offset
    <3>2. CASE c \in Region(p)
      BY <1>8, <3>1, <3>2
    <3>3. CASE c \notin Region(p)
      <4>1. pc[q] = "push"
        BY <1>3, <2>3, <3>3 DEF OthersRest
      <4> QED BY <1>8, <3>1, <3>3, <4>1 DEF IInv, BytesAreThere
    <3> QED BY <3>2, <3>3
  <2> QED BY <1>5, <2>2, <2>3 DEF BytesAreThere
<1>10. /\ wp' \in Words /\ warp_end' \in AnyOffset
  BY <1>1 DEF IInv, TypeOK
<1>11. wp.lock => \E q \in Producers \ {p} :
                    Wraps(q) /\ pc[q] \in {"settle", "wrap", "unlock"}
  BY <1>1 DEF IInv, RingIsSound
<1> QED BY <1>1, <1>2, <1>3, <1>4, <1>5, <1>6, <1>7, <1>8, <1>9, <1>10, <1>11, OwnerStep

(* A region given up leaves the tail where it was.                         *)
GivesUp(p) ==
  /\ Owning(p) /\ ~Owning(p)' /\ Region(p)' = {} /\ First' = First
  /\ \A q \in Producers \ {p} : Wraps(q)' <=> Wraps(q)
  /\ \A q \in Producers \ {p} : Region(q)' = Region(q)
  /\ \A q \in Producers \ {p} : Wraps(q) => Seen(q)' = Seen(q)
  /\ \A x \in Int : InFront(x)' <=> InFront(x)

LEMMA PushFront ==
  ASSUME IInv, NEW p \in Producers, Push(p)
  PROVE  GivesUp(p)
<1>1. /\ pc[p] = "push" /\ pc' = [pc EXCEPT ![p] = "open"]
      /\ reserve' = [reserve EXCEPT ![p] = Clear] /\ w' = [w EXCEPT ![p] = NoCall]
      /\ flag' = flag /\ UNCHANGED <<buf, wp, rp, warp_end, cvars>>
  BY DEF Push, Goto, shared
<1>2. flag[p] = TRUE /\ Owning(p) /\ OwnerIsSound(p)
  BY <1>1, InCall DEF IInv, CallIsSound, Owning
<1>3. /\ pc' \in [Producers -> Points] /\ w' \in [Producers -> Calls]
      /\ reserve' \in [Producers -> Marks] /\ flag' \in [Producers -> BOOLEAN]
      /\ pc'[p] = "open" /\ OthersRest(p)
  BY <1>1, Updates, IdleValues DEF IInv, TypeOK, Points, OthersRest
<1>4. ~Owning(p)' /\ Region(p)' = {}
  BY <1>3 DEF Owning, Region
<1>5. \A q \in Producers \ {p} :
        /\ Wraps(q)' <=> Wraps(q)
        /\ Region(q)' = Region(q)
        /\ Wraps(q) => Seen(q)' = Seen(q)
  <2>1. \A q \in Producers \ {p} : (Owning(q)' <=> Owning(q)) /\ w'[q] = w[q]
    BY <1>3 DEF OthersRest, Owning
  <2> QED BY <2>1, SameRegion DEF Wraps
<1>6. \A x \in Int : InFront(x)' <=> InFront(x)
  <2>1. ASSUME NEW x \in Int
        PROVE  InFront(x)' <=> InFront(x)
    <3>1. (\A q \in Producers : Wraps(q) => x <= Seen(q))'
            <=> \A q \in Producers \ {p} : Wraps(q) => x <= Seen(q)
      BY <1>4, <1>5 DEF Wraps
    <3>2. Wraps(p) => warp_end = Seen(p)
      BY <1>1, <1>2 DEF Wraps, OwnerIsSound
    <3> QED BY <1>1, <3>1, <3>2 DEF InFront
  <2> QED BY <2>1
<1>7. First' = First
  BY <1>1 DEF First, cvars
<1> QED BY <1>2, <1>4, <1>5, <1>6, <1>7 DEF GivesUp

LEMMA PushKeeps ==
  ASSUME IInv, NEW p \in Producers, Push(p)
  PROVE  IInv'
<1>1. /\ pc[p] = "push" /\ pc' = [pc EXCEPT ![p] = "open"]
      /\ reserve' = [reserve EXCEPT ![p] = Clear] /\ w' = [w EXCEPT ![p] = NoCall]
      /\ flag' = flag /\ UNCHANGED <<buf, wp, rp, warp_end, cvars>>
  BY DEF Push, Goto, shared
<1>2. flag[p] = TRUE /\ Owning(p) /\ OwnerIsSound(p)
  BY <1>1, InCall DEF IInv, CallIsSound, Owning
<1>3. /\ pc' \in [Producers -> Points] /\ w' \in [Producers -> Calls]
      /\ reserve' \in [Producers -> Marks] /\ flag' \in [Producers -> BOOLEAN]
      /\ pc'[p] = "open" /\ OthersRest(p)
  BY <1>1, Updates, IdleValues DEF IInv, TypeOK, Points, OthersRest
<1>4. ~Owning(p)' /\ Region(p)' = {}
  BY PushFront DEF GivesUp
<1>5. \A q \in Producers \ {p} :
        /\ Wraps(q)' <=> Wraps(q)
        /\ Region(q)' = Region(q)
        /\ Wraps(q) => Seen(q)' = Seen(q)
  BY PushFront DEF GivesUp
<1>6. \A x \in Int : InFront(x)' <=> InFront(x)
  BY PushFront DEF GivesUp
<1>7. First' = First /\ \A a, b \in Int : Spans(a, b)' <=> Spans(a, b)
  BY <1>1, <1>6, PushFront, SameSpans DEF GivesUp
<1>8. CallIsSound(p)'
  BY <1>1, <1>2, <1>3, <1>4 DEF CallIsSound, TryIsSound, OwnerIsSound
<1>9. ASSUME NEW q \in Producers \ {p}
      PROVE  CallIsSound(q)'
  BY <1>1, <1>3, <1>7, OtherCall DEF IInv, OthersRest
<1>10. BytesAreThere'
  <2>1. \A c \in Offset : c \in Int /\ c + 1 \in Int
    BY DEF Offset
  <2>2. ASSUME NEW c \in Offset, Spans(c, c + 1)', \A q \in Producers : c \notin Region(q)'
        PROVE  buf[c] # Empty
    <3>1. CASE c \in Region(p)
      BY <1>1, <3>1 DEF IInv, BytesAreThere
    <3>2. CASE c \notin Region(p)
      <4>1. Spans(c, c + 1) /\ \A q \in Producers : c \notin Region(q)
        BY <1>5, <1>7, <2>1, <2>2, <3>2
      <4> QED BY <4>1 DEF IInv, BytesAreThere
    <3> QED BY <3>1, <3>2
  <2>3. \A q \in Producers : pc'[q] = "push" => \A c \in Region(q)' : buf[c] # Empty
    BY <1>3, <1>5 DEF IInv, BytesAreThere, OthersRest
  <2> QED BY <1>1, <2>2, <2>3 DEF BytesAreThere
<1>11. /\ buf' \in [Offset -> Int \X Int \X Int] /\ wp' \in Words /\ warp_end' \in AnyOffset
  BY <1>1 DEF IInv, TypeOK
<1>12. wp.lock => \E q \in Producers \ {p} :
                    Wraps(q) /\ pc[q] \in {"settle", "wrap", "unlock"}
  BY <1>1 DEF IInv, RingIsSound
<1> QED BY <1>1, <1>2, <1>3, <1>4, <1>6, <1>8, <1>9, <1>10, <1>11, <1>12, OwnerStep

-----------------------------------------------------------------------------
(* The swap.                                                               *)

(* What a producer that swaps knows: it saw wp, and there is room.  The    *)
(* new word lies ahead in the same lap; or the lap ends with the storage;  *)
(* or it wraps, and the consumer is far enough.                            *)
LEMMA SwapRoom ==
  ASSUME IInv, NEW p \in Producers, CasOk(p)
  PROVE  LET s == wp.off
             n == w[p].size
         IN  /\ w[p].seen = wp /\ s \in Nat /\ s < Cap /\ n \in Nat /\ n > 0 /\ n \in Sizes
             /\ ~wp.lock /\ wp' = Target(wp, n) /\ wp' \in Words
             /\ s < rp => s + n < rp
             /\ s + n < Cap => wp'.off = s + n /\ wp'.cnt = wp.cnt /\ ~wp'.lock
             /\ s + n = Cap => wp'.off = 0 /\ ~wp'.lock /\ 0 < rp /\ rp <= s
             /\ s + n > Cap => wp'.off = n /\ wp'.lock /\ n < rp /\ rp <= s
             /\ s + n >= Cap => cpc # "rewind" /\ wp'.cnt = (wp.cnt + 1) % WrapMod
<1> DEFINE s == wp.off
           n == w[p].size
<1>1. /\ w[p].seen = wp /\ wp' = Target(wp, n) /\ pc[p] = "cas"
  BY DEF CasOk, Goto, NewWp
<1>2. n \in Nat /\ n > 0 /\ n \in Sizes
  BY <1>1, InCall
<1>3. ~wp.lock /\ ~NoRoom(wp, n)
  BY <1>1 DEF IInv, CallIsSound, TryIsSound
<1>4. /\ s \in Nat /\ s < Cap /\ wp \in Words /\ rp \in Nat /\ rp < Cap /\ Cap \in Nat
  BY Numbers, Constants DEF IInv
<1>5. /\ s + n < Cap => /\ Target(wp, n).off = s + n /\ Target(wp, n).cnt = wp.cnt
                        /\ Target(wp, n).lock = wp.lock /\ Target(wp, n) \in Words
      /\ s + n = Cap => /\ Target(wp, n).off = 0 /\ ~Target(wp, n).lock
                        /\ Target(wp, n).cnt = (wp.cnt + 1) % WrapMod
                        /\ Target(wp, n) \in Words
      /\ s + n > Cap => /\ Target(wp, n).off = n /\ Target(wp, n).lock
                        /\ Target(wp, n).cnt = (wp.cnt + 1) % WrapMod
                        /\ n \in Offset => Target(wp, n) \in Words
  BY <1>2, <1>4, Targets
<1>6. cpc = "rewind" => wp.off < rp
  BY DEF IInv, ReadIsSound
<1>7. /\ s < rp => s + n < rp
      /\ s + n >= Cap => Target(wp, n).off < rp
  <2>1. /\ ~(s < rp /\ s + n >= rp) /\ ~(s + n >= Cap /\ Target(wp, n).off >= rp)
    BY <1>3 DEF NoRoom
  <2>2. s + n >= Cap => Target(wp, n).off \in Nat
    BY <1>2, <1>4, <1>5
  <2> QED BY <1>2, <1>4, <2>1, <2>2
<1>8. s + n >= Cap => rp <= s /\ cpc # "rewind"
  BY <1>2, <1>4, <1>6, <1>7
<1>9. s + n > Cap => n \in Offset
  BY <1>2, <1>4, <1>5, <1>7 DEF Offset
<1> HIDE DEF s, n
<1>10. CASE s + n < Cap
  BY <1>1, <1>2, <1>3, <1>4, <1>5, <1>7, <1>10 DEF s, n
<1>11. CASE s + n = Cap
  BY <1>1, <1>2, <1>3, <1>4, <1>5, <1>7, <1>8, <1>11 DEF s, n
<1>12. CASE s + n > Cap
  BY <1>1, <1>2, <1>3, <1>4, <1>5, <1>7, <1>8, <1>9, <1>12 DEF s, n
<1> QED BY <1>2, <1>4, <1>10, <1>11, <1>12 DEF s, n

(* The region a swap gains is the part between the old word and the new    *)
(* one; the rest of the ring stays as it was.                              *)
LEMMA SwapGains ==
  ASSUME IInv, NEW p \in Producers, CasOk(p)
  PROVE  /\ ~Owning(p) /\ Owning(p)' /\ pc'[p] = "settle" /\ First' = First
         /\ pc' \in [Producers -> Points]
         /\ \A q \in Producers \ {p} : pc'[q] = pc[q] /\ (Owning(q)' <=> Owning(q))
         /\ NewWp(p)' = wp' /\ (Wraps(p)' <=> wp'.lock)
         /\ Seen(p)' = wp.off /\ Size(p)' = w[p].size
         /\ Start(p)' = IF wp'.lock THEN 0 ELSE wp.off
         /\ End(p)' = Start(p)' + w[p].size
         /\ UNCHANGED <<buf, rp, warp_end, flag, reserve, w, cvars>>
<1>1. /\ pc[p] = "cas" /\ pc' = [pc EXCEPT ![p] = "settle"]
      /\ wp' = NewWp(p) /\ w[p].seen = wp
      /\ UNCHANGED <<buf, rp, warp_end, flag, reserve, w, cvars>>
  BY DEF CasOk, Goto
<1>2. /\ pc' \in [Producers -> Points] /\ pc'[p] = "settle"
      /\ \A q \in Producers \ {p} : pc'[q] = pc[q]
  BY <1>1, Updates DEF IInv, TypeOK, Points
<1>3. ~Owning(p) /\ Owning(p)' /\ \A q \in Producers \ {p} : Owning(q)' <=> Owning(q)
  BY <1>1, <1>2 DEF Owning
<1>4. NewWp(p)' = wp' /\ Seen(p)' = wp.off /\ Size(p)' = w[p].size
  BY <1>1 DEF NewWp, Seen, Size
<1>5. Wraps(p)' <=> wp'.lock
  BY <1>3, <1>4 DEF Wraps
<1>6. Start(p)' = IF wp'.lock THEN 0 ELSE wp.off
  BY <1>4 DEF Start, Seen
<1>7. End(p)' = Start(p)' + w[p].size
  BY <1>4 DEF End
<1>8. First' = First
  BY <1>1 DEF First, cvars
<1> QED BY <1>1, <1>2, <1>3, <1>4, <1>5, <1>6, <1>7, <1>8

(* The others keep their regions over a swap.                              *)
LEMMA SwapOthers ==
  ASSUME IInv, NEW p \in Producers, CasOk(p)
  PROVE  /\ \A q \in Producers \ {p} :
              /\ (Wraps(q)' <=> Wraps(q)) /\ Region(q)' = Region(q)
              /\ Seen(q)' = Seen(q) /\ Size(q)' = Size(q) /\ NewWp(q)' = NewWp(q)
              /\ Start(q)' = Start(q) /\ End(q)' = End(q)
         /\ \A x \in Int : InFront(x)' <=> InFront(x) /\ (wp'.lock => x <= wp.off)
<1>1. \A q \in Producers \ {p} : (Owning(q)' <=> Owning(q)) /\ w'[q] = w[q]
  BY SwapGains
<1>2. ASSUME NEW q \in Producers \ {p}
      PROVE  /\ (Wraps(q)' <=> Wraps(q)) /\ Region(q)' = Region(q)
             /\ Seen(q)' = Seen(q) /\ Size(q)' = Size(q) /\ NewWp(q)' = NewWp(q)
             /\ Start(q)' = Start(q) /\ End(q)' = End(q)
  BY <1>1 DEF Wraps, Region, Seen, Size, NewWp, Start, End
<1>3. ~Wraps(p) /\ (Wraps(p)' <=> wp'.lock) /\ Seen(p)' = wp.off /\ warp_end' = warp_end
  BY SwapGains DEF Wraps
<1>4. ASSUME NEW x \in Int
      PROVE  InFront(x)' <=> InFront(x) /\ (wp'.lock => x <= wp.off)
  <2>1. (\A q \in Producers : Wraps(q) => x <= Seen(q))'
          <=> /\ \A q \in Producers : Wraps(q) => x <= Seen(q)
              /\ wp'.lock => x <= wp.off
    BY <1>2, <1>3
  <2> QED BY <1>3, <2>1 DEF InFront
<1> QED BY <1>2, <1>4

LEMMA SwapSpans ==
  ASSUME IInv, NEW p \in Producers, CasOk(p)
  PROVE  /\ End(p)' <= Cap
         /\ Spans(Start(p), End(p))'
         /\ \A a, b \in Int : Spans(a, b) => Spans(a, b)'
         /\ \A a, b \in Int : Spans(a, b) => b <= Start(p)' \/ End(p)' <= a
         /\ \A c \in Offset : Spans(c, c + 1)' =>
              Spans(c, c + 1) \/ c \in Start(p)'..Start(p)' + w[p].size - 1
<1> DEFINE s == wp.off
           n == w[p].size
           v == wp'.off
           lo == Start(p)'
           hi == End(p)'
           held == IF First <= v THEN First <= lo /\ hi <= v
                   ELSE (First <= lo /\ InFront(hi) /\ (wp'.lock => hi <= s)) \/ hi <= v
<1>1. /\ s \in Nat /\ s < Cap /\ n \in Nat /\ n > 0 /\ Cap \in Nat
      /\ First \in Nat /\ First < Cap /\ rp \in Nat /\ rp < Cap
      /\ s < rp => s + n < rp
      /\ s + n < Cap => v = s + n /\ ~wp'.lock
      /\ s + n = Cap => v = 0 /\ ~wp'.lock /\ 0 < rp /\ rp <= s
      /\ s + n > Cap => v = n /\ wp'.lock /\ n < rp /\ rp <= s
      /\ s + n >= Cap => cpc # "rewind"
  BY SwapRoom, Numbers, Constants DEF IInv
<1>2. lo = (IF wp'.lock THEN 0 ELSE s) /\ hi = lo + n /\ First' = First
  BY SwapGains
<1>3. \A x \in Int : InFront(x)' <=> InFront(x) /\ (wp'.lock => x <= s)
  BY SwapOthers
<1>4. s < First => First = rp
  BY <1>1 DEF First
<1>5. s + n >= Cap => First = rp /\ First <= s
  BY <1>1 DEF First
<1>6. First <= s => warp_end = OffsetMax /\ \A q \in Producers : ~Wraps(q)
  BY DEF IInv, RingIsSound
<1>7. First <= s => \A x \in Int : InFront(x) <=> x <= Cap
  <2>1. First <= s => \A x \in Int : x <= Cap => x <= warp_end
    BY <1>6, Constants
  <2> QED BY <1>6, <2>1 DEF InFront
<1>8. \A a, b \in Int : Spans(a, b)' <=>
        IF First <= v THEN First <= a /\ b <= v
        ELSE (First <= a /\ InFront(b) /\ (wp'.lock => b <= s)) \/ b <= v
  BY <1>2, <1>3 DEF Spans
<1>9. \A a, b \in Int : Spans(a, b) <=>
        IF First <= s THEN First <= a /\ b <= s
        ELSE (First <= a /\ InFront(b)) \/ b <= s
  BY DEF Spans
<1>10. lo \in Int /\ hi \in Int /\ \A c \in Offset : c \in Nat /\ c + 1 \in Int
  BY <1>1, <1>2 DEF Offset
<1>14. held => Spans(Start(p), End(p))'
  <2>1. InFront(End(p))' <=> InFront(hi) /\ (wp'.lock => hi <= s)
    BY <1>3, <1>10 DEF InFront
  <2> QED BY <1>2, <2>1 DEF Spans
<1> HIDE DEF s, n, v, lo, hi
<1>11. CASE s + n < Cap
  <2>1. lo = s /\ hi = s + n /\ v = s + n /\ ~wp'.lock
    BY <1>1, <1>2, <1>11
  <2>2. s < First => v < First
    BY <1>1, <1>4, <2>1
  <2>3. hi <= Cap /\ held
    <3>1. CASE First <= s
      BY <1>1, <1>8, <1>10, <1>11, <2>1, <3>1
    <3>2. CASE s < First
      BY <1>1, <1>8, <1>10, <1>11, <2>1, <2>2, <3>2
    <3> QED BY <1>1, <3>1, <3>2
  <2>4. ASSUME NEW a \in Int, NEW b \in Int, Spans(a, b)
        PROVE  Spans(a, b)' /\ (b <= lo \/ hi <= a)
    <3>1. CASE First <= s
      BY <1>1, <1>8, <1>9, <2>1, <2>4, <3>1
    <3>2. CASE s < First
      BY <1>1, <1>8, <1>9, <2>1, <2>2, <2>4, <3>2
    <3> QED BY <1>1, <3>1, <3>2
  <2>5. ASSUME NEW c \in Offset, Spans(c, c + 1)'
        PROVE  Spans(c, c + 1) \/ c \in lo..lo + n - 1
    <3>1. CASE First <= s
      BY <1>1, <1>8, <1>9, <1>10, <2>1, <2>5, <3>1
    <3>2. CASE s < First
      BY <1>1, <1>8, <1>9, <1>10, <2>1, <2>2, <2>5, <3>2
    <3> QED BY <1>1, <3>1, <3>2
  <2> QED BY <1>14, <2>3, <2>4, <2>5 DEF lo, hi, n
<1>12. CASE s + n = Cap
  <2>1. lo = s /\ hi = Cap /\ v = 0 /\ ~wp'.lock /\ v < First /\ First <= s
    BY <1>1, <1>2, <1>5, <1>12
  <2>2. \A x \in Int : InFront(x) <=> x <= Cap
    BY <1>7, <2>1
  <2>3. hi <= Cap /\ held
    BY <1>1, <1>8, <1>10, <2>1, <2>2
  <2>4. ASSUME NEW a \in Int, NEW b \in Int, Spans(a, b)
        PROVE  Spans(a, b)' /\ (b <= lo \/ hi <= a)
    BY <1>1, <1>8, <1>9, <2>1, <2>2, <2>4
  <2>5. ASSUME NEW c \in Offset, Spans(c, c + 1)'
        PROVE  Spans(c, c + 1) \/ c \in lo..lo + n - 1
    BY <1>1, <1>8, <1>9, <1>10, <1>12, <2>1, <2>2, <2>5
  <2> QED BY <1>14, <2>3, <2>4, <2>5 DEF lo, hi, n
<1>13. CASE s + n > Cap
  <2>1. lo = 0 /\ hi = n /\ v = n /\ wp'.lock /\ v < First /\ First <= s
    BY <1>1, <1>2, <1>5, <1>13
  <2>2. \A x \in Int : InFront(x) <=> x <= Cap
    BY <1>7, <2>1
  <2>3. hi <= Cap /\ held
    BY <1>1, <1>8, <1>10, <2>1, <2>2
  <2>4. ASSUME NEW a \in Int, NEW b \in Int, Spans(a, b)
        PROVE  Spans(a, b)' /\ (b <= lo \/ hi <= a)
    BY <1>1, <1>8, <1>9, <2>1, <2>2, <2>4
  <2>5. ASSUME NEW c \in Offset, Spans(c, c + 1)'
        PROVE  Spans(c, c + 1) \/ c \in lo..lo + n - 1
    BY <1>1, <1>8, <1>9, <1>10, <1>13, <2>1, <2>2, <2>5
  <2> QED BY <1>14, <2>3, <2>4, <2>5 DEF lo, hi, n
<1> QED BY <1>1, <1>11, <1>12, <1>13

(* A call that saw an older word never sees it again: the offset only      *)
(* grows within a lap, and the laps are told apart by their count.         *)
LEMMA SwapOutdates ==
  ASSUME IInv, NEW p \in Producers, CasOk(p), NEW q \in Producers \ {p}
  PROVE  TryIsSound(q)'
<1> DEFINE n == w[p].size
<1>1. /\ wp.off \in Nat /\ n \in Nat /\ n > 0 /\ Cap \in Nat /\ wp \in Words /\ wp' \in Words
      /\ w[p].seen = wp
      /\ wp.off + n < Cap => wp'.off = wp.off + n /\ wp'.cnt = wp.cnt /\ ~wp'.lock
      /\ wp.off + n >= Cap => wp'.cnt = (wp.cnt + 1) % WrapMod
  BY SwapRoom, Constants, Numbers DEF IInv
<1>2. pc'[q] = pc[q] /\ w' = w
  BY SwapGains
<1>3. SUFFICES ASSUME pc[q] \in {"mark", "check", "cas"}
               PROVE  TryIsSound(q)'
  BY <1>2 DEF TryIsSound
<1>4. /\ ~w[q].seen.lock /\ w[q].seen.off \in Nat
      /\ w[q].seen.cnt = wp.cnt => w[q].seen.off <= wp.off
  <2>1. w[q].seen.off \in Nat
    BY Numbers DEF IInv, Seen
  <2> QED BY <1>3, <2>1 DEF IInv, CallIsSound, TryIsSound
<1> HIDE DEF n
<1>5. CASE wp.off + n < Cap
  <2>1. w[q].seen.cnt = wp'.cnt => w[q].seen.off < wp'.off /\ ~wp'.lock
    BY <1>1, <1>4, <1>5
  <2>2. w[q].seen # wp'
    BY <1>1, <1>4, <2>1
  <2>3. w[q].seen.cnt = wp'.cnt => w[q].seen.off <= wp'.off /\ ~wp'.lock
    BY <1>1, <1>4, <1>5, <2>1
  <2> QED BY <1>2, <1>4, <2>2, <2>3 DEF TryIsSound
<1>6. CASE wp.off + n >= Cap
  <2>1. w[q].seen.cnt # (w[p].seen.cnt + 1) % WrapMod
    BY <1>1, <1>3, <1>6 DEF CasOk, NobodyLapped, n
  <2>2. w[q].seen.cnt # wp'.cnt
    BY <1>1, <1>6, <2>1
  <2>3. w[q].seen # wp'
    BY <2>2
  <2> QED BY <1>2, <1>4, <2>2, <2>3 DEF TryIsSound
<1> QED BY <1>1, <1>5, <1>6

LEMMA CasOkKeeps ==
  ASSUME IInv, NEW p \in Producers, CasOk(p)
  PROVE  IInv'
<1> DEFINE s == wp.off
           n == w[p].size
<1>1. /\ s \in Nat /\ s < Cap /\ n \in Nat /\ n > 0 /\ n \in Sizes /\ Cap \in Nat
      /\ First \in Nat /\ First < Cap /\ rp \in Nat /\ rp < Cap
      /\ w[p].seen = wp /\ ~wp.lock /\ wp' \in Words /\ wp' = Target(wp, n)
      /\ s < rp => s + n < rp
      /\ s + n < Cap => wp'.off = s + n /\ ~wp'.lock
      /\ s + n = Cap => wp'.off = 0 /\ ~wp'.lock /\ 0 < rp /\ rp <= s
      /\ s + n > Cap => wp'.off = n /\ wp'.lock /\ n < rp /\ rp <= s
      /\ s + n >= Cap => cpc # "rewind"
  BY SwapRoom, Numbers, Constants DEF IInv
<1>2. /\ ~Owning(p) /\ Owning(p)' /\ pc'[p] = "settle" /\ First' = First
      /\ pc' \in [Producers -> Points]
      /\ \A q \in Producers \ {p} : pc'[q] = pc[q] /\ (Owning(q)' <=> Owning(q))
      /\ NewWp(p)' = wp' /\ (Wraps(p)' <=> wp'.lock)
      /\ Seen(p)' = s /\ Size(p)' = n
      /\ Start(p)' = IF wp'.lock THEN 0 ELSE s
      /\ End(p)' = Start(p)' + n
      /\ UNCHANGED <<buf, rp, warp_end, flag, reserve, w, cvars>>
  BY SwapGains
<1>3. /\ \A q \in Producers \ {p} :
              /\ (Wraps(q)' <=> Wraps(q)) /\ Region(q)' = Region(q)
              /\ Seen(q)' = Seen(q) /\ Size(q)' = Size(q) /\ NewWp(q)' = NewWp(q)
              /\ Start(q)' = Start(q) /\ End(q)' = End(q)
      /\ \A x \in Int : InFront(x)' <=> InFront(x) /\ (wp'.lock => x <= s)
  BY SwapOthers
<1>4. /\ End(p)' <= Cap
      /\ Spans(Start(p), End(p))'
      /\ \A a, b \in Int : Spans(a, b) => Spans(a, b)'
      /\ \A a, b \in Int : Spans(a, b) => b <= Start(p)' \/ End(p)' <= a
      /\ \A c \in Offset : Spans(c, c + 1)' =>
           Spans(c, c + 1) \/ c \in Start(p)'..Start(p)' + n - 1
  BY SwapSpans
<1>5. First <= s => warp_end = OffsetMax /\ \A q \in Producers : ~Wraps(q)
  BY DEF IInv, RingIsSound
<1>6. s < First => s + n < Cap /\ wp'.off = s + n /\ ~wp'.lock /\ wp'.off < First
  BY <1>1 DEF First
<1>7. s + n >= Cap => wp'.off < First /\ First <= s
  BY <1>1 DEF First
<1> HIDE DEF s, n
<1>8. TypeOK'
  BY <1>1, <1>2 DEF IInv, TypeOK, cvars
<1>9. RingIsSound'
  <2>1. ASSUME First <= wp'.off
        PROVE  warp_end = OffsetMax /\ ~wp'.lock /\ \A q \in Producers : ~Wraps(q)'
    <3>1. s + n < Cap /\ First <= s
      BY <1>1, <1>6, <1>7, <2>1
    <3> QED BY <1>1, <1>2, <1>3, <1>5, <3>1
  <2>2. ASSUME wp'.off < First
        PROVE  InFront(First)'
    <3>1. InFront(First) /\ (wp'.lock => First <= s)
      <4>1. CASE s < First
        BY <1>6, <4>1 DEF IInv, RingIsSound, s
      <4>2. CASE First <= s
        BY <1>1, <1>5, <4>2, Constants DEF InFront
      <4> QED BY <1>1, <4>1, <4>2
    <3> QED BY <1>1, <1>2, <1>3, <3>1 DEF InFront
  <2>3. wp'.lock => \E q \in Producers : Wraps(q)' /\ pc'[q] \in {"settle", "wrap", "unlock"}
    BY <1>2
  <2> QED BY <1>2, <2>1, <2>2, <2>3 DEF RingIsSound
<1>10. RegionsApart'
  <2>1. ASSUME NEW q \in Producers \ {p}, Owning(q)
        PROVE  End(q)' <= Start(p)' \/ End(p)' <= Start(q)'
    <3>1. Spans(Start(q), End(q)) /\ Start(q) \in Int /\ End(q) \in Int
      BY <2>1, Numbers DEF IInv, CallIsSound, OwnerIsSound
    <3> QED BY <1>3, <1>4, <3>1
  <2>2. ASSUME NEW q \in Producers \ {p}, NEW r \in Producers \ {p},
               Owning(q), Owning(r), q # r
        PROVE  End(q)' <= Start(r)' \/ End(r)' <= Start(q)'
    BY <1>3, <2>2 DEF IInv, RegionsApart, Apart
  <2> QED BY <1>2, <2>1, <2>2 DEF RegionsApart, Apart
<1>11. BytesAreThere'
  <2>1. Region(p)' = Start(p)'..Start(p)' + n - 1
    BY <1>2 DEF Region, Size, n
  <2>2. ASSUME NEW c \in Offset, Spans(c, c + 1)', \A q \in Producers : c \notin Region(q)'
        PROVE  buf[c] # Empty
    <3>1. Spans(c, c + 1)
      BY <1>4, <2>1, <2>2
    <3>2. \A q \in Producers : c \notin Region(q)
      BY <1>2, <1>3, <2>2 DEF Region
    <3> QED BY <3>1, <3>2 DEF IInv, BytesAreThere
  <2>3. ASSUME NEW q \in Producers, pc'[q] = "push"
        PROVE  \A c \in Region(q)' : buf[c] # Empty
    <3>1. q # p
      BY <1>2, <2>3
    <3> QED BY <1>2, <1>3, <2>3, <3>1 DEF IInv, BytesAreThere
  <2> QED BY <1>2, <2>2, <2>3 DEF BytesAreThere
<1>12. UNCHANGED <<cpc, crp, cwp, ready, ci, want>> /\ (Scanning' <=> Scanning)
  BY <1>2 DEF cvars, Scanning
<1>13. ScanIsSound'
  <2>1. SUFFICES ASSUME Scanning
                 PROVE  ScanIsSound'
    BY <1>12 DEF ScanIsSound
  <2>2. /\ cwp # crp /\ crp <= ready
        /\ cpc = "decide" => ci = N + 1
        /\ cpc # "decide" => ci \in Producers
        /\ crp < cwp => IF First <= s THEN cwp <= s ELSE InFront(cwp)
        /\ cwp < crp => cwp <= s /\ s < crp /\ ~wp.lock
        /\ \A q \in Producers : q < ci /\ Owning(q) /\ Early(Seen(q)) => ready <= Seen(q)
    BY <2>1 DEF IInv, ScanIsSound, s
  <2>3. crp = First /\ crp \in Nat /\ cwp \in Nat /\ cwp < Cap
    <3>1. crp = rp /\ cpc # "rewind"
      BY <2>1 DEF IInv, ReadIsSound, Scanning
    <3> QED BY <3>1, Numbers DEF IInv, First
  <2>4. ~Early(s)
    BY <1>1, <2>2, <2>3 DEF Early
  <2>5. \A q \in Producers : q < ci /\ Owning(q)' /\ Early(Seen(q)') => ready <= Seen(q)'
    BY <1>2, <1>3, <2>2, <2>4
  <2>6. (\A q \in Producers : q < ci /\ Owning(q) /\ Early(Seen(q)) => ready <= Seen(q))'
    BY <1>12, <2>5 DEF Early
  <2>7. crp < cwp => IF First <= wp'.off THEN cwp <= wp'.off ELSE InFront(cwp)'
    <3>1. ASSUME crp < cwp, First <= s
          PROVE  IF First <= wp'.off THEN cwp <= wp'.off ELSE InFront(cwp)'
      <4>1. CASE s + n < Cap
        BY <1>1, <2>2, <2>3, <3>1, <4>1
      <4>2. CASE s + n >= Cap
        <5>1. InFront(cwp)
          BY <1>1, <1>5, <2>2, <2>3, <3>1, Constants DEF InFront
        <5>2. wp'.off < First /\ cwp <= s
          BY <1>7, <2>2, <3>1, <4>2
        <5>3. InFront(cwp)'
          BY <1>3, <1>12, <2>3, <5>1, <5>2 DEF InFront
        <5>4. ~(First <= wp'.off)
          BY <1>1, <4>2, <5>2
        <5> QED BY <5>3, <5>4
      <4> QED BY <1>1, <4>1, <4>2
    <3>2. ASSUME crp < cwp, s < First
          PROVE  IF First <= wp'.off THEN cwp <= wp'.off ELSE InFront(cwp)'
      <4>1. InFront(cwp) /\ ~wp'.lock
        BY <1>1, <1>6, <2>2, <3>2
      <4>2. InFront(cwp)'
        BY <1>3, <1>12, <2>3, <4>1 DEF InFront
      <4>3. ~(First <= wp'.off)
        BY <1>1, <1>6, <3>2
      <4> QED BY <4>2, <4>3
    <3> QED BY <1>1, <3>1, <3>2
  <2>8. cwp < crp => cwp <= wp'.off /\ wp'.off < crp /\ ~wp'.lock
    BY <1>1, <1>6, <2>2, <2>3
  <2>9. InFront(cwp)' <=> InFront(cwp') /\ (wp'.lock => cwp' <= s)
    BY <1>3, <1>12, <2>3 DEF InFront
  <2> QED BY <1>2, <1>12, <2>1, <2>2, <2>6, <2>7, <2>8 DEF ScanIsSound
<1>14. ReadIsSound'
  <2>1. /\ cpc # "idle" => crp = rp /\ want \in ReadSizes
        /\ ~Scanning => ci = 1 /\ ready = OffsetMax
        /\ cpc = "rewind" => s < rp
        /\ cpc \in {"copy", "release"} =>
             /\ Spans(crp, crp + want)
             /\ \A q \in Producers : Owning(q) => End(q) <= crp \/ crp + want <= Start(q)
    BY DEF IInv, ReadIsSound, s
  <2>2. crp \in Int /\ crp + want \in Int
    BY Numbers DEF IInv, TypeOK
  <2>3. cpc = "rewind" => wp'.off < rp
    BY <1>1, <2>1
  <2>4. ASSUME cpc \in {"copy", "release"}
        PROVE  \A q \in Producers : Owning(q)' => End(q)' <= crp \/ crp + want <= Start(q)'
    <3>1. End(p)' <= crp \/ crp + want <= Start(p)'
      BY <1>4, <2>1, <2>2, <2>4
    <3> QED BY <1>2, <1>3, <2>1, <2>4, <3>1
  <2>5. cpc \in {"copy", "release"} => Spans(crp, crp + want)'
    <3>1. \A a, b \in Int : a = crp /\ b = crp + want /\ Spans(a, b)' => Spans(crp, crp + want)'
      BY <1>12 DEF Spans, InFront
    <3> QED BY <1>4, <2>1, <2>2, <3>1
  <2> QED BY <1>2, <1>12, <2>1, <2>3, <2>4, <2>5 DEF ReadIsSound
<1>15. CallIsSound(p)'
  <2>1. pc[p] = "cas"
    BY DEF CasOk, Goto
  <2>2. flag[p] = TRUE /\ reserve[p].pos = s
    BY <1>1, <2>1, InCall DEF IInv, CallIsSound, Seen, s
  <2>3. OwnerIsSound(p)'
    <3>1. s + n > Cap \/ s + n <= Cap
      BY <1>1
    <3>2. wp'.lock => s + n > Cap
      BY <1>1
    <3>3. wp'.lock => First <= s /\ wp'.off < First /\ n <= wp'.off /\ warp_end = OffsetMax
      BY <1>1, <1>5, <1>7, <3>2
    <3> QED BY <1>2, <1>4, <3>2, <3>3 DEF OwnerIsSound
  <2>4. w'[p].size \in Sizes /\ flag'[p] = TRUE /\ reserve'[p].pos = Seen(p)'
    BY <1>1, <1>2, <2>2 DEF n
  <2> QED BY <1>2, <2>3, <2>4 DEF CallIsSound, TryIsSound
<1>16. ASSUME NEW q \in Producers \ {p}
       PROVE  CallIsSound(q)'
  <2>1. CallIsSound(q)
    BY DEF IInv
  <2>2. OwnerIsSound(q)'
    <3>1. SUFFICES ASSUME Owning(q)
                   PROVE  OwnerIsSound(q)'
      BY <1>2 DEF OwnerIsSound
    <3>2. Spans(Start(q), End(q)) /\ End(q) <= Cap /\ Start(q) \in Int /\ End(q) \in Int
      BY <2>1, <3>1, Numbers DEF CallIsSound, OwnerIsSound, IInv
    <3>3. Spans(Start(q), End(q))'
      <4>1. \A a, b \in Int : a = Start(q) /\ b = End(q) /\ Spans(a, b)'
                                => Spans(Start(q), End(q))'
        BY <1>3 DEF Spans, InFront
      <4> QED BY <1>4, <3>2, <4>1
    <3>4. CASE NewWp(q).lock
      <4>1. Wraps(q)
        BY <3>1, <3>4 DEF Wraps
      <4>2. s < First
        BY <1>1, <1>5, <4>1
      <4>3. wp'.off < First /\ s <= wp'.off /\ wp'.off = s + n
        BY <1>1, <1>6, <4>2
      <4>4. /\ Seen(q) + Size(q) > Cap /\ First <= Seen(q) /\ Size(q) <= s
            /\ pc[q] \in {"settle", "wrap"} => warp_end = OffsetMax
            /\ pc[q] \in {"unlock", "fill", "push"} => warp_end = Seen(q)
            /\ pc[q] \in {"settle", "wrap", "unlock"} => wp = NewWp(q)
        BY <2>1, <3>1, <3>4 DEF CallIsSound, OwnerIsSound, s
      <4>5. pc[q] \notin {"settle", "wrap", "unlock"}
        BY <1>1, <3>4, <4>4
      <4>6. Size(q) <= wp'.off
        <5>1. Size(q) \in Nat
          BY Numbers DEF IInv
        <5> QED BY <1>1, <4>3, <4>4, <5>1
      <4> QED BY <1>2, <1>3, <3>2, <3>3, <3>4, <4>3, <4>4, <4>5, <4>6 DEF OwnerIsSound
    <3>5. CASE ~NewWp(q).lock
      <4>1. pc[q] \notin {"wrap", "unlock"}
        BY <2>1, <3>1, <3>5 DEF CallIsSound, OwnerIsSound
      <4> QED BY <1>2, <1>3, <3>2, <3>3, <3>5, <4>1 DEF OwnerIsSound
    <3> QED BY <3>4, <3>5
  <2> QED BY <1>2, <1>3, <2>1, <2>2, SwapOutdates DEF CallIsSound
<1> QED BY <1>8, <1>9, <1>10, <1>11, <1>13, <1>14, <1>15, <1>16 DEF IInv

-----------------------------------------------------------------------------
(* The steps the consumer takes on its own locals.                         *)

(* Regions depend on what the producers know, not on the consumer.         *)
LEMMA StillOwners ==
  ASSUME UNCHANGED <<pc, w>>
  PROVE  \A q \in Producers :
           /\ (Owning(q)' <=> Owning(q)) /\ (Wraps(q)' <=> Wraps(q))
           /\ Seen(q)' = Seen(q) /\ Size(q)' = Size(q) /\ NewWp(q)' = NewWp(q)
           /\ Start(q)' = Start(q) /\ End(q)' = End(q) /\ Region(q)' = Region(q)
BY DEF Owning, Wraps, Seen, Size, NewWp, Start, End, Region

LEMMA LocalStep ==
  ASSUME IInv, UNCHANGED <<shared, pc, w>>, cpc # "rewind",
         cpc' \in {"idle", "load", "flag", "reserve", "decide", "copy", "release"},
         want' \in Nat, crp' \in Offset, cwp' \in Offset, ready' \in AnyOffset, ci' \in 1..N+1,
         cpc' \in {"flag", "reserve", "decide"} =>
           /\ cwp' # crp' /\ crp' <= ready'
           /\ cpc' = "decide" => ci' = N + 1
           /\ cpc' # "decide" => ci' \in Producers
           /\ crp' < cwp' => IF First <= wp.off THEN cwp' <= wp.off ELSE InFront(cwp')
           /\ cwp' < crp' => cwp' <= wp.off /\ wp.off < crp' /\ ~wp.lock
           /\ \A p \in Producers :
                p < ci' /\ Owning(p) /\ crp' <= Seen(p) /\ (crp' < cwp' => Seen(p) < cwp')
                  => ready' <= Seen(p),
         cpc' # "idle" => crp' = rp /\ want' \in ReadSizes,
         cpc' \notin {"flag", "reserve", "decide"} => ci' = 1 /\ ready' = OffsetMax,
         cpc' \in {"copy", "release"} =>
           /\ Spans(crp', crp' + want')
           /\ \A p \in Producers : Owning(p) => End(p) <= crp' \/ crp' + want' <= Start(p)
  PROVE  IInv'
<1>1. UNCHANGED <<buf, wp, rp, warp_end, flag, reserve, pc, w>>
  BY DEF shared
<1>2. First' = First
  BY <1>1 DEF First
<1>3. \A q \in Producers :
        /\ (Owning(q)' <=> Owning(q)) /\ (Wraps(q)' <=> Wraps(q))
        /\ Seen(q)' = Seen(q) /\ Size(q)' = Size(q) /\ NewWp(q)' = NewWp(q)
        /\ Start(q)' = Start(q) /\ End(q)' = End(q) /\ Region(q)' = Region(q)
  BY <1>1, StillOwners
<1>4. /\ \A x \in Int : InFront(x)' <=> InFront(x)
      /\ \A a, b \in Int : Spans(a, b)' <=> Spans(a, b)
  <2>1. SameOwners
    BY <1>1, <1>3 DEF SameOwners
  <2> QED BY <1>1, <1>2, <2>1, SameFront, SameSpans
<1>5. TypeOK'
  BY <1>1 DEF IInv, TypeOK
<1>6. RingIsSound'
  <2>1. InFront(First) => InFront(First)'
    BY <1>1, <1>2, <1>3 DEF InFront
  <2> QED BY <1>1, <1>2, <1>3, <2>1 DEF IInv, RingIsSound
<1>7. RegionsApart'
  BY <1>3 DEF IInv, RegionsApart, Apart
<1>8. BytesAreThere'
  <2>1. \A c \in Offset : c \in Int /\ c + 1 \in Int
    BY DEF Offset
  <2> QED BY <1>1, <1>3, <1>4, <2>1 DEF IInv, BytesAreThere
<1>9. ScanIsSound'
  <2>1. InFront(cwp') => InFront(cwp)'
    BY <1>1, <1>3 DEF InFront
  <2>2. cpc' \in {"flag", "reserve", "decide"} =>
          (\A p \in Producers : p < ci /\ Owning(p) /\ Early(Seen(p)) => ready <= Seen(p))'
    BY <1>3 DEF Early
  <2> QED BY <1>1, <1>2, <2>1, <2>2 DEF ScanIsSound, Scanning
<1>10. ReadIsSound'
  <2>1. Spans(crp', crp' + want') => Spans(crp, crp + want)'
    BY <1>1, <1>2, <1>3 DEF Spans, InFront
  <2>2. cpc' \in {"copy", "release"} =>
          (\A p \in Producers : Owning(p) => End(p) <= crp \/ crp + want <= Start(p))'
    BY <1>3
  <2> QED BY <1>1, <2>1, <2>2 DEF ReadIsSound, Scanning
<1>11. ASSUME NEW q \in Producers
       PROVE  CallIsSound(q)'
  BY <1>1, <1>2, <1>4, OtherCall DEF IInv
<1> QED BY <1>5, <1>6, <1>7, <1>8, <1>9, <1>10, <1>11 DEF IInv

(* What the consumer's locals are before such a step.                      *)
LEMMA Reading ==
  ASSUME IInv
  PROVE  /\ want \in Nat /\ crp \in Offset /\ cwp \in Offset /\ ready \in AnyOffset
         /\ ci \in 1..N+1 /\ rp \in Offset /\ wp.off \in Offset /\ 0 \in Offset /\ 1 \in 1..N+1
         /\ OffsetMax \in AnyOffset /\ 1 \in Producers
         /\ cpc # "idle" => crp = rp /\ want \in ReadSizes
         /\ cpc \notin {"flag", "reserve", "decide"} => ci = 1 /\ ready = OffsetMax
         /\ cpc # "rewind" => First = rp
         /\ cpc \in {"flag", "reserve", "decide"} => ScanIsSound /\ Scanning
<1>1. /\ want \in Nat /\ crp \in Offset /\ cwp \in Offset /\ ready \in AnyOffset
      /\ ci \in 1..N+1 /\ rp \in Offset
  BY DEF IInv, TypeOK
<1>2. wp.off \in Offset
  BY DEF IInv, TypeOK, Words
<1>3. 0 \in Offset /\ 1 \in 1..N+1 /\ OffsetMax \in AnyOffset /\ 1 \in Producers
  BY Constants DEF Offset, AnyOffset, Producers
<1>4. /\ cpc # "idle" => crp = rp /\ want \in ReadSizes
      /\ cpc \notin {"flag", "reserve", "decide"} => ci = 1 /\ ready = OffsetMax
      /\ cpc \in {"flag", "reserve", "decide"} => ScanIsSound /\ Scanning
  BY DEF IInv, ReadIsSound, Scanning
<1>5. cpc # "rewind" => First = rp
  BY DEF First
<1> QED BY <1>1, <1>2, <1>3, <1>4, <1>5

LEMMA ReadCallKeeps ==
  ASSUME IInv, NEW n \in ReadSizes, ReadCall(n)
  PROVE  IInv'
<1>1. n \in Nat
  BY Constants
<1>2. UNCHANGED <<shared, pc, w>>
  BY DEF ReadCall
<1>3. cpc = "idle" /\ cpc' = "load" /\ want' = n /\ crp' = rp /\ UNCHANGED <<cwp, ready, ci>>
  BY DEF ReadCall
<1> QED BY <1>1, <1>2, <1>3, Reading, LocalStep

LEMMA ReturnKeeps ==
  ASSUME IInv, cpc # "rewind", Return, UNCHANGED <<shared, pc, w>>
  PROVE  IInv'
<1>1. cpc' = "idle" /\ want' = 0 /\ crp' = 0 /\ cwp' = 0 /\ ready' = OffsetMax /\ ci' = 1
  BY DEF Return, Forget
<1> QED BY <1>1, Reading, LocalStep

LEMMA ReadLoadKeeps ==
  ASSUME IInv, ReadLoad
  PROVE  IInv'
<1>1. /\ cpc = "load" /\ cpc' = "flag" /\ cwp' = wp.off /\ wp.off # crp /\ ~wp.lock
      /\ UNCHANGED <<want, crp, ready, ci>>
  BY DEF ReadLoad
<1>2. UNCHANGED <<shared, pc, w>>
  BY DEF ReadLoad
<1>3. /\ crp = rp /\ want \in ReadSizes /\ First = rp /\ ci = 1 /\ ready = OffsetMax
      /\ want \in Nat /\ crp \in Offset /\ wp.off \in Offset /\ ready \in AnyOffset
      /\ 1 \in 1..N+1 /\ 1 \in Producers
  BY <1>1, Reading
<1>4. crp <= ready /\ \A p \in Producers : ~(p < 1)
  BY <1>3, Constants DEF Offset, Producers
<1>5. crp < wp.off => First <= wp.off
  BY <1>3 DEF Offset
<1>6. wp.off <= wp.off
  BY <1>3 DEF Offset
<1> QED BY <1>1, <1>2, <1>3, <1>4, <1>5, <1>6, LocalStep

LEMMA ScanRegisteredKeeps ==
  ASSUME IInv, ScanRegistered
  PROVE  IInv'
<1>1. cpc = "flag" /\ cpc' = "reserve" /\ UNCHANGED <<want, crp, cwp, ready, ci>>
  BY DEF ScanRegistered
<1>2. UNCHANGED <<shared, pc, w>>
  BY DEF ScanRegistered
<1>3. ScanIsSound /\ Scanning
  BY <1>1, Reading
<1>4. \A p \in Producers :
        p < ci /\ Owning(p) /\ crp <= Seen(p) /\ (crp < cwp => Seen(p) < cwp) => ready <= Seen(p)
  BY <1>3 DEF ScanIsSound, Early
<1>5. /\ cwp # crp /\ crp <= ready /\ ci \in Producers
      /\ crp < cwp => IF First <= wp.off THEN cwp <= wp.off ELSE InFront(cwp)
      /\ cwp < crp => cwp <= wp.off /\ wp.off < crp /\ ~wp.lock
  BY <1>1, <1>3 DEF ScanIsSound
<1> QED BY <1>1, <1>2, <1>4, <1>5, Reading, LocalStep

(* The scan moves on when the producer it looked at is accounted for.      *)
LEMMA ScanMovesOn ==
  ASSUME IInv, cpc \in {"flag", "reserve"}, NextProducer,
         UNCHANGED <<shared, pc, w, want, crp, cwp>>,
         ready' \in AnyOffset, ready' <= ready, crp <= ready',
         Owning(ci) /\ crp <= Seen(ci) => ready' <= Seen(ci)
  PROVE  IInv'
<1>1. /\ ci \in Producers /\ ci' = ci + 1 /\ cpc' \in {"flag", "decide"}
      /\ cpc' = "decide" => ci = N
      /\ cpc' = "flag" => ci # N
  <2>1. ci \in Producers
    BY DEF IInv, ScanIsSound, Scanning
  <2>2. cpc' = IF ci = N THEN "decide" ELSE "flag"
    BY DEF NextProducer
  <2>3. ci' = ci + 1
    BY DEF NextProducer
  <2> QED BY <2>1, <2>2, <2>3
<1>2. UNCHANGED <<shared, pc, w>> /\ UNCHANGED <<want, crp, cwp>>
  OBVIOUS
<1>3. /\ cpc' = "decide" => ci' = N + 1
      /\ cpc' # "decide" => ci' \in Producers
      /\ ci' \in 1..N+1
  BY <1>1, Constants DEF Producers
<1>4. ScanIsSound /\ Scanning
  BY Reading
<1>5. /\ cwp # crp
      /\ crp < cwp => IF First <= wp.off THEN cwp <= wp.off ELSE InFront(cwp)
      /\ cwp < crp => cwp <= wp.off /\ wp.off < crp /\ ~wp.lock
  BY <1>4 DEF ScanIsSound
<1>6. \A p \in Producers :
        p < ci /\ Owning(p) /\ crp <= Seen(p) /\ (crp < cwp => Seen(p) < cwp) => ready <= Seen(p)
  BY <1>4 DEF ScanIsSound, Early
<1>7. ASSUME NEW p \in Producers, p < ci', Owning(p), crp <= Seen(p),
             crp < cwp => Seen(p) < cwp
      PROVE  ready' <= Seen(p)
  <2>1. p < ci \/ p = ci
    BY <1>1, <1>7 DEF Producers
  <2>2. CASE p = ci
    BY <1>7, <2>2
  <2>3. CASE p < ci
    <3>1. ready <= Seen(p)
      BY <1>6, <1>7, <2>3
    <3>2. ready' \in Int /\ ready \in Int /\ Seen(p) \in Int
      BY Numbers, Constants DEF IInv, AnyOffset, Offset
    <3> QED BY <3>1, <3>2
  <2> QED BY <2>1, <2>2, <2>3
<1> QED BY <1>1, <1>2, <1>3, <1>5, <1>7, Reading, LocalStep

LEMMA ScanUnregisteredKeeps ==
  ASSUME IInv, ScanUnregistered
  PROVE  IInv'
<1>1. cpc = "flag" /\ NextProducer /\ ~flag[ci] /\ UNCHANGED <<want, crp, cwp, ready>>
  BY DEF ScanUnregistered
<1>2. UNCHANGED <<shared, pc, w, want, crp, cwp>>
  BY DEF ScanUnregistered
<1>3. ScanIsSound /\ Scanning /\ ready \in AnyOffset
  BY <1>1, Reading
<1>4. ci \in Producers /\ crp <= ready
  BY <1>1, <1>3 DEF ScanIsSound
<1>5. ~Owning(ci)
  BY <1>1, <1>4 DEF IInv, CallIsSound, Owning
<1>6. ready <= ready
  BY <1>3, Constants DEF AnyOffset, Offset
<1> QED BY <1>1, <1>2, <1>3, <1>4, <1>5, <1>6, ScanMovesOn

LEMMA ScanReserveKeeps ==
  ASSUME IInv, ScanReserve
  PROVE  IInv'
<1> DEFINE r == reserve[ci].pos
<1>1. /\ cpc = "reserve" /\ NextProducer
      /\ ready' = IF r >= crp /\ r < ready THEN r ELSE ready
  BY DEF ScanReserve
<1>2. UNCHANGED <<shared, pc, w, want, crp, cwp>>
  BY DEF ScanReserve
<1>3. ScanIsSound /\ Scanning /\ ready \in AnyOffset /\ crp \in Offset
  BY <1>1, Reading
<1>4. ci \in Producers /\ crp <= ready
  BY <1>1, <1>3 DEF ScanIsSound
<1>5. Owning(ci) => r = Seen(ci)
  BY <1>4 DEF IInv, CallIsSound
<1>6. r \in AnyOffset
  BY <1>4, Numbers DEF IInv, Marks
<1> HIDE DEF r
<1>7. r \in Nat /\ ready \in Nat /\ crp \in Nat
  BY <1>3, <1>6, Constants DEF AnyOffset, Offset
<1>8. /\ ready' \in AnyOffset /\ ready' <= ready /\ crp <= ready'
      /\ crp <= r => ready' <= r
  BY <1>1, <1>3, <1>4, <1>6, <1>7
<1> QED BY <1>1, <1>2, <1>5, <1>8, ScanMovesOn

(* The bytes the consumer is about to take are reserved, and nobody's.     *)
LEMMA ReadEnoughKeeps ==
  ASSUME IInv, ReadEnough
  PROVE  IInv'
<1> DEFINE e == crp + want
<1>1. /\ cpc = "decide" /\ cpc' = "copy" /\ ReadAvail >= want
      /\ cwp' = 0 /\ ready' = OffsetMax /\ ci' = 1 /\ UNCHANGED <<want, crp>>
  BY DEF ReadEnough, Forget
<1>2. UNCHANGED <<shared, pc, w>>
  BY DEF ReadEnough
<1>3. /\ want \in Nat /\ want > 0 /\ want \in ReadSizes /\ crp = rp /\ First = rp
      /\ crp \in Offset /\ 0 \in Offset /\ OffsetMax \in AnyOffset /\ 1 \in 1..N+1
      /\ ScanIsSound /\ Scanning
  BY <1>1, Reading, Constants
<1>4. /\ crp \in Nat /\ crp < Cap /\ cwp \in Nat /\ cwp < Cap /\ ready \in Nat /\ Cap \in Nat
      /\ warp_end \in Nat /\ warp_end <= OffsetMax /\ warp_end # Cap /\ OffsetMax = Cap + 1
      /\ wp.off \in Nat /\ wp.off < Cap /\ First \in Nat
  BY Numbers, Constants DEF IInv
<1>5. /\ cwp # crp /\ ci = N + 1
      /\ crp < cwp => IF First <= wp.off THEN cwp <= wp.off ELSE InFront(cwp)
      /\ cwp < crp => cwp <= wp.off /\ wp.off < crp
      /\ \A p \in Producers : p < ci /\ Owning(p) /\ Early(Seen(p)) => ready <= Seen(p)
  BY <1>1, <1>3 DEF ScanIsSound
<1>6. \A p \in Producers : Owning(p) /\ Early(Seen(p)) => ready <= Seen(p)
  <2>1. \A p \in Producers : p < ci
    BY <1>5, Constants DEF Producers
  <2> QED BY <1>5, <2>1
<1>7. e <= ready /\ e <= DataEnd /\ crp < e /\ e \in Nat
  <2>1. DataEnd \in Nat
    BY <1>4 DEF DataEnd
  <2> QED BY <1>1, <1>3, <1>4, <2>1 DEF ReadAvail
<1>8. \A p \in Producers : Owning(p) =>
        /\ Seen(p) \in Nat /\ Start(p) \in Nat /\ End(p) \in Nat /\ Start(p) < End(p)
        /\ Spans(Start(p), End(p))
        /\ Wraps(p) => /\ Start(p) = 0 /\ End(p) <= wp.off
                       /\ First <= Seen(p) /\ wp.off < First
        /\ ~Wraps(p) => Start(p) = Seen(p)
  <2>1. SUFFICES ASSUME NEW p \in Producers, Owning(p)
                 PROVE  /\ Seen(p) \in Nat /\ Start(p) \in Nat /\ End(p) \in Nat
                        /\ Start(p) < End(p) /\ Spans(Start(p), End(p))
                        /\ Wraps(p) => /\ Start(p) = 0 /\ End(p) <= wp.off
                                       /\ First <= Seen(p) /\ wp.off < First
                        /\ ~Wraps(p) => Start(p) = Seen(p)
    OBVIOUS
  <2>2. /\ Seen(p) \in Nat /\ Start(p) \in Nat /\ End(p) \in Nat /\ Size(p) \in Nat
        /\ End(p) = Start(p) + Size(p)
    BY Numbers DEF IInv
  <2>3. Size(p) > 0
    BY <2>1, InCall DEF Owning, Size
  <2>4. OwnerIsSound(p)
    BY DEF IInv, CallIsSound
  <2>5. Wraps(p) => Start(p) = 0
    BY DEF Wraps, Start
  <2>6. ~Wraps(p) => Start(p) = Seen(p)
    BY <2>1 DEF Wraps, Start, Seen
  <2>7. Wraps(p) => Size(p) <= wp.off /\ First <= Seen(p) /\ wp.off < First
    BY <2>4 DEF Wraps, OwnerIsSound
  <2>8. Wraps(p) => End(p) <= wp.off
    BY <1>4, <2>2, <2>5, <2>7
  <2> QED BY <2>1, <2>2, <2>3, <2>4, <2>5, <2>6, <2>7, <2>8 DEF OwnerIsSound
<1>9. DataEnd = IF cwp >= crp THEN cwp ELSE IF warp_end = OffsetMax THEN Cap ELSE warp_end
  BY <1>4 DEF DataEnd, Wrapped
<1> HIDE DEF e
<1>10. Spans(crp, e)
  <2>1. CASE crp < cwp
    <3>1. e <= cwp
      BY <1>4, <1>7, <1>9, <2>1
    <3>2. InFront(cwp) => InFront(e)
      BY <1>4, <1>7, <1>8, <3>1 DEF InFront, Wraps
    <3> QED BY <1>3, <1>4, <1>5, <1>7, <2>1, <3>1, <3>2 DEF Spans
  <2>2. CASE cwp < crp
    <3>1. e <= Cap /\ e <= warp_end /\ wp.off < First
      BY <1>3, <1>4, <1>5, <1>7, <1>9, <2>2
    <3>2. ASSUME NEW p \in Producers, Wraps(p)
          PROVE  e <= Seen(p)
      <4>1. Owning(p) /\ First <= Seen(p) /\ Seen(p) \in Nat
        BY <1>8, <3>2 DEF Wraps
      <4>2. Early(Seen(p))
        BY <1>3, <1>4, <2>2, <4>1 DEF Early
      <4> QED BY <1>4, <1>6, <1>7, <4>1, <4>2
    <3>3. InFront(e)
      BY <3>1, <3>2 DEF InFront
    <3> QED BY <1>3, <1>4, <3>1, <3>3 DEF Spans
  <2> QED BY <1>4, <1>5, <2>1, <2>2
<1>11. ASSUME NEW p \in Producers, Owning(p)
       PROVE  End(p) <= crp \/ e <= Start(p)
  <2>1. CASE Wraps(p)
    BY <1>3, <1>4, <1>8, <1>11, <2>1
  <2>2. CASE ~Wraps(p)
    <3>1. /\ Start(p) = Seen(p) /\ Start(p) \in Nat /\ End(p) \in Nat /\ Start(p) < End(p)
          /\ Spans(Start(p), End(p))
      BY <1>8, <1>11, <2>2
    <3>2. CASE Early(Seen(p))
      BY <1>4, <1>6, <1>7, <1>11, <3>1, <3>2
    <3>3. CASE Seen(p) < crp
      BY <1>3, <1>4, <3>1, <3>3 DEF Spans
    <3>4. CASE crp < cwp /\ cwp <= Seen(p)
      BY <1>4, <1>7, <1>9, <3>1, <3>4
    <3>5. Early(Seen(p)) \/ Seen(p) < crp \/ (crp < cwp /\ cwp <= Seen(p))
      BY <1>4, <3>1 DEF Early
    <3> QED BY <3>2, <3>3, <3>4, <3>5
  <2> QED BY <2>1, <2>2
<1>12. /\ Spans(crp', crp' + want')
       /\ \A p \in Producers : Owning(p) => End(p) <= crp' \/ crp' + want' <= Start(p)
  BY <1>1, <1>10, <1>11 DEF e
<1> QED BY <1>1, <1>2, <1>3, <1>12, LocalStep

LEMMA FetchKeeps ==
  ASSUME IInv, Fetch
  PROVE  IInv'
<1>1. cpc = "copy" /\ cpc' = "release" /\ UNCHANGED <<want, crp, cwp, ready, ci>>
  BY DEF Fetch
<1>2. UNCHANGED <<shared, pc, w>>
  BY DEF Fetch
<1>3. /\ Spans(crp, crp + want)
      /\ \A p \in Producers : Owning(p) => End(p) <= crp \/ crp + want <= Start(p)
  BY <1>1 DEF IInv, ReadIsSound
<1>4. /\ Spans(crp', crp' + want')
      /\ \A p \in Producers : Owning(p) => End(p) <= crp' \/ crp' + want' <= Start(p)
  BY <1>1, <1>3
<1> QED BY <1>1, <1>2, <1>4, Reading, LocalStep

-----------------------------------------------------------------------------
(* The steps that move the consumer's end of the ring.                     *)

LEMMA FrontMoves ==
  ASSUME IInv, UNCHANGED <<wp, flag, reserve, pc, w>>, TypeOK', RingIsSound', ReadIsSound',
         cpc' \in {"idle", "load", "rewind"},
         \A p \in Producers : Owning(p) => Spans(Start(p), End(p))',
         \A p \in Producers : Wraps(p) =>
           First' <= Seen(p) /\ wp.off < First' /\ warp_end' = warp_end,
         \A c \in Offset : Spans(c, c + 1)' => Spans(c, c + 1) /\ buf'[c] = buf[c],
         \A p \in Producers : Owning(p) => \A c \in Region(p) : buf'[c] = buf[c],
         \A p \in Producers : pc[p] = "cas" /\ w[p].seen = wp =>
           ~NoRoom(w[p].seen, w[p].size)'
  PROVE  IInv'
<1>1. \A q \in Producers :
        /\ (Owning(q)' <=> Owning(q)) /\ (Wraps(q)' <=> Wraps(q))
        /\ Seen(q)' = Seen(q) /\ Size(q)' = Size(q) /\ NewWp(q)' = NewWp(q)
        /\ Start(q)' = Start(q) /\ End(q)' = End(q) /\ Region(q)' = Region(q)
  BY StillOwners
<1>2. RegionsApart'
  BY <1>1 DEF IInv, RegionsApart, Apart
<1>3. BytesAreThere'
  <2>1. \A c \in Offset :
          Spans(c, c + 1)' /\ (\A q \in Producers : c \notin Region(q)') => buf'[c] # Empty
    BY <1>1 DEF IInv, BytesAreThere
  <2>2. \A q \in Producers : pc[q] = "push" => \A c \in Region(q) : buf'[c] # Empty
    BY DEF IInv, BytesAreThere, Owning
  <2> QED BY <1>1, <2>1, <2>2 DEF BytesAreThere
<1>4. ScanIsSound'
  BY DEF ScanIsSound, Scanning
<1>5. ASSUME NEW q \in Producers
      PROVE  CallIsSound(q)'
  <2>1. CallIsSound(q)
    BY DEF IInv
  <2>2. TryIsSound(q)'
    BY <2>1 DEF CallIsSound, TryIsSound
  <2>3. OwnerIsSound(q)'
    <3>1. SUFFICES ASSUME Owning(q)
                   PROVE  OwnerIsSound(q)'
      BY <1>1 DEF OwnerIsSound
    <3>2. Spans(Start(q), End(q))' /\ OwnerIsSound(q)
      BY <2>1, <3>1 DEF CallIsSound
    <3>3. NewWp(q).lock => First' <= Seen(q) /\ wp.off < First' /\ warp_end' = warp_end
      BY <3>1 DEF Wraps
    <3> QED BY <1>1, <3>1, <3>2, <3>3 DEF OwnerIsSound
  <2> QED BY <1>1, <2>1, <2>2, <2>3 DEF CallIsSound
<1> QED BY <1>2, <1>3, <1>4, <1>5 DEF IInv

(* What an owner's region is, in numbers.                                  *)
LEMMA OwnerRange ==
  ASSUME IInv, NEW p \in Producers, Owning(p)
  PROVE  /\ Start(p) \in Nat /\ End(p) \in Nat /\ Start(p) < End(p) /\ End(p) <= Cap
         /\ Seen(p) \in Nat /\ Seen(p) < Cap
         /\ Spans(Start(p), End(p)) /\ Region(p) = Start(p)..End(p) - 1
         /\ Wraps(p) => First <= Seen(p) /\ wp.off < First
<1>1. /\ Seen(p) \in Nat /\ Seen(p) < Cap /\ Start(p) \in Nat /\ End(p) \in Nat
      /\ Size(p) \in Nat /\ End(p) = Start(p) + Size(p)
  BY Numbers DEF IInv
<1>2. Size(p) > 0
  BY InCall DEF Owning, Size
<1>3. OwnerIsSound(p)
  BY DEF IInv, CallIsSound
<1>4. Region(p) = Start(p)..End(p) - 1
  BY <1>1 DEF Region, Size
<1> QED BY <1>1, <1>2, <1>3, <1>4 DEF OwnerIsSound, Wraps

LEMMA RewindMarkKeeps ==
  ASSUME IInv, RewindMark
  PROVE  IInv'
<1>1. /\ cpc = "decide" /\ cpc' = "rewind" /\ AtWarpEnd /\ warp_end' = OffsetMax
      /\ cwp' = 0 /\ ready' = OffsetMax /\ ci' = 1
      /\ UNCHANGED <<buf, wp, rp, flag, reserve, pc, w, want, crp>>
  BY DEF RewindMark, Forget
<1>2. /\ want \in ReadSizes /\ crp = rp /\ First = rp
      /\ 0 \in Offset /\ OffsetMax \in AnyOffset /\ 1 \in 1..N+1
      /\ ScanIsSound /\ Scanning
  BY <1>1, Reading
<1>3. /\ crp \in Nat /\ crp < Cap /\ cwp \in Nat /\ Cap \in Nat
      /\ warp_end \in Nat /\ OffsetMax = Cap + 1
      /\ wp.off \in Nat /\ wp.off < Cap /\ First \in Nat
  BY Numbers, Constants DEF IInv
<1>4. /\ cwp < crp /\ ready = OffsetMax /\ crp = DataEnd
      /\ wp.off < crp /\ ~wp.lock /\ ci = N + 1
  <2>1. cwp < crp /\ ready = OffsetMax /\ crp = DataEnd
    BY <1>1 DEF AtWarpEnd, Wrapped
  <2> QED BY <1>1, <1>2, <2>1 DEF ScanIsSound
<1>5. warp_end = crp
  BY <1>3, <1>4 DEF DataEnd, Wrapped
<1>6. \A p \in Producers : ~Wraps(p)
  <2>1. SUFFICES ASSUME NEW p \in Producers, Wraps(p)
                 PROVE  FALSE
    OBVIOUS
  <2>2. Owning(p) /\ First <= Seen(p) /\ Seen(p) \in Nat /\ Seen(p) < Cap
    BY <2>1, OwnerRange DEF Wraps
  <2>3. p < ci
    BY <1>4, Constants DEF Producers
  <2>4. ready <= Seen(p)
    BY <1>2, <1>3, <1>4, <2>2, <2>3 DEF ScanIsSound, Early
  <2> QED BY <1>3, <1>4, <2>2, <2>4
<1>7. First' = 0
  BY <1>1 DEF First
<1>8. \A q \in Producers :
        /\ (Wraps(q)' <=> Wraps(q)) /\ Start(q)' = Start(q) /\ End(q)' = End(q)
  BY <1>1, StillOwners
<1>9. \A a, b \in Int : Spans(a, b) /\ a < b => b <= wp.off
  BY <1>2, <1>3, <1>4, <1>5 DEF Spans, InFront
<1>10. RingIsSound'
  BY <1>1, <1>3, <1>4, <1>6, <1>7, <1>8 DEF RingIsSound
<1>11. TypeOK'
  BY <1>1, <1>2 DEF IInv, TypeOK
<1>12. ReadIsSound'
  BY <1>1, <1>2, <1>4 DEF ReadIsSound, Scanning
<1>13. ASSUME NEW p \in Producers, Owning(p)
       PROVE  Spans(Start(p), End(p))'
  <2>1. /\ Start(p) \in Nat /\ End(p) \in Nat /\ Start(p) < End(p)
        /\ Spans(Start(p), End(p))
    BY <1>13, OwnerRange
  <2>2. End(p) <= wp.off
    BY <1>9, <2>1
  <2> QED BY <1>1, <1>3, <1>7, <1>8, <2>1, <2>2 DEF Spans
<1>14. ASSUME NEW c \in Offset, Spans(c, c + 1)'
       PROVE  Spans(c, c + 1)
  <2>1. c + 1 <= wp.off
    BY <1>1, <1>3, <1>7, <1>14 DEF Spans
  <2> QED BY <1>2, <1>3, <1>4, <2>1 DEF Spans, Offset
<1>15. ASSUME NEW p \in Producers, pc[p] = "cas", w[p].seen = wp
       PROVE  ~NoRoom(w[p].seen, w[p].size)'
  <2>1. ~NoRoom(w[p].seen, w[p].size)
    BY <1>15 DEF IInv, CallIsSound, TryIsSound
  <2> QED BY <1>1, <2>1 DEF NoRoom
<1> QED BY <1>1, <1>6, <1>10, <1>11, <1>12, <1>13, <1>14, <1>15, FrontMoves

LEMMA RewindRpKeeps ==
  ASSUME IInv, RewindRp
  PROVE  IInv'
<1>1. /\ cpc = "rewind" /\ cpc' = "load" /\ rp' = 0 /\ crp' = 0
      /\ UNCHANGED <<buf, wp, warp_end, flag, reserve, pc, w, want, cwp, ready, ci>>
  BY DEF RewindRp
<1>2. /\ want \in ReadSizes /\ 0 \in Offset /\ ci = 1 /\ ready = OffsetMax
  BY <1>1, Reading
<1>3. First = 0 /\ First' = 0
  BY <1>1 DEF First
<1>4. /\ rp \in Nat /\ rp < Cap /\ Cap \in Nat /\ wp.off \in Nat /\ wp.off < rp
  BY <1>1, Numbers, Constants DEF IInv, ReadIsSound
<1>5. \A q \in Producers :
        /\ (Wraps(q)' <=> Wraps(q)) /\ Start(q)' = Start(q) /\ End(q)' = End(q)
        /\ (Owning(q)' <=> Owning(q)) /\ Seen(q)' = Seen(q)
  BY <1>1, StillOwners
<1>6. \A p \in Producers : ~Wraps(p)
  BY <1>3, <1>4 DEF IInv, RingIsSound
<1>7. TypeOK'
  BY <1>1, <1>2 DEF IInv, TypeOK
<1>8. RingIsSound'
  BY <1>1, <1>3, <1>4, <1>5 DEF IInv, RingIsSound
<1>9. ReadIsSound'
  BY <1>1, <1>2 DEF ReadIsSound, Scanning
<1>10. ASSUME NEW p \in Producers, Owning(p)
       PROVE  Spans(Start(p), End(p))'
  <2>1. Spans(Start(p), End(p))
    BY <1>10, OwnerRange
  <2> QED BY <1>1, <1>3, <1>4, <1>5, <2>1 DEF Spans
<1>11. ASSUME NEW c \in Offset, Spans(c, c + 1)'
       PROVE  Spans(c, c + 1)
  BY <1>1, <1>3, <1>4, <1>11 DEF Spans
<1>12. ASSUME NEW p \in Producers, pc[p] = "cas", w[p].seen = wp
       PROVE  ~NoRoom(w[p].seen, w[p].size)'
  <2>1. ~NoRoom(w[p].seen, w[p].size)
    BY <1>12 DEF IInv, CallIsSound, TryIsSound
  <2>2. w[p].size \in Nat
    BY Numbers DEF IInv, Size
  <2>3. w[p].seen.off = wp.off /\ w[p].seen.off + w[p].size < rp
    BY <1>4, <1>12, <2>1, <2>2 DEF NoRoom
  <2>4. ~(wp.off < 0) /\ ~(w[p].seen.off + w[p].size >= Cap)
    BY <1>4, <2>2, <2>3
  <2> QED BY <1>1, <2>3, <2>4 DEF NoRoom
<1> QED BY <1>1, <1>6, <1>7, <1>8, <1>9, <1>10, <1>11, <1>12, FrontMoves

(* What the consumer gives back: a stretch up to e that is reserved and    *)
(* nobody's.  It ends at wp or before it, or at the abandoned tail.        *)
LEMMA GivenBack ==
  ASSUME IInv, cpc = "release"
  PROVE  LET e == rp + want
         IN  /\ crp = rp /\ First = rp /\ rp \in Nat /\ e \in Nat /\ rp < e /\ e <= Cap
             /\ wp.off \in Nat /\ wp.off < Cap /\ rp < Cap /\ Cap \in Nat
             /\ rp <= wp.off => e <= wp.off
             /\ wp.off < rp => InFront(e)
             /\ \A p \in Producers : Owning(p) => End(p) <= rp \/ e <= Start(p)
<1> DEFINE e == rp + want
<1>1. /\ crp = rp /\ want \in ReadSizes /\ First = rp
  BY Reading
<1>2. want \in Nat /\ want > 0
  BY <1>1, Constants
<1>3. /\ rp \in Nat /\ rp < Cap /\ Cap \in Nat /\ wp.off \in Nat /\ wp.off < Cap
  BY Numbers, Constants DEF IInv
<1>4. /\ Spans(rp, e)
      /\ \A p \in Producers : Owning(p) => End(p) <= rp \/ e <= Start(p)
  BY <1>1 DEF IInv, ReadIsSound
<1>5. rp < e /\ e \in Nat
  BY <1>2, <1>3
<1> HIDE DEF e
<1>6. /\ rp <= wp.off => e <= wp.off
      /\ wp.off < rp => InFront(e)
  BY <1>1, <1>3, <1>4, <1>5 DEF Spans
<1>7. e <= Cap
  BY <1>3, <1>5, <1>6 DEF InFront
<1> QED BY <1>1, <1>3, <1>4, <1>5, <1>6, <1>7 DEF e

(* Where the consumer's end is after a release: behind the bytes it took,  *)
(* or at 0 when they ended with the storage, and then nobody wraps.        *)
LEMMA ReleaseFront ==
  ASSUME IInv, Release
  PROVE  LET e == rp + want
         IN  /\ First' = rp' /\ rp' \in Offset
             /\ e < Cap => rp' = e
             /\ e = Cap => /\ rp' = 0 /\ wp.off < rp /\ warp_end = OffsetMax
                           /\ ~wp.lock /\ \A p \in Producers : ~Wraps(p)
             /\ \A x \in Int : InFront(x)' <=> InFront(x)
             /\ UNCHANGED <<wp, warp_end, flag, reserve, pc, w>>
<1> DEFINE e == rp + want
<1>1. /\ cpc = "release" /\ rp' = IF e = Cap THEN 0 ELSE e
      /\ UNCHANGED <<wp, warp_end, flag, reserve, pc, w>>
  BY DEF Release
<1>2. cpc' = "idle"
  BY DEF Release, Return
<1>3. First' = rp'
  BY <1>2 DEF First
<1>4. /\ First = rp /\ rp \in Nat /\ e \in Nat /\ rp < e /\ e <= Cap
      /\ wp.off \in Nat /\ wp.off < Cap /\ rp < Cap /\ Cap \in Nat
      /\ rp <= wp.off => e <= wp.off
      /\ wp.off < rp => InFront(e)
  BY <1>1, GivenBack
<1>5. \A x \in Int : InFront(x)' <=> InFront(x)
  <2>1. SameOwners
    BY <1>1, StillOwners DEF SameOwners
  <2> QED BY <1>1, <2>1, SameFront
<1> HIDE DEF e
<1>6. rp' \in Offset /\ (e < Cap => rp' = e) /\ (e = Cap => rp' = 0)
  BY <1>1, <1>4 DEF Offset
<1>7. ASSUME e = Cap
      PROVE  /\ wp.off < rp /\ warp_end = OffsetMax
             /\ ~wp.lock /\ \A p \in Producers : ~Wraps(p)
  <2>1. wp.off < rp /\ InFront(e)
    BY <1>4, <1>7
  <2>2. warp_end = OffsetMax
    BY <1>4, <1>7, <2>1, Numbers, Constants DEF InFront, IInv
  <2>3. \A p \in Producers : ~Wraps(p)
    BY <1>4, <1>7, <2>1, Numbers DEF InFront, IInv
  <2>4. ~wp.lock
    BY <2>3 DEF IInv, RingIsSound
  <2> QED BY <2>1, <2>2, <2>3, <2>4
<1> QED BY <1>1, <1>3, <1>5, <1>6, <1>7 DEF e

LEMMA ReleaseKeeps ==
  ASSUME IInv, Release
  PROVE  IInv'
<1> DEFINE e == rp + want
<1>1. /\ cpc = "release"
      /\ buf' = [c \in 0..Cap-1 |-> IF c \in Popped THEN Empty ELSE buf[c]]
      /\ UNCHANGED <<wp, warp_end, flag, reserve, pc, w>>
  BY DEF Release
<1>2. /\ cpc' = "idle" /\ want' = 0 /\ crp' = 0 /\ cwp' = 0 /\ ready' = OffsetMax /\ ci' = 1
  BY DEF Release, Return, Forget
<1>3. /\ First' = rp' /\ rp' \in Offset
      /\ e < Cap => rp' = e
      /\ e = Cap => /\ rp' = 0 /\ wp.off < rp /\ warp_end = OffsetMax
                    /\ ~wp.lock /\ \A p \in Producers : ~Wraps(p)
      /\ \A x \in Int : InFront(x)' <=> InFront(x)
  BY ReleaseFront
<1>4. /\ crp = rp /\ First = rp /\ rp \in Nat /\ e \in Nat /\ rp < e /\ e <= Cap
      /\ wp.off \in Nat /\ wp.off < Cap /\ rp < Cap /\ Cap \in Nat
      /\ rp <= wp.off => e <= wp.off
      /\ wp.off < rp => InFront(e)
      /\ \A p \in Producers : Owning(p) => End(p) <= rp \/ e <= Start(p)
  BY <1>1, GivenBack
<1>5. \A q \in Producers :
        /\ (Owning(q)' <=> Owning(q)) /\ (Wraps(q)' <=> Wraps(q))
        /\ Start(q)' = Start(q) /\ End(q)' = End(q) /\ Seen(q)' = Seen(q)
  BY <1>1, StillOwners
<1>6. Offset = 0..Cap-1 /\ Popped = rp..e - 1
  <2>1. crp = rp /\ rp \in Nat
    BY <1>4
  <2>2. want \in Nat
    BY DEF IInv, TypeOK
  <2>3. Popped = rp..e - 1
    BY <2>1, <2>2 DEF Popped
  <2> QED BY <2>3 DEF Offset
<1>7. \A a, b \in Int : Spans(a, b)' <=>
        IF rp' <= wp.off THEN rp' <= a /\ b <= wp.off
        ELSE (rp' <= a /\ InFront(b)) \/ b <= wp.off
  BY <1>1, <1>3 DEF Spans
<1>8. \A a, b \in Int : Spans(a, b) <=>
        IF rp <= wp.off THEN rp <= a /\ b <= wp.off
        ELSE (rp <= a /\ InFront(b)) \/ b <= wp.off
  BY <1>4 DEF Spans
<1> HIDE DEF e
<1>9. TypeOK'
  <2>1. Empty \in Int \X Int \X Int
    BY DEF Empty
  <2>2. buf' \in [Offset -> Int \X Int \X Int]
    <3>1. buf \in [Offset -> Int \X Int \X Int]
      BY DEF IInv, TypeOK
    <3> QED BY <1>1, <1>6, <2>1, <3>1
  <2>3. 0 \in Offset /\ OffsetMax \in AnyOffset /\ 1 \in 1..N+1
    BY Reading
  <2> QED BY <1>1, <1>2, <1>3, <2>2, <2>3 DEF IInv, TypeOK
<1>10. RingIsSound'
  <2>1. ASSUME rp' <= wp.off
        PROVE  warp_end = OffsetMax /\ ~wp.lock /\ \A p \in Producers : ~Wraps(p)
    <3>1. CASE rp <= wp.off
      BY <1>4, <3>1 DEF IInv, RingIsSound
    <3>2. CASE wp.off < rp
      <4>1. e = Cap
        BY <1>3, <1>4, <2>1, <3>2
      <4> QED BY <1>3, <4>1
    <3> QED BY <1>4, <3>1, <3>2
  <2>2. ASSUME wp.off < rp'
        PROVE  InFront(First)'
    <3>1. rp' = e /\ wp.off < rp
      BY <1>3, <1>4, <2>2
    <3>2. InFront(e)
      BY <1>4, <3>1
    <3> QED BY <1>3, <1>4, <3>1, <3>2 DEF InFront
  <2>3. wp.lock => \E p \in Producers : Wraps(p)' /\ pc'[p] \in {"settle", "wrap", "unlock"}
    BY <1>1, <1>5 DEF IInv, RingIsSound
  <2> QED BY <1>1, <1>3, <1>5, <2>1, <2>2, <2>3 DEF RingIsSound
<1>11. ReadIsSound'
  BY <1>2 DEF ReadIsSound, Scanning
<1>12. ASSUME NEW p \in Producers, Owning(p)
       PROVE  Spans(Start(p), End(p))'
  <2>1. /\ Start(p) \in Nat /\ End(p) \in Nat /\ Start(p) < End(p)
        /\ Spans(Start(p), End(p)) /\ End(p) <= Cap
    BY <1>12, OwnerRange
  <2>2. End(p) <= rp \/ e <= Start(p)
    BY <1>4, <1>12
  <2>3. IF rp' <= wp.off THEN rp' <= Start(p) /\ End(p) <= wp.off
        ELSE (rp' <= Start(p) /\ InFront(End(p))) \/ End(p) <= wp.off
    <3>1. IF rp <= wp.off THEN rp <= Start(p) /\ End(p) <= wp.off
          ELSE (rp <= Start(p) /\ InFront(End(p))) \/ End(p) <= wp.off
      BY <1>8, <2>1
    <3>2. CASE e < Cap
      BY <1>3, <1>4, <2>1, <2>2, <3>1, <3>2
    <3>3. CASE e = Cap
      BY <1>3, <1>4, <2>1, <2>2, <3>1, <3>3
    <3> QED BY <1>4, <3>2, <3>3
  <2>4. \A a, b \in Int : a = Start(p) /\ b = End(p) /\ Spans(a, b)' => Spans(Start(p), End(p))'
    BY <1>5 DEF Spans, InFront
  <2> QED BY <1>7, <2>1, <2>3, <2>4
<1>13. ASSUME NEW p \in Producers, Wraps(p)
       PROVE  First' <= Seen(p) /\ wp.off < First' /\ warp_end' = warp_end
  <2>1. Owning(p) /\ First <= Seen(p) /\ wp.off < First /\ Seen(p) \in Nat
    BY <1>13, OwnerRange DEF Wraps
  <2>2. e < Cap /\ rp' = e
    BY <1>3, <1>4, <1>13
  <2>3. InFront(e)
    BY <1>4, <2>1
  <2> QED BY <1>1, <1>3, <1>4, <1>13, <2>1, <2>2, <2>3 DEF InFront
<1>14. ASSUME NEW c \in Offset, Spans(c, c + 1)'
       PROVE  Spans(c, c + 1) /\ buf'[c] = buf[c]
  <2>1. c \in Nat /\ c + 1 \in Int /\ c < Cap
    BY <1>4, <1>6
  <2>2. IF rp' <= wp.off THEN rp' <= c /\ c + 1 <= wp.off
        ELSE (rp' <= c /\ InFront(c + 1)) \/ c + 1 <= wp.off
    BY <1>7, <1>14, <2>1
  <2>3. /\ IF rp <= wp.off THEN rp <= c /\ c + 1 <= wp.off
           ELSE (rp <= c /\ InFront(c + 1)) \/ c + 1 <= wp.off
        /\ c < rp \/ e <= c
    <3>1. CASE e < Cap
      BY <1>3, <1>4, <2>1, <2>2, <3>1
    <3>2. CASE e = Cap
      BY <1>3, <1>4, <2>1, <2>2, <3>2
    <3> QED BY <1>4, <3>1, <3>2
  <2>4. Spans(c, c + 1)
    BY <1>8, <2>1, <2>3
  <2>5. c \notin Popped
    BY <1>4, <1>6, <2>1, <2>3
  <2> QED BY <1>1, <1>6, <2>4, <2>5
<1>15. ASSUME NEW p \in Producers, Owning(p), NEW c \in Region(p)
       PROVE  buf'[c] = buf[c]
  <2>1. /\ Start(p) \in Nat /\ End(p) \in Nat /\ End(p) <= Cap
        /\ Region(p) = Start(p)..End(p) - 1
    BY <1>15, OwnerRange
  <2>2. End(p) <= rp \/ e <= Start(p)
    BY <1>4, <1>15
  <2>3. c \in Offset /\ c \notin Popped
    BY <1>4, <1>6, <1>15, <2>1, <2>2
  <2> QED BY <1>1, <1>6, <2>3
<1>16. ASSUME NEW p \in Producers, pc[p] = "cas", w[p].seen = wp
       PROVE  ~NoRoom(w[p].seen, w[p].size)'
  <2>1. ~NoRoom(wp, w[p].size)
    BY <1>16 DEF IInv, CallIsSound, TryIsSound
  <2>2. w[p].size \in Nat /\ wp \in Words
    BY Numbers DEF IInv, Size
  <2>3. Target(wp, w[p].size).off \in Int
    <3>1. /\ wp.off + w[p].size < Cap => Target(wp, w[p].size).off = wp.off + w[p].size
          /\ wp.off + w[p].size = Cap => Target(wp, w[p].size).off = 0
          /\ wp.off + w[p].size > Cap => Target(wp, w[p].size).off = w[p].size
      BY <2>2, Targets
    <3> QED BY <1>4, <2>2, <3>1
  <2>4. /\ ~(wp.off < rp /\ wp.off + w[p].size >= rp)
        /\ ~(wp.off + w[p].size >= Cap /\ Target(wp, w[p].size).off >= rp)
    BY <2>1 DEF NoRoom
  <2>5. /\ ~(wp.off < rp' /\ wp.off + w[p].size >= rp')
        /\ ~(wp.off + w[p].size >= Cap /\ Target(wp, w[p].size).off >= rp')
    <3>1. CASE e < Cap
      BY <1>3, <1>4, <2>2, <2>3, <2>4, <3>1
    <3>2. CASE e = Cap
      BY <1>3, <1>4, <2>2, <2>3, <2>4, <3>2
    <3> QED BY <1>4, <3>1, <3>2
  <2>6. w'[p] = w[p] /\ w[p].seen = wp
    BY <1>1, <1>16
  <2> QED BY <2>5, <2>6 DEF NoRoom, Target
<1> QED BY <1>1, <1>2, <1>9, <1>10, <1>11, <1>12, <1>13, <1>14, <1>15, <1>16, FrontMoves

-----------------------------------------------------------------------------
(* The invariant.                                                          *)

LEMMA InitIInv == Init => IInv
<1> SUFFICES ASSUME Init PROVE IInv
  OBVIOUS
<1>1. /\ 0 \in Offset /\ OffsetMax \in AnyOffset /\ 0 \in AnyOffset /\ 1 \in 1..N+1
      /\ Zero \in Words /\ NoCall \in Calls /\ Zero.off = 0 /\ ~Zero.lock
  <2>1. /\ 0 \in Offset /\ OffsetMax \in AnyOffset /\ 0 \in AnyOffset /\ 1 \in 1..N+1
    BY Constants DEF Offset, AnyOffset
  <2> QED BY <2>1, IdleValues DEF Zero
<1>2. \A p \in Producers : pc[p] = "off" /\ flag[p] = FALSE
  BY DEF Init
<1>3. TypeOK
  <2>1. [pos |-> 0, lock |-> FALSE] \in Marks /\ Empty \in Int \X Int \X Int
    BY <1>1 DEF Marks, Empty
  <2>2. buf \in [Offset -> Int \X Int \X Int]
    BY <2>1 DEF Init, Offset
  <2> QED BY <1>1, <2>1, <2>2 DEF Init, TypeOK, Points
<1>4. \A p \in Producers : ~Owning(p) /\ ~Wraps(p) /\ Region(p) = {}
  BY <1>2 DEF Owning, Wraps, Region
<1>5. First = 0 /\ wp.off = 0 /\ ~wp.lock /\ warp_end = OffsetMax /\ cpc = "idle"
  BY <1>1 DEF Init, First
<1>6. RingIsSound
  BY <1>4, <1>5 DEF RingIsSound
<1>7. RegionsApart
  BY <1>4 DEF RegionsApart
<1>8. BytesAreThere
  <2>1. \A c \in Offset : ~Spans(c, c + 1)
    BY <1>5 DEF Spans, Offset
  <2> QED BY <1>2, <2>1 DEF BytesAreThere
<1>9. ScanIsSound /\ ReadIsSound
  BY <1>5 DEF Init, ScanIsSound, ReadIsSound, Scanning
<1>10. \A p \in Producers : CallIsSound(p)
  BY <1>2, <1>4 DEF CallIsSound, TryIsSound, OwnerIsSound
<1> QED BY <1>3, <1>6, <1>7, <1>8, <1>9, <1>10 DEF IInv

LEMMA StutterIInv == IInv /\ UNCHANGED vars => IInv'
BY DEF IInv, TypeOK, RingIsSound, RegionsApart, BytesAreThere, ScanIsSound, ReadIsSound,
       CallIsSound, TryIsSound, OwnerIsSound, Apart, Scanning, Early, Spans, InFront, First,
       Wraps, Owning, Region, Start, End, Seen, Size, NewWp, NoRoom, Target, vars, shared, cvars

LEMMA NextIInv == IInv /\ [Next]_vars => IInv'
<1> SUFFICES ASSUME IInv, [Next]_vars PROVE IInv'
  OBVIOUS
<1>1. ASSUME NEW p \in Producers, Producer(p)
      PROVE  IInv'
  <2>1. ASSUME ProducerStep(p)
        PROVE  IInv'
    BY <2>1, LoadWpKeeps, MarkKeeps, CheckFailsKeeps, CheckPassesKeeps, FailKeeps, CasOkKeeps,
       CasFailKeeps, SettleKeeps, WrapKeeps, UnlockKeeps, FillKeeps, PushKeeps DEF ProducerStep
  <2> QED BY <1>1, <2>1, RegKeeps, UnregKeeps, WriteCallKeeps DEF Producer
<1>2. ASSUME Consumer
      PROVE  IInv'
  <2>1. CASE ReadEmpty
    <3>1. cpc = "load" /\ Return
      BY <2>1 DEF ReadEmpty
    <3>2. UNCHANGED <<shared, pc, w>>
      BY <2>1 DEF ReadEmpty
    <3> QED BY <3>1, <3>2, ReturnKeeps
  <2>2. CASE ReadShort
    <3>1. cpc = "decide" /\ Return
      BY <2>2 DEF ReadShort
    <3>2. UNCHANGED <<shared, pc, w>>
      BY <2>2 DEF ReadShort
    <3> QED BY <3>1, <3>2, ReturnKeeps
  <2> QED BY <1>2, <2>1, <2>2, ReadCallKeeps, ReadLoadKeeps, ScanUnregisteredKeeps,
             ScanRegisteredKeeps, ScanReserveKeeps, RewindMarkKeeps, RewindRpKeeps,
             ReadEnoughKeeps, FetchKeeps, ReleaseKeeps DEF Consumer, ConsumerStep
<1> QED BY <1>1, <1>2, StutterIInv DEF Next

(* The inductive invariant of the ring, whatever the number of producers,  *)
(* the capacity and the sizes: mpsc_write, mpsc_push and mpsc_read keep    *)
(* the regions apart and the scan behind them.                             *)
THEOREM MpscInvariance == Spec => []IInv
BY InitIInv, NextIInv, PTL DEF Spec

-----------------------------------------------------------------------------
(* What the invariant says of the ring.                                    *)

(* The cells of a reserved stretch are reserved one by one, and are cells  *)
(* of the storage.                                                         *)
LEMMA SpansInside ==
  ASSUME IInv, NEW a \in Int, NEW b \in Int, NEW c \in Int, Spans(a, b), a <= c, c < b
  PROVE  Spans(c, c + 1) /\ c < Cap
<1>1. First \in Nat /\ wp.off \in Nat /\ wp.off < Cap /\ Cap \in Nat /\ warp_end \in Nat
  BY Numbers, Constants DEF IInv
<1>2. InFront(b) => InFront(c + 1) /\ c < Cap
  <2>1. \A p \in Producers : Seen(p) \in Nat
    BY Numbers DEF IInv
  <2> QED BY <1>1, <2>1 DEF InFront
<1> QED BY <1>1, <1>2 DEF Spans

(* The abandoned tail starts at the last offset that is in front of it,    *)
(* whether warp_end says so already or only the producer that wrapped.     *)
LEMMA TailIs ==
  IInv => /\ TailStart \in Nat /\ TailStart <= Cap
          /\ \A x \in Int : InFront(x) <=> x <= TailStart
<1> SUFFICES ASSUME IInv
             PROVE  /\ TailStart \in Nat /\ TailStart <= Cap
                    /\ \A x \in Int : InFront(x) <=> x <= TailStart
  OBVIOUS
<1> DEFINE At(p) == pc[p] \in {"settle", "wrap"} /\ NewWp(p).lock
<1>1. /\ Cap \in Nat /\ OffsetMax = Cap + 1 /\ warp_end \in Nat
      /\ warp_end <= OffsetMax /\ warp_end # Cap
  BY Numbers, Constants DEF IInv
<1>2. ASSUME NEW r \in Producers, Wraps(r)
      PROVE  /\ \A p \in Producers : Wraps(p) <=> p = r
             /\ pc[r] \in {"settle", "wrap"} => warp_end = OffsetMax
             /\ pc[r] \notin {"settle", "wrap"} => warp_end = Seen(r)
             /\ Seen(r) \in Nat /\ Seen(r) < Cap
  <2>1. \A p \in Producers : Wraps(p) <=> p = r
    BY <1>2, OneWraps
  <2>2. OwnerIsSound(r)
    BY DEF IInv, CallIsSound
  <2>3. /\ pc[r] \in {"settle", "wrap"} => warp_end = OffsetMax
        /\ pc[r] \notin {"settle", "wrap"} => warp_end = Seen(r)
    BY <1>2, <2>2 DEF OwnerIsSound, Wraps, Owning
  <2> QED BY <2>1, <2>3, Numbers DEF IInv
<1>3. CASE \E p \in Producers : At(p)
  <2> DEFINE r == CHOOSE p \in Producers : At(p)
  <2>1. r \in Producers /\ At(r)
    BY <1>3
  <2>2. TailStart = w[r].seen.off
    BY <1>3 DEF TailStart
  <2> HIDE DEF r
  <2>3. Wraps(r)
    BY <2>1 DEF Wraps, Owning
  <2>4. TailStart = Seen(r) /\ Seen(r) \in Nat /\ Seen(r) < Cap /\ warp_end = OffsetMax
    BY <1>2, <2>1, <2>2, <2>3 DEF Seen
  <2>5. \A x \in Int : (\A p \in Producers : Wraps(p) => x <= Seen(p)) <=> x <= Seen(r)
    BY <1>2, <2>1, <2>3
  <2> QED BY <1>1, <2>4, <2>5 DEF InFront
<1>4. CASE ~\E p \in Producers : At(p)
  <2>1. TailStart = IF warp_end = OffsetMax THEN Cap ELSE warp_end
    BY <1>4 DEF TailStart
  <2>2. \A p \in Producers : Wraps(p) => warp_end = Seen(p) /\ Seen(p) < Cap
    <3>1. SUFFICES ASSUME NEW p \in Producers, Wraps(p)
                   PROVE  warp_end = Seen(p) /\ Seen(p) < Cap
      OBVIOUS
    <3>2. pc[p] \notin {"settle", "wrap"}
      BY <1>4, <3>1 DEF Wraps
    <3> QED BY <1>2, <3>1, <3>2
  <2>3. \A x \in Int : InFront(x) <=> x <= Cap /\ x <= warp_end
    BY <2>2 DEF InFront
  <2> QED BY <1>1, <2>1, <2>3
<1> QED BY <1>3, <1>4

(* Every reserved cell is one of the cells from the consumer to wp.        *)
LEMMA SpansAreLive ==
  ASSUME IInv, NEW c \in Nat, Spans(c, c + 1)
  PROVE  c \in Live
<1>1. First \in Nat /\ wp.off \in Nat
  BY Numbers DEF IInv
<1>2. CASE wp.off >= First
  <2>1. LiveCells = [k \in 1..wp.off - First |-> First + k - 1]
    BY <1>2 DEF LiveCells
  <2>2. First <= c /\ c + 1 <= wp.off
    BY <1>1, <1>2 DEF Spans
  <2>3. c - First + 1 \in 1..wp.off - First /\ First + (c - First + 1) - 1 = c
    BY <1>1, <2>2
  <2>4. LiveCells[c - First + 1] = c /\ c - First + 1 \in DOMAIN LiveCells
    BY <2>1, <2>3
  <2> QED BY <2>4 DEF Live
<1>3. CASE wp.off < First
  <2> DEFINE tail == TailStart - First
  <2>1. LiveCells = [k \in 1..tail + wp.off |-> IF k <= tail THEN First + k - 1
                                                ELSE k - 1 - tail]
    BY <1>1, <1>3 DEF LiveCells
  <2>2. tail \in Nat
    <3>1. InFront(First)
      BY <1>3 DEF IInv, RingIsSound
    <3> QED BY <1>1, <3>1, TailIs
  <2>3. (First <= c /\ c + 1 <= First + tail) \/ c + 1 <= wp.off
    <3>1. (First <= c /\ InFront(c + 1)) \/ c + 1 <= wp.off
      BY <1>1, <1>3 DEF Spans
    <3>2. InFront(c + 1) => c + 1 <= TailStart
      BY TailIs
    <3>3. TailStart \in Nat
      BY TailIs
    <3> QED BY <1>1, <3>1, <3>2, <3>3
  <2> HIDE DEF tail
  <2>4. CASE First <= c /\ c + 1 <= First + tail
    <3>1. /\ c - First + 1 \in 1..tail + wp.off /\ c - First + 1 <= tail
          /\ First + (c - First + 1) - 1 = c
      BY <1>1, <2>2, <2>4
    <3>2. LiveCells[c - First + 1] = c /\ c - First + 1 \in DOMAIN LiveCells
      BY <2>1, <3>1
    <3> QED BY <3>2 DEF Live
  <2>5. CASE c + 1 <= wp.off
    <3>1. /\ c + 1 + tail \in 1..tail + wp.off /\ ~(c + 1 + tail <= tail)
          /\ (c + 1 + tail) - 1 - tail = c
      BY <1>1, <2>2, <2>5
    <3>2. LiveCells[c + 1 + tail] = c /\ c + 1 + tail \in DOMAIN LiveCells
      BY <2>1, <3>1
    <3> QED BY <3>2 DEF Live
  <2> QED BY <2>3, <2>4, <2>5
<1> QED BY <1>1, <1>2, <1>3

LEMMA RegionsFollow == IInv => RegionsAreExclusive
<1> SUFFICES ASSUME IInv PROVE RegionsAreExclusive
  OBVIOUS
<1>1. ASSUME NEW p \in Producers, NEW c \in Region(p)
      PROVE  /\ Owning(p) /\ c \in Live /\ c \in 0..Cap-1
             /\ c \in Int /\ Start(p) <= c /\ c < End(p)
  <2>1. Owning(p)
    BY <1>1 DEF Region
  <2>2. /\ Start(p) \in Nat /\ End(p) \in Nat /\ Spans(Start(p), End(p))
        /\ Region(p) = Start(p)..End(p) - 1
    BY <2>1, OwnerRange
  <2>3. c \in Nat /\ Start(p) <= c /\ c < End(p)
    BY <1>1, <2>2
  <2>4. Spans(c, c + 1) /\ c < Cap
    BY <2>2, <2>3, SpansInside
  <2> QED BY <2>1, <2>3, <2>4, SpansAreLive, Constants
<1>2. ASSUME NEW p \in Producers, NEW q \in Producers \ {p}
      PROVE  Region(p) \cap Region(q) = {}
  <2>1. SUFFICES ASSUME NEW c \in Region(p), c \in Region(q)
                 PROVE  FALSE
    OBVIOUS
  <2>2. /\ Owning(p) /\ Owning(q) /\ c \in Int
        /\ Start(p) <= c /\ c < End(p) /\ Start(q) <= c /\ c < End(q)
    BY <1>1, <2>1
  <2>3. End(p) <= Start(q) \/ End(q) <= Start(p)
    BY <2>2 DEF IInv, RegionsApart, Apart
  <2>4. Start(p) \in Nat /\ Start(q) \in Nat /\ End(p) \in Nat /\ End(q) \in Nat
    BY <2>2, OwnerRange
  <2> QED BY <2>2, <2>3, <2>4
<1> QED BY <1>1, <1>2 DEF RegionsAreExclusive

(* No two producers ever own a cell together, and what they own is         *)
(* reserved: a swap in mpsc_acquire succeeds only on a wp that is current. *)
THEOREM RegionsStayExclusive == Spec => []RegionsAreExclusive
BY MpscInvariance, RegionsFollow, PTL

LEMMA FetchFollows == IInv => FetchIsCommitted
<1> SUFFICES ASSUME IInv, cpc \in {"copy", "release"}, NEW c \in Popped
             PROVE  /\ c \in Live /\ buf[c] # Empty
                    /\ \A p \in Producers : c \notin Region(p)
  BY DEF FetchIsCommitted
<1>1. /\ Spans(crp, crp + want)
      /\ \A p \in Producers : Owning(p) => End(p) <= crp \/ crp + want <= Start(p)
  BY DEF IInv, ReadIsSound
<1>2. crp \in Nat /\ want \in Nat /\ Cap \in Nat
  BY Numbers, Constants DEF IInv, TypeOK
<1>3. c \in Nat /\ crp <= c /\ c < crp + want
  BY <1>2 DEF Popped
<1>4. Spans(c, c + 1) /\ c < Cap
  BY <1>1, <1>2, <1>3, SpansInside
<1>5. c \in Live /\ c \in Offset
  BY <1>2, <1>3, <1>4, SpansAreLive DEF Offset
<1>6. ASSUME NEW p \in Producers
      PROVE  c \notin Region(p)
  <2>1. SUFFICES ASSUME Owning(p) PROVE c \notin Region(p)
    BY DEF Region
  <2>2. Start(p) \in Nat /\ End(p) \in Nat /\ Region(p) = Start(p)..End(p) - 1
    BY <2>1, OwnerRange
  <2>3. End(p) <= crp \/ crp + want <= Start(p)
    BY <1>1, <2>1
  <2> QED BY <1>2, <1>3, <2>2, <2>3
<1> QED BY <1>4, <1>5, <1>6 DEF IInv, BytesAreThere

(* mpsc_read copies and releases only bytes that were pushed: the scan of  *)
(* the reserve_pos marks misses no producer that is still writing.         *)
THEOREM FetchesAreCommitted == Spec => []FetchIsCommitted
BY MpscInvariance, FetchFollows, PTL

LEMMA AvailFollows == IInv => AvailIsSane
<1> SUFFICES ASSUME IInv, cpc = "decide", ~AtWarpEnd
             PROVE  ReadAvail \in 0..Cap - crp
  BY DEF AvailIsSane
<1>1. ScanIsSound /\ First = rp /\ crp = rp
  BY Reading
<1>2. cwp # crp /\ crp <= ready /\ (cwp < crp => wp.off < crp)
  BY <1>1 DEF ScanIsSound, Scanning
<1>3. /\ crp \in Nat /\ crp < Cap /\ cwp \in Nat /\ cwp < Cap /\ ready \in Nat /\ Cap \in Nat
      /\ warp_end \in Nat /\ warp_end <= OffsetMax /\ warp_end # Cap /\ OffsetMax = Cap + 1
  BY Numbers, Constants DEF IInv
<1>4. cwp < crp => crp <= warp_end
  BY <1>1, <1>2 DEF IInv, RingIsSound, InFront
<1>5. DataEnd \in Nat /\ crp <= DataEnd /\ DataEnd <= Cap
  BY <1>2, <1>3, <1>4 DEF DataEnd, Wrapped
<1> QED BY <1>2, <1>3, <1>5 DEF ReadAvail

(* The unsigned difference mpsc_pop computes never wraps around and never  *)
(* reaches past the storage.                                               *)
THEOREM AvailStaysSane == Spec => []AvailIsSane
BY MpscInvariance, AvailFollows, PTL

LEMMA WarpEndFollows == IInv => WarpEndIsNotShared
<1> SUFFICES ASSUME IInv PROVE WarpEndIsNotShared
  OBVIOUS
<1> DEFINE writers == {p \in Producers : pc[p] = "wrap"}
<1>1. ASSUME NEW p \in writers
      PROVE  p \in Producers /\ Wraps(p) /\ wp = NewWp(p) /\ NewWp(p).lock
  BY <1>1 DEF IInv, CallIsSound, OwnerIsSound, Owning, Wraps
<1>2. \A p, q \in writers : p = q
  BY <1>1, OneWraps
<1>3. cpc = "decide" /\ Wrapped => writers = {}
  <2>1. SUFFICES ASSUME cpc = "decide", Wrapped, NEW p \in writers
                 PROVE  FALSE
    OBVIOUS
  <2>2. ScanIsSound /\ Scanning /\ cwp < crp
    BY <2>1, Reading DEF Wrapped
  <2>3. ~wp.lock
    BY <2>2 DEF ScanIsSound
  <2> QED BY <1>1, <2>1, <2>3
<1> HIDE DEF writers
<1>4. Cardinality(writers) <= 1
  <2>1. CASE writers = {}
    BY <2>1, FS_EmptySet
  <2>2. CASE writers # {}
    <3>1. PICK p \in writers : TRUE
      BY <2>2
    <3>2. writers = {p}
      BY <1>2, <3>1
    <3>3. Cardinality({p}) = 1
      BY FS_Singleton
    <3> QED BY <3>2, <3>3
  <2> QED BY <2>1, <2>2
<1> QED BY <1>3, <1>4 DEF WarpEndIsNotShared, writers

(* warp_end is a plain variable: the wrap lock keeps a second writer and   *)
(* the consumer away from it.                                              *)
THEOREM WarpEndStaysPrivate == Spec => []WarpEndIsNotShared
BY MpscInvariance, WarpEndFollows, PTL

-----------------------------------------------------------------------------
(* The queue the ring implements.  First what its cells hold: the bytes of *)
(* the owners are theirs once filled, and the consumer's copy is of what   *)
(* it is about to give back.                                               *)

BytesAreOwn ==
  \A p \in Producers : pc[p] = "push" =>
    \A c \in Region(p) : buf[c] = <<p, c - Start(p) + 1, w[p].size>>

CopyIsOwn ==
  /\ cpc # "release" => dst = <<>>
  /\ cpc = "release" => dst = [k \in 1..want |-> buf[crp + k - 1]]

QInv == IInv /\ BytesAreOwn /\ CopyIsOwn

(* What the abstract queue shows of a cell, and how many cells there are.  *)
Bytes ==
  [c \in Offset |->
     LET owners == {p \in Producers : c \in Region(p)}
     IN  IF owners = {} THEN buf[c] ELSE <<CHOOSE p \in owners : TRUE>>]

Count == IF First <= wp.off THEN wp.off - First ELSE TailStart - First + wp.off

BytesShown ==
  /\ \A p \in Producers : Region(p) \subseteq Offset
  /\ \A c \in Offset : (\A p \in Producers : c \notin Region(p)) => Bytes[c] = buf[c]
  /\ \A p \in Producers : \A c \in Region(p) : Bytes[c] = <<p>>

(* From the consumer's offset to wp, around the abandoned tail.            *)
CellsInOrder ==
  /\ First \in Nat /\ wp.off \in Nat /\ TailStart \in Nat /\ Count \in Nat
  /\ wp.off < First => First <= TailStart
  /\ First <= wp.off =>
       /\ Count = wp.off - First
       /\ LiveCells = [k \in 1..Count |-> First + k - 1]
  /\ wp.off < First =>
       /\ Count = TailStart - First + wp.off
       /\ LiveCells = [k \in 1..Count |-> IF k <= TailStart - First THEN First + k - 1
                                          ELSE k - 1 - (TailStart - First)]
  /\ \A k \in 1..Count : LiveCells[k] \in Offset
  /\ DOMAIN LiveCells = 1..Count

TailIsLast ==
  /\ TailStart \in Nat /\ TailStart <= Cap
  /\ \A x \in Int : InFront(x) <=> x <= TailStart

HeldShown == Held = [k \in 1..Count |-> Bytes[LiveCells[k]]]

LEMMA BytesAre == IInv => BytesShown
<1> SUFFICES ASSUME IInv PROVE BytesShown
  OBVIOUS
<1>1. RegionsAreExclusive
  BY RegionsFollow
<1>2. \A p \in Producers :
        /\ Region(p) \subseteq Offset
        /\ \A q \in Producers \ {p} : Region(p) \cap Region(q) = {}
  BY <1>1 DEF RegionsAreExclusive, Offset
<1>3. ASSUME NEW c \in Offset, \A p \in Producers : c \notin Region(p)
      PROVE  Bytes[c] = buf[c]
  BY <1>3 DEF Bytes
<1>4. ASSUME NEW p \in Producers, NEW c \in Region(p)
      PROVE  Bytes[c] = <<p>>
  <2>1. {q \in Producers : c \in Region(q)} = {p}
    BY <1>2, <1>4
  <2>2. (CHOOSE q \in {p} : TRUE) = p
    OBVIOUS
  <2>3. Bytes[c] = IF {p} = {} THEN buf[c] ELSE <<CHOOSE q \in {p} : TRUE>>
    BY <1>2, <2>1 DEF Bytes
  <2> QED BY <2>2, <2>3
<1> QED BY <1>2, <1>3, <1>4 DEF BytesShown

LEMMA CellsAre == IInv => CellsInOrder
<1> SUFFICES ASSUME IInv PROVE CellsInOrder
  OBVIOUS
<1>1. /\ First \in Nat /\ First < Cap /\ wp.off \in Nat /\ wp.off < Cap /\ Cap \in Nat
      /\ TailStart \in Nat /\ TailStart <= Cap
  BY Numbers, Constants, TailIs DEF IInv
<1>2. wp.off < First => First <= TailStart
  BY <1>1, TailIs DEF IInv, RingIsSound
<1>3. Count \in Nat
  BY <1>1, <1>2 DEF Count
<1>4. CASE First <= wp.off
  <2>1. Count = wp.off - First
    BY <1>4 DEF Count
  <2>2. LiveCells = [k \in 1..Count |-> First + k - 1]
    BY <1>1, <1>4, <2>1 DEF LiveCells
  <2>3. \A k \in 1..Count : LiveCells[k] \in Offset
    BY <1>1, <2>1, <2>2 DEF Offset
  <2>4. DOMAIN LiveCells = 1..Count /\ ~(wp.off < First)
    BY <1>1, <1>4, <2>2
  <2> QED BY <1>1, <1>3, <1>4, <2>1, <2>2, <2>3, <2>4 DEF CellsInOrder
<1>5. CASE wp.off < First
  <2> DEFINE tail == TailStart - First
  <2>1. Count = tail + wp.off
    BY <1>1, <1>5 DEF Count
  <2>2. LiveCells = [k \in 1..Count |-> IF k <= tail THEN First + k - 1 ELSE k - 1 - tail]
    BY <1>1, <1>5, <2>1 DEF LiveCells
  <2>3. \A k \in 1..Count : (IF k <= tail THEN First + k - 1 ELSE k - 1 - tail) \in Offset
    BY <1>1, <1>2, <1>5, <2>1 DEF Offset
  <2>4. \A k \in 1..Count : LiveCells[k] \in Offset
    BY <2>2, <2>3
  <2>5. DOMAIN LiveCells = 1..Count /\ ~(First <= wp.off)
    BY <1>1, <1>5, <2>2
  <2>6. LiveCells = [k \in 1..Count |-> IF k <= TailStart - First THEN First + k - 1
                                       ELSE k - 1 - (TailStart - First)]
    BY <2>2
  <2> QED BY <1>1, <1>2, <1>3, <1>5, <2>1, <2>4, <2>5, <2>6 DEF CellsInOrder
<1> QED BY <1>1, <1>4, <1>5 DEF CellsInOrder

LEMMA HeldIs == IInv => HeldShown
<1> SUFFICES ASSUME IInv PROVE HeldShown
  OBVIOUS
<1>1. /\ \A k \in 1..Count : LiveCells[k] \in Offset
      /\ DOMAIN LiveCells = 1..Count
  BY CellsAre DEF CellsInOrder
<1> QED BY <1>1 DEF HeldShown, Held, Bytes

LEMMA TailShown == IInv => TailIsLast
BY TailIs DEF TailIsLast

(* The same after a step.                                                  *)
LEMMA AfterStep == IInv' => BytesShown' /\ CellsInOrder' /\ TailIsLast' /\ HeldShown'
BY BytesAre, CellsAre, TailShown, HeldIs, PTL

(* The cells stay the live ones in their order.                            *)
LEMMA SameCells ==
  ASSUME IInv, IInv', First' = First, wp'.off = wp.off, \A x \in Int : InFront(x)' <=> InFront(x)
  PROVE  Count' = Count /\ LiveCells' = LiveCells
<1>1. TailStart' = TailStart
  <2>1. TailStart \in Int /\ TailStart' \in Int
    BY TailIs, AfterStep DEF TailIsLast
  <2>2. \A x \in Int : x <= TailStart' <=> x <= TailStart
    BY TailIs, AfterStep DEF TailIsLast
  <2> QED BY <2>1, <2>2
<1>2. Count' = Count
  BY <1>1 DEF Count
<1>3. First \in Nat /\ wp.off \in Nat
  BY CellsAre DEF CellsInOrder
<1>4. CASE First <= wp.off
  BY <1>2, <1>4, CellsAre, AfterStep DEF CellsInOrder
<1>5. CASE wp.off < First
  BY <1>1, <1>2, <1>5, CellsAre, AfterStep DEF CellsInOrder
<1> QED BY <1>2, <1>3, <1>4, <1>5

(* ... and show the same bytes.                                            *)
LEMMA SameBytes ==
  ASSUME IInv, IInv', \A q \in Producers : Region(q)' = Region(q),
         \A c \in Offset : (\A q \in Producers : c \notin Region(q)) => buf'[c] = buf[c]
  PROVE  \A c \in Offset : Bytes'[c] = Bytes[c]
<1> SUFFICES ASSUME NEW c \in Offset PROVE Bytes'[c] = Bytes[c]
  OBVIOUS
<1>1. CASE \E q \in Producers : c \in Region(q)
  BY <1>1, BytesAre, AfterStep DEF BytesShown
<1>2. CASE \A q \in Producers : c \notin Region(q)
  BY <1>2, BytesAre, AfterStep DEF BytesShown
<1> QED BY <1>1, <1>2

LEMMA SameHeld ==
  ASSUME IInv, IInv', First' = First, wp'.off = wp.off,
         \A x \in Int : InFront(x)' <=> InFront(x),
         \A q \in Producers : Region(q)' = Region(q),
         \A c \in Offset : (\A q \in Producers : c \notin Region(q)) => buf'[c] = buf[c]
  PROVE  Held' = Held
<1>1. Count' = Count /\ LiveCells' = LiveCells
  BY SameCells
<1>2. \A c \in Offset : Bytes'[c] = Bytes[c]
  BY SameBytes
<1>3. \A k \in 1..Count : LiveCells[k] \in Offset
  BY CellsAre DEF CellsInOrder
<1>4. Held = [k \in 1..Count |-> Bytes[LiveCells[k]]]
  BY HeldIs DEF HeldShown
<1>5. Held' = [k \in 1..Count |-> Bytes'[LiveCells[k]]]
  BY <1>1, AfterStep DEF HeldShown
<1> QED BY <1>2, <1>3, <1>4, <1>5

-----------------------------------------------------------------------------
(* Steps the queue does not see.                                           *)

LEMMA OwnStays ==
  ASSUME IInv, BytesAreOwn,
         \A p \in Producers : pc'[p] = "push" => pc[p] = "push" /\ w'[p] = w[p],
         \A p \in Producers : Owning(p) => \A c \in Region(p) : buf'[c] = buf[c]
  PROVE  BytesAreOwn'
<1>1. \A p \in Producers : pc'[p] = "push" =>
        /\ pc[p] = "push" /\ Owning(p) /\ w'[p] = w[p]
        /\ Region(p)' = Region(p) /\ Start(p)' = Start(p)
  BY DEF Owning, Region, Start, NewWp
<1>2. ASSUME NEW p \in Producers, pc'[p] = "push"
      PROVE  \A c \in Region(p) : buf'[c] = <<p, c - Start(p) + 1, w[p].size>>
  BY <1>1, <1>2 DEF BytesAreOwn
<1> QED BY <1>1, <1>2 DEF BytesAreOwn

LEMMA ProducerRests ==
  ASSUME QInv, IInv', SameOwners, UNCHANGED <<buf, rp, cvars>>, wp'.off = wp.off,
         \A x \in Int : InFront(x)' <=> InFront(x),
         \A p \in Producers : pc'[p] = "push" => pc[p] = "push"
  PROVE  QInv' /\ UNCHANGED <<Held, dst>>
<1>1. First' = First
  BY DEF First, cvars
<1>2. \A q \in Producers : Region(q)' = Region(q)
  BY SameRegion DEF SameOwners
<1>3. Held' = Held
  BY <1>1, <1>2, SameHeld DEF QInv
<1>4. BytesAreOwn'
  <2>1. \A p \in Producers : pc'[p] = "push" => pc[p] = "push" /\ w'[p] = w[p]
    BY DEF SameOwners, Owning
  <2> QED BY <2>1, OwnStays DEF QInv
<1>5. CopyIsOwn'
  BY DEF QInv, CopyIsOwn, cvars
<1>6. dst' = dst
  BY DEF cvars
<1> QED BY <1>3, <1>4, <1>5, <1>6 DEF QInv

(* A producer without a region moves on without one.                       *)
LEMMA SmallStepRests ==
  ASSUME QInv, IInv', NEW p \in Producers, NEW from, NEW to, Goto(p, from, to),
         from \notin {"settle", "wrap", "unlock", "fill", "push"},
         to \notin {"settle", "wrap", "unlock", "fill", "push"},
         \A q \in Producers \ {p} : w'[q] = w[q],
         UNCHANGED <<buf, wp, rp, warp_end, cvars>>
  PROVE  QInv' /\ UNCHANGED <<Held, dst>>
<1>1. pc[p] = from /\ pc'[p] = to /\ \A q \in Producers \ {p} : pc'[q] = pc[q]
  BY DEF Goto, QInv, IInv, TypeOK
<1>2. SameOwners
  BY <1>1 DEF SameOwners, Owning
<1>3. \A q \in Producers : pc'[q] = "push" => pc[q] = "push"
  BY <1>1
<1> QED BY <1>2, <1>3, SameFront, ProducerRests

LEMMA QuietRests ==
  ASSUME QInv, IInv', NEW p \in Producers,
         \/ Reg(p) \/ Unreg(p) \/ \E n \in Sizes : WriteCall(p, n)
         \/ LoadWp(p) \/ Mark(p) \/ CheckFails(p) \/ CheckPasses(p) \/ Fail(p) \/ CasFail(p)
  PROVE  QInv' /\ UNCHANGED <<Held, dst>>
<1>1. w \in [Producers -> Calls]
  BY DEF QInv, IInv, TypeOK
<1>2. CASE Reg(p)
  <2>1. Goto(p, "off", "open") /\ w' = w /\ UNCHANGED <<buf, wp, rp, warp_end, cvars>>
    BY <1>2 DEF Reg
  <2> QED BY <2>1, SmallStepRests
<1>3. CASE Unreg(p)
  <2>1. Goto(p, "open", "off") /\ w' = w /\ UNCHANGED <<buf, wp, rp, warp_end, cvars>>
    BY <1>3 DEF Unreg
  <2> QED BY <2>1, SmallStepRests
<1>4. CASE \E n \in Sizes : WriteCall(p, n)
  <2>1. /\ Goto(p, "open", "load") /\ UNCHANGED <<buf, wp, rp, warp_end, cvars>>
        /\ \A q \in Producers \ {p} : w'[q] = w[q]
    BY <1>1, <1>4 DEF WriteCall, shared
  <2> QED BY <2>1, SmallStepRests
<1>5. CASE LoadWp(p)
  <2>1. /\ Goto(p, "load", "mark") /\ UNCHANGED <<buf, wp, rp, warp_end, cvars>>
        /\ \A q \in Producers \ {p} : w'[q] = w[q]
    BY <1>1, <1>5 DEF LoadWp, shared
  <2> QED BY <2>1, SmallStepRests
<1>6. CASE Mark(p)
  <2>1. Goto(p, "mark", "check") /\ w' = w /\ UNCHANGED <<buf, wp, rp, warp_end, cvars>>
    BY <1>6 DEF Mark
  <2> QED BY <2>1, SmallStepRests
<1>7. CASE CheckFails(p)
  <2>1. Goto(p, "check", "fail") /\ w' = w /\ UNCHANGED <<buf, wp, rp, warp_end, cvars>>
    BY <1>7 DEF CheckFails, shared
  <2> QED BY <2>1, SmallStepRests
<1>8. CASE CheckPasses(p)
  <2>1. Goto(p, "check", "cas") /\ w' = w /\ UNCHANGED <<buf, wp, rp, warp_end, cvars>>
    BY <1>8 DEF CheckPasses, shared
  <2> QED BY <2>1, SmallStepRests
<1>9. CASE Fail(p)
  <2>1. /\ Goto(p, "fail", "open") /\ UNCHANGED <<buf, wp, rp, warp_end, cvars>>
        /\ \A q \in Producers \ {p} : w'[q] = w[q]
    BY <1>1, <1>9 DEF Fail
  <2> QED BY <2>1, SmallStepRests
<1>10. CASE CasFail(p)
  <2>1. /\ Goto(p, "cas", "load") /\ UNCHANGED <<buf, wp, rp, warp_end, cvars>>
        /\ \A q \in Producers \ {p} : w'[q] = w[q]
    BY <1>1, <1>10 DEF CasFail, shared
  <2> QED BY <2>1, SmallStepRests
<1> QED BY <1>2, <1>3, <1>4, <1>5, <1>6, <1>7, <1>8, <1>9, <1>10

LEMMA SettleRests ==
  ASSUME QInv, IInv', NEW p \in Producers, Settle(p) \/ Unlock(p)
  PROVE  QInv' /\ UNCHANGED <<Held, dst>>
<1>1. w' = w /\ UNCHANGED <<buf, rp, warp_end, cvars>>
  BY DEF Settle, Unlock
<1>2. /\ pc[p] \in {"settle", "unlock"} /\ pc'[p] \in {"wrap", "fill"}
      /\ \A q \in Producers \ {p} : pc'[q] = pc[q]
  BY DEF Settle, Unlock, Goto, QInv, IInv, TypeOK
<1>3. wp'.off = wp.off
  <2>1. CASE Settle(p)
    BY <2>1 DEF Settle
  <2>2. CASE Unlock(p)
    <3>1. pc[p] = "unlock" /\ wp' = [NewWp(p) EXCEPT !.lock = FALSE]
      BY <2>2 DEF Unlock, Goto
    <3>2. wp = NewWp(p) /\ wp \in Words
      BY <3>1, Numbers DEF QInv, IInv, CallIsSound, OwnerIsSound, Owning
    <3> QED BY <3>1, <3>2 DEF Words
  <2> QED BY <2>1, <2>2
<1>4. SameOwners
  BY <1>1, <1>2 DEF SameOwners, Owning
<1>5. \A q \in Producers : pc'[q] = "push" => pc[q] = "push"
  BY <1>2
<1> QED BY <1>1, <1>3, <1>4, <1>5, SameFront, ProducerRests

(* warp_end takes over what the producer knew.                             *)
LEMMA WrapRests ==
  ASSUME QInv, IInv', NEW p \in Producers, Wrap(p)
  PROVE  QInv' /\ UNCHANGED <<Held, dst>>
<1>1. pc[p] = "wrap" /\ warp_end' = Seen(p) /\ w' = w /\ UNCHANGED <<buf, wp, rp, cvars>>
  BY DEF Wrap, Goto, Seen
<1>2. pc'[p] = "unlock" /\ \A q \in Producers \ {p} : pc'[q] = pc[q]
  BY DEF Wrap, Goto, QInv, IInv, TypeOK
<1>3. SameOwners
  BY <1>1, <1>2 DEF SameOwners, Owning
<1>4. Wraps(p) /\ warp_end = OffsetMax /\ Seen(p) < Cap /\ Seen(p) \in Nat
  BY <1>1, Numbers DEF QInv, IInv, CallIsSound, OwnerIsSound, Owning, Wraps
<1>5. \A x \in Int : InFront(x)' <=> InFront(x)
  <2>1. \A q \in Producers : (Wraps(q)' <=> Wraps(q)) /\ (Wraps(q) => Seen(q)' = Seen(q))
    BY <1>3, SameRegion DEF SameOwners, Wraps
  <2>2. \A x \in Int : (\A q \in Producers : Wraps(q) => x <= Seen(q))'
                         <=> \A q \in Producers : Wraps(q) => x <= Seen(q)
    BY <2>1
  <2>3. \A x \in Int : x <= Seen(p) => x <= Cap /\ x <= warp_end
    BY <1>4, Constants
  <2> QED BY <1>1, <1>4, <2>2, <2>3 DEF InFront
<1>6. \A q \in Producers : pc'[q] = "push" => pc[q] = "push"
  BY <1>2
<1> QED BY <1>1, <1>3, <1>5, <1>6, ProducerRests

(* Filled bytes stay hidden behind their owner.                            *)
LEMMA FillRests ==
  ASSUME QInv, IInv', NEW p \in Producers, Fill(p)
  PROVE  QInv' /\ UNCHANGED <<Held, dst>>
<1>1. /\ pc[p] = "fill" /\ w' = w /\ UNCHANGED <<wp, rp, warp_end, cvars>>
      /\ buf' = [c \in Offset |->
                   IF c \in Region(p) THEN <<p, c - Start(p) + 1, w[p].size>> ELSE buf[c]]
  BY DEF Fill, Goto, Offset
<1>2. pc'[p] = "push" /\ \A q \in Producers \ {p} : pc'[q] = pc[q]
  BY DEF Fill, Goto, QInv, IInv, TypeOK
<1>3. SameOwners /\ First' = First
  BY <1>1, <1>2 DEF SameOwners, Owning, First, cvars
<1>4. \A q \in Producers : Region(q)' = Region(q) /\ (Owning(q) => Start(q)' = Start(q))
  BY <1>3, SameRegion DEF SameOwners
<1>5. \A x \in Int : InFront(x)' <=> InFront(x)
  BY <1>1, <1>3, SameFront
<1>6. /\ \A c \in Offset \ Region(p) : buf'[c] = buf[c]
      /\ \A c \in Region(p) : buf'[c] = <<p, c - Start(p) + 1, w[p].size>>
  <2>1. Region(p) \subseteq Offset
    BY BytesAre DEF QInv, BytesShown
  <2> QED BY <1>1, <2>1
<1>7. Held' = Held
  BY <1>1, <1>3, <1>4, <1>5, <1>6, SameHeld DEF QInv
<1>8. BytesAreOwn'
  <2>1. ASSUME NEW q \in Producers, pc'[q] = "push", NEW c \in Region(q)
        PROVE  buf'[c] = <<q, c - Start(q) + 1, w[q].size>>
    <3>1. CASE q = p
      BY <1>6, <2>1, <3>1
    <3>2. CASE q # p
      <4>1. pc[q] = "push"
        BY <1>2, <2>1, <3>2
      <4>2. Region(q) \cap Region(p) = {} /\ Region(q) \subseteq Offset
        BY <3>2, RegionsFollow DEF QInv, RegionsAreExclusive, Offset
      <4> QED BY <1>6, <2>1, <4>1, <4>2 DEF QInv, BytesAreOwn
    <3> QED BY <3>1, <3>2
  <2>2. \A q \in Producers : pc'[q] = "push" => Owning(q)
    BY <1>1, <1>2 DEF Owning
  <2>3. ASSUME NEW q \in Producers, pc'[q] = "push"
        PROVE  \A c \in Region(q)' : buf'[c] = <<q, c - Start(q)' + 1, w'[q].size>>
    BY <1>1, <1>4, <2>1, <2>2, <2>3
  <2> QED BY <2>3 DEF BytesAreOwn
<1>9. CopyIsOwn'
  <2>1. UNCHANGED <<cpc, dst, want, crp>>
    BY <1>1 DEF cvars
  <2>2. ASSUME cpc = "release", NEW k \in 1..want
        PROVE  buf'[crp + k - 1] = buf[crp + k - 1]
    <3>1. crp \in Nat /\ want \in Nat
      BY Numbers DEF QInv, IInv, TypeOK
    <3>2. crp + k - 1 \in Popped
      BY <3>1 DEF Popped
    <3>3. crp + k - 1 \notin Region(p)
      BY <2>2, <3>2, FetchFollows DEF QInv, FetchIsCommitted
    <3>4. crp + k - 1 \in Offset
      <4>1. Spans(crp, crp + want)
        BY <2>2 DEF QInv, IInv, ReadIsSound
      <4>2. crp + k - 1 < Cap
        BY <3>1, <4>1, SpansInside DEF QInv
      <4> QED BY <3>1, <4>2, Constants DEF Offset
    <3> QED BY <1>6, <3>3, <3>4
  <2>3. cpc = "release" => dst = [k \in 1..want |-> buf'[crp + k - 1]]
    BY <2>2 DEF QInv, CopyIsOwn
  <2> QED BY <2>1, <2>3 DEF QInv, CopyIsOwn
<1>10. dst' = dst
  BY <1>1 DEF cvars
<1> QED BY <1>7, <1>8, <1>9, <1>10 DEF QInv

LEMMA ConsumerRests ==
  ASSUME QInv, IInv', UNCHANGED <<buf, wp, warp_end, pc, w>>, First' = First,
         cpc # "release", cpc' # "release", dst' = <<>>
  PROVE  QInv' /\ UNCHANGED <<Held, dst>>
<1>1. \A q \in Producers : Region(q)' = Region(q)
  BY StillOwners
<1>2. \A x \in Int : InFront(x)' <=> InFront(x)
  <2>1. SameOwners
    BY StillOwners DEF SameOwners
  <2> QED BY <2>1, SameFront
<1>3. Held' = Held
  BY <1>1, <1>2, SameHeld DEF QInv
<1>4. BytesAreOwn'
  BY OwnStays DEF QInv
<1>5. CopyIsOwn' /\ dst' = dst
  BY DEF QInv, CopyIsOwn
<1> QED BY <1>3, <1>4, <1>5 DEF QInv

LEMMA ScanRests ==
  ASSUME QInv, IInv',
         \/ \E n \in ReadSizes : ReadCall(n)
         \/ ReadEmpty \/ ReadLoad \/ ScanUnregistered \/ ScanRegistered \/ ScanReserve
         \/ ReadShort \/ ReadEnough \/ RewindRp
  PROVE  QInv' /\ UNCHANGED <<Held, dst>>
<1> DEFINE Local == /\ UNCHANGED <<shared, pc, w>>
                    /\ cpc \notin {"rewind", "release"} /\ cpc' \notin {"rewind", "release"}
                    /\ dst' = dst \/ dst' = <<>>
<1>1. Local => QInv' /\ UNCHANGED <<Held, dst>>
  <2>1. SUFFICES ASSUME Local PROVE QInv' /\ UNCHANGED <<Held, dst>>
    OBVIOUS
  <2>2. UNCHANGED <<buf, wp, rp, warp_end, pc, w>>
    BY <2>1 DEF shared
  <2>3. First' = First
    BY <2>1, <2>2 DEF First
  <2>4. dst' = <<>>
    BY <2>1 DEF QInv, CopyIsOwn
  <2> QED BY <2>1, <2>2, <2>3, <2>4, ConsumerRests
<1>2. CASE \E n \in ReadSizes : ReadCall(n)
  <2>1. Local
    BY <1>2 DEF ReadCall
  <2> QED BY <1>1, <2>1
<1>3. CASE ReadEmpty
  <2>1. Local
    BY <1>3 DEF ReadEmpty, Return
  <2> QED BY <1>1, <2>1
<1>4. CASE ReadLoad
  <2>1. Local
    BY <1>4 DEF ReadLoad
  <2> QED BY <1>1, <2>1
<1>5. CASE ScanUnregistered
  <2>1. Local
    BY <1>5 DEF ScanUnregistered, NextProducer
  <2> QED BY <1>1, <2>1
<1>6. CASE ScanRegistered
  <2>1. Local
    BY <1>6 DEF ScanRegistered
  <2> QED BY <1>1, <2>1
<1>7. CASE ScanReserve
  <2>1. Local
    BY <1>7 DEF ScanReserve, NextProducer
  <2> QED BY <1>1, <2>1
<1>8. CASE ReadShort
  <2>1. Local
    BY <1>8 DEF ReadShort, Return
  <2> QED BY <1>1, <2>1
<1>9. CASE ReadEnough
  <2>1. Local
    BY <1>9 DEF ReadEnough
  <2> QED BY <1>1, <2>1
<1>10. CASE RewindRp
  <2>1. /\ cpc = "rewind" /\ cpc' = "load" /\ rp' = 0 /\ dst' = dst
        /\ UNCHANGED <<buf, wp, warp_end, pc, w>>
    BY <1>10 DEF RewindRp
  <2>2. First' = First /\ dst = <<>>
    BY <2>1 DEF First, QInv, CopyIsOwn
  <2> QED BY <2>1, <2>2, ConsumerRests
<1> QED BY <1>2, <1>3, <1>4, <1>5, <1>6, <1>7, <1>8, <1>9, <1>10

(* The rewind drops the abandoned tail, which holds nothing any more.      *)
LEMMA RewindRests ==
  ASSUME QInv, IInv', RewindMark
  PROVE  QInv' /\ UNCHANGED <<Held, dst>>
<1>1. /\ cpc = "decide" /\ cpc' = "rewind" /\ AtWarpEnd /\ dst' = dst
      /\ UNCHANGED <<buf, wp, rp, pc, w>>
  BY DEF RewindMark
<1>2. /\ crp = rp /\ First = rp /\ ScanIsSound /\ Scanning /\ First' = 0
  BY <1>1, Reading DEF QInv, First
<1>3. /\ crp \in Nat /\ crp < Cap /\ Cap \in Nat /\ warp_end \in Nat /\ wp.off \in Nat
      /\ OffsetMax = Cap + 1
  BY Numbers, Constants DEF QInv, IInv
<1>4. wp.off < First /\ warp_end = First
  <2>1. cwp < crp /\ crp = DataEnd
    BY <1>1 DEF AtWarpEnd, Wrapped
  <2>2. wp.off < crp
    BY <1>2, <2>1 DEF ScanIsSound
  <2> QED BY <1>2, <1>3, <2>1, <2>2 DEF DataEnd, Wrapped
<1>5. TailStart = First
  <2>1. TailStart \in Int /\ First <= TailStart
    BY <1>4, CellsAre DEF QInv, CellsInOrder
  <2>2. TailStart <= warp_end
    BY <2>1, TailIs DEF QInv, InFront
  <2> QED BY <1>2, <1>3, <1>4, <2>1, <2>2
<1>6. Count = wp.off /\ LiveCells = [k \in 1..Count |-> k - 1]
  <2>1. /\ Count = TailStart - First + wp.off
        /\ LiveCells = [k \in 1..Count |-> IF k <= TailStart - First THEN First + k - 1
                                           ELSE k - 1 - (TailStart - First)]
    BY <1>4, CellsAre DEF QInv, CellsInOrder
  <2>2. TailStart - First = 0 /\ First \in Nat
    BY <1>2, <1>3, <1>5
  <2>3. Count = wp.off
    BY <1>3, <2>1, <2>2
  <2>4. \A k \in 1..Count : ~(k <= 0) /\ k - 1 - 0 = k - 1
    BY <1>3, <2>3
  <2> QED BY <2>1, <2>2, <2>3, <2>4
<1>7. Count' = wp.off /\ LiveCells' = [k \in 1..Count' |-> k - 1]
  <2>1. First' <= wp'.off /\ wp'.off = wp.off
    BY <1>1, <1>2, <1>3
  <2>2. Count' = wp.off - 0 /\ LiveCells' = [k \in 1..Count' |-> 0 + k - 1]
    BY <1>2, <2>1, AfterStep DEF CellsInOrder
  <2>3. \A k \in 1..Count' : 0 + k - 1 = k - 1
    BY <1>3, <2>2
  <2> QED BY <1>3, <2>2, <2>3
<1>8. \A c \in Offset : Bytes'[c] = Bytes[c]
  BY <1>1, StillOwners, SameBytes DEF QInv
<1>9. Held' = Held
  <2>1. Held = [k \in 1..Count |-> Bytes[LiveCells[k]]]
    BY HeldIs DEF QInv, HeldShown
  <2>2. Held' = [k \in 1..Count' |-> Bytes'[LiveCells'[k]]]
    BY AfterStep DEF HeldShown
  <2>3. \A k \in 1..Count : LiveCells[k] \in Offset
    BY CellsAre DEF QInv, CellsInOrder
  <2>4. Count' = Count /\ LiveCells' = LiveCells
    BY <1>6, <1>7
  <2> QED BY <1>8, <2>1, <2>2, <2>3, <2>4
<1>10. BytesAreOwn'
  BY <1>1, OwnStays DEF QInv
<1> QED BY <1>1, <1>9, <1>10 DEF QInv, CopyIsOwn

-----------------------------------------------------------------------------
(* Steps of the queue.                                                     *)

(* A reserved stretch takes consecutive places of the queue.               *)
LEMMA Place ==
  ASSUME IInv, NEW a \in Nat, NEW b \in Nat, a < b, Spans(a, b)
  PROVE  \E first \in 1..Count :
           /\ first + (b - a) - 1 <= Count
           /\ \A k \in 1..Count : LiveCells[k] \in a..b-1 <=> k \in first..first + (b - a) - 1
           /\ \A k \in first..first + (b - a) - 1 : LiveCells[k] = a + (k - first)
           /\ First <= a => first = a - First + 1
<1>1. First \in Nat /\ wp.off \in Nat /\ TailStart \in Nat /\ Count \in Nat
  BY CellsAre DEF CellsInOrder
<1>2. CASE First <= wp.off
  <2>1. Count = wp.off - First /\ \A k \in 1..Count : LiveCells[k] = First + k - 1
    BY <1>2, CellsAre DEF CellsInOrder
  <2>2. First <= a /\ b <= wp.off
    BY <1>2 DEF Spans
  <2> DEFINE first == a - First + 1
  <2>3. first \in 1..Count /\ first + (b - a) - 1 <= Count
    BY <1>1, <2>1, <2>2
  <2>4. \A k \in 1..Count : LiveCells[k] \in a..b-1 <=> k \in first..first + (b - a) - 1
    BY <1>1, <2>1, <2>2
  <2>5. \A k \in first..first + (b - a) - 1 : LiveCells[k] = a + (k - first)
    BY <1>1, <2>1, <2>2, <2>3
  <2> QED BY <2>3, <2>4, <2>5
<1>3. CASE wp.off < First
  <2> DEFINE tail == TailStart - First
  <2>1. /\ Count = tail + wp.off /\ tail \in Nat
        /\ \A k \in 1..Count : LiveCells[k] = IF k <= tail THEN First + k - 1 ELSE k - 1 - tail
    BY <1>1, <1>3, CellsAre DEF CellsInOrder
  <2>2. (First <= a /\ b <= First + tail) \/ b <= wp.off
    BY <1>1, <1>3, TailIs DEF Spans
  <2> HIDE DEF tail
  <2>3. CASE First <= a /\ b <= First + tail
    <3> DEFINE first == a - First + 1
    <3>1. first \in 1..Count /\ first + (b - a) - 1 <= tail
      BY <1>1, <2>1, <2>3
    <3>2. \A k \in 1..Count : LiveCells[k] \in a..b-1 <=> k \in first..first + (b - a) - 1
      BY <1>1, <1>3, <2>1, <2>3
    <3>3. \A k \in first..first + (b - a) - 1 : LiveCells[k] = a + (k - first)
      BY <1>1, <2>1, <2>3, <3>1
    <3> QED BY <1>1, <2>1, <3>1, <3>2, <3>3
  <2>4. CASE b <= wp.off
    <3> DEFINE first == a + 1 + tail
    <3>1. first \in 1..Count /\ first + (b - a) - 1 <= Count
      BY <1>1, <2>1, <2>4
    <3>2. \A k \in 1..Count : LiveCells[k] \in a..b-1 <=> k \in first..first + (b - a) - 1
      BY <1>1, <1>3, <2>1, <2>4
    <3>3. \A k \in first..first + (b - a) - 1 : LiveCells[k] = a + (k - first)
      BY <1>1, <2>1, <2>4, <3>1
    <3>4. ~(First <= a)
      BY <1>1, <1>3, <2>4
    <3> QED BY <3>1, <3>2, <3>3, <3>4
  <2> QED BY <2>2, <2>3, <2>4
<1> QED BY <1>1, <1>2, <1>3

(* A pending place is one of its owner's cells.                            *)
LEMMA PendingAre ==
  ASSUME IInv, NEW p \in Producers
  PROVE  Queue!Pending(p) = {k \in 1..Count : LiveCells[k] \in Region(p)}
<1>1. Held = [k \in 1..Count |-> Bytes[LiveCells[k]]]
  BY HeldIs DEF HeldShown
<1>2. \A k \in 1..Count : LiveCells[k] \in Offset
  BY CellsAre DEF CellsInOrder
<1>3. ASSUME NEW c \in Offset
      PROVE  Bytes[c] = <<p>> <=> c \in Region(p)
  <2>1. CASE \E q \in Producers : c \in Region(q)
    <3>1. PICK q \in Producers : c \in Region(q)
      BY <2>1
    <3>2. Bytes[c] = <<q>>
      BY <3>1, BytesAre DEF BytesShown
    <3>3. c \in Region(p) => p = q
      BY <3>1, RegionsFollow DEF RegionsAreExclusive
    <3> QED BY <3>1, <3>2, <3>3
  <2>2. CASE \A q \in Producers : c \notin Region(q)
    <3>1. Bytes[c] = buf[c] /\ buf[c] \in Int \X Int \X Int
      BY <2>2, BytesAre DEF BytesShown, IInv, TypeOK
    <3>2. Len(Bytes[c]) = 3 /\ Len(<<p>>) = 1
      BY <3>1
    <3> QED BY <2>2, <3>2
  <2> QED BY <2>1, <2>2
<1> QED BY <1>1, <1>2, <1>3 DEF Queue!Pending

(* mpsc_push: the record appears.                                          *)
LEMMA PushCommits ==
  ASSUME QInv, IInv', NEW p \in Producers, Push(p)
  PROVE  QInv' /\ \E n \in Sizes : Queue!Commit(p, n)
<1> DEFINE n == w[p].size
<1>1. /\ pc[p] = "push" /\ UNCHANGED <<buf, wp, rp, warp_end, cvars>>
      /\ pc' = [pc EXCEPT ![p] = "open"] /\ w' = [w EXCEPT ![p] = NoCall]
  BY DEF Push, Goto
<1>2. /\ pc'[p] = "open" /\ \A q \in Producers \ {p} : pc'[q] = pc[q] /\ w'[q] = w[q]
  BY <1>1 DEF QInv, IInv, TypeOK
<1>3. /\ Owning(p) /\ ~Owning(p)' /\ Region(p)' = {} /\ First' = First
      /\ \A q \in Producers \ {p} : Region(q)' = Region(q)
      /\ \A x \in Int : InFront(x)' <=> InFront(x)
  BY PushFront DEF QInv, GivesUp
<1>4. Count' = Count /\ LiveCells' = LiveCells
  BY <1>1, <1>3, SameCells DEF QInv
<1>5. n \in Sizes /\ n \in Nat /\ n > 0
  BY <1>1, InCall DEF QInv
<1>6. /\ Start(p) \in Nat /\ End(p) \in Nat /\ Start(p) < End(p)
      /\ Spans(Start(p), End(p)) /\ Region(p) = Start(p)..End(p) - 1 /\ End(p) - Start(p) = n
  <2>1. /\ Start(p) \in Nat /\ End(p) \in Nat /\ Start(p) < End(p)
        /\ Spans(Start(p), End(p)) /\ Region(p) = Start(p)..End(p) - 1
    BY <1>3, OwnerRange DEF QInv
  <2> QED BY <1>5, <2>1 DEF End, Size
<1> HIDE DEF n
<1>7. PICK first \in 1..Count :
        /\ first + n - 1 <= Count
        /\ \A k \in 1..Count : LiveCells[k] \in Region(p) <=> k \in first..first + n - 1
        /\ \A k \in first..first + n - 1 : LiveCells[k] = Start(p) + (k - first)
  BY <1>6, Place DEF QInv
<1>8. Queue!Pending(p) = first..first + n - 1 /\ first \in Queue!Pending(p)
  <2>1. Queue!Pending(p) = {k \in 1..Count : LiveCells[k] \in Region(p)}
    BY PendingAre DEF QInv
  <2>2. Count \in Nat /\ first \in Nat /\ first > 0
    BY CellsAre DEF QInv, CellsInOrder
  <2>3. \A k \in first..first + n - 1 : k \in 1..Count
    BY <1>5, <1>7, <2>2
  <2> QED BY <1>5, <1>7, <2>1, <2>2, <2>3
<1>9. ASSUME NEW c \in Offset
      PROVE  Bytes'[c] = IF c \in Region(p) THEN <<p, c - Start(p) + 1, n>> ELSE Bytes[c]
  <2>1. CASE c \in Region(p)
    <3>1. \A q \in Producers : c \notin Region(q)'
      BY <1>3, <2>1, RegionsFollow DEF QInv, RegionsAreExclusive
    <3>2. Bytes'[c] = buf[c]
      BY <1>1, <3>1, AfterStep DEF BytesShown
    <3> QED BY <1>1, <2>1, <3>2 DEF QInv, BytesAreOwn, n
  <2>2. CASE c \notin Region(p) /\ \E q \in Producers : c \in Region(q)
    <3>1. PICK q \in Producers : c \in Region(q)
      BY <2>2
    <3>2. c \in Region(q)'
      BY <1>3, <2>2, <3>1
    <3> QED BY <2>2, <3>1, <3>2, BytesAre, AfterStep DEF QInv, BytesShown
  <2>3. CASE \A q \in Producers : c \notin Region(q)
    <3>1. \A q \in Producers : c \notin Region(q)'
      BY <1>3, <2>3
    <3> QED BY <1>1, <2>3, <3>1, BytesAre, AfterStep DEF QInv, BytesShown
  <2> QED BY <2>1, <2>2, <2>3
<1>10. Held' = [k \in DOMAIN Held |-> IF k \in Queue!Pending(p)
                  THEN <<p, k - first + 1, n>> ELSE Held[k]]
  <2>1. Held = [k \in 1..Count |-> Bytes[LiveCells[k]]]
    BY HeldIs DEF QInv, HeldShown
  <2>2. Held' = [k \in 1..Count |-> Bytes'[LiveCells[k]]]
    BY <1>4, AfterStep DEF HeldShown
  <2>3. \A k \in 1..Count : LiveCells[k] \in Offset /\ k \in Int
    BY CellsAre DEF QInv, CellsInOrder
  <2>4. ASSUME NEW k \in 1..Count
        PROVE  Bytes'[LiveCells[k]] = IF k \in Queue!Pending(p)
                 THEN <<p, k - first + 1, n>> ELSE Bytes[LiveCells[k]]
    <3>1. LiveCells[k] \in Region(p) <=> k \in Queue!Pending(p)
      BY <1>7, <1>8
    <3>2. CASE k \in Queue!Pending(p)
      <4>1. LiveCells[k] = Start(p) + (k - first)
        BY <1>7, <1>8, <3>2
      <4>2. LiveCells[k] - Start(p) + 1 = k - first + 1
        BY <1>6, <2>3, <4>1
      <4> QED BY <1>9, <2>3, <3>1, <3>2, <4>2
    <3>3. CASE k \notin Queue!Pending(p)
      BY <1>9, <2>3, <3>1, <3>3
    <3> QED BY <3>2, <3>3
  <2> QED BY <2>1, <2>2, <2>4
<1>11. Queue!Commit(p, n)
  <2>1. dst' = dst
    BY <1>1 DEF cvars
  <2> QED BY <1>8, <1>10, <2>1 DEF Queue!Commit
<1>12. BytesAreOwn'
  <2>1. \A q \in Producers : pc'[q] = "push" => pc[q] = "push" /\ w'[q] = w[q]
    BY <1>2
  <2> QED BY <1>1, <2>1, OwnStays DEF QInv
<1>13. CopyIsOwn'
  BY <1>1 DEF QInv, CopyIsOwn, cvars
<1> QED BY <1>5, <1>11, <1>12, <1>13 DEF QInv

(* Sequences given by their places: one behind the other, and a part.      *)
IsListed(s, n) == s = [k \in 1..n |-> s[k]]
Values(s, n)   == {s[k] : k \in 1..n}

LEMMA Listed ==
  ASSUME NEW n \in Nat, NEW s, IsListed(s, n)
  PROVE  s \in Seq(Values(s, n)) /\ Len(s) = n /\ DOMAIN s = 1..n
<1>1. \A k \in 1..n : s[k] \in Values(s, n)
  BY DEF Values
<1>2. [k \in 1..n |-> s[k]] \in [1..n -> Values(s, n)]
  BY <1>1
<1>3. s \in [1..n -> Values(s, n)]
  BY <1>2, Zenon DEF IsListed
<1> QED BY <1>3, LenProperties

LEMMA JoinIs ==
  ASSUME NEW m \in Nat, NEW n \in Nat, NEW s, NEW t, NEW u,
         IsListed(s, m), IsListed(t, n), IsListed(u, m + n),
         \A k \in 1..m : u[k] = s[k], \A k \in 1..n : u[m + k] = t[k]
  PROVE  u = s \o t
<1> DEFINE S == Values(s, m) \cup Values(t, n)
           sum == s \o t
<1>1. s \in Seq(S) /\ Len(s) = m /\ t \in Seq(S) /\ Len(t) = n
  BY Listed
<1> HIDE DEF S
<1>2. /\ sum \in Seq(S) /\ Len(sum) = m + n
      /\ \A k \in 1..m + n : sum[k] = IF k <= m THEN s[k] ELSE t[k - m]
  BY <1>1, ConcatProperties
<1> HIDE DEF sum
<1>3. ASSUME NEW k \in 1..m + n
      PROVE  u[k] = sum[k]
  <2>1. CASE k <= m
    BY <1>2, <2>1
  <2>2. CASE k > m
    <3>1. k - m \in 1..n /\ m + (k - m) = k
      BY <2>2
    <3>2. u[m + (k - m)] = t[k - m]
      BY <3>1
    <3> QED BY <1>2, <2>2, <3>1, <3>2
  <2> QED BY <2>1, <2>2
<1>4. Len(u) = m + n /\ u \in Seq(Values(u, m + n))
  BY Listed
<1>5. u \in Seq(Values(u, m + n) \cup S) /\ sum \in Seq(Values(u, m + n) \cup S)
  BY <1>2, <1>4
<1> QED BY <1>2, <1>3, <1>4, <1>5, SeqEqual DEF sum

IsPart(t, s, a, b) == t = SubSeq(s, a, b)

LEMMA CutIs ==
  ASSUME NEW m \in Nat, NEW s, IsListed(s, m), NEW a \in Nat, NEW b \in Nat, NEW n \in Nat,
         1 <= a, b <= m, b = a + n - 1, NEW t, IsListed(t, n),
         \A k \in 1..n, i \in 1..m : i = a + k - 1 => t[k] = s[i]
  PROVE  IsPart(t, s, a, b)
<1> DEFINE S == Values(s, m)
           cut == SubSeq(s, a, b)
<1>1. \A k \in a..b : s[k] \in S
  BY DEF Values
<1> HIDE DEF S
<1>2. /\ cut \in Seq(S) /\ Len(cut) = IF a <= b THEN b - a + 1 ELSE 0
      /\ \A k \in 1..b - a + 1 : cut[k] = s[a + k - 1]
  BY <1>1, SubSeqProperties
<1> HIDE DEF cut
<1>3. Len(cut) = n /\ b - a + 1 = n
  BY <1>2
<1>4. Len(t) = n /\ t \in Seq(Values(t, n))
  BY Listed
<1>5. t \in Seq(Values(t, n) \cup S) /\ cut \in Seq(Values(t, n) \cup S)
  BY <1>2, <1>4
<1>6. ASSUME NEW k \in 1..n
      PROVE  t[k] = cut[k]
  <2>1. a + k - 1 \in 1..m
    OBVIOUS
  <2>2. t[k] = s[a + k - 1]
    BY <2>1
  <2> QED BY <1>2, <1>3, <2>2
<1> QED BY <1>3, <1>4, <1>5, <1>6, SeqEqual DEF cut, IsPart

LEMMA TopIs ==
  ASSUME NEW m \in Nat, NEW s, IsListed(s, m), NEW n \in 1..m,
         NEW t, IsListed(t, n), \A k \in 1..n : t[k] = s[k]
  PROVE  t = SubSeq(s, 1, n)
<1>1. 1 \in Nat /\ n \in Nat /\ 1 <= 1 /\ n <= m /\ n = 1 + n - 1
  OBVIOUS
<1>2. \A k \in 1..n, i \in 1..m : i = 1 + k - 1 => t[k] = s[i]
  OBVIOUS
<1>3. IsPart(t, s, 1, n)
  BY <1>1, <1>2, CutIs
<1> QED BY <1>3 DEF IsPart

LEMMA RestIs ==
  ASSUME NEW m \in Nat, NEW s, IsListed(s, m), NEW n \in 1..m,
         NEW t, IsListed(t, m - n), \A k \in 1..m - n : t[k] = s[n + k]
  PROVE  t = SubSeq(s, n + 1, m)
<1> DEFINE a == n + 1
           r == m - n
<1>1. a \in Nat /\ r \in Nat /\ 1 <= a /\ m <= m /\ m = a + r - 1
  OBVIOUS
<1>2. \A k \in 1..r, i \in 1..m : i = a + k - 1 => t[k] = s[i]
  OBVIOUS
<1>3. IsListed(t, r)
  OBVIOUS
<1> HIDE DEF a, r
<1>4. IsPart(t, s, a, m)
  BY <1>1, <1>2, <1>3, CutIs
<1> QED BY <1>4 DEF a, IsPart

LEMMA HeldLength == IInv => Len(Held) = Count /\ DOMAIN Held = 1..Count
<1> SUFFICES ASSUME IInv PROVE Len(Held) = Count /\ DOMAIN Held = 1..Count
  OBVIOUS
<1>1. Held = [k \in 1..Count |-> Bytes[LiveCells[k]]] /\ Count \in Nat
  BY HeldIs, CellsAre DEF HeldShown, CellsInOrder
<1> QED BY <1>1

(* A swap appends the cells it gains, and leaves one place free.           *)
LEMMA SwapPlaces ==
  ASSUME IInv, IInv', NEW p \in Producers, CasOk(p)
  PROVE  LET n == w[p].size
         IN  /\ Count' = Count + n /\ Count + n < Cap
             /\ \A k \in 1..Count : LiveCells'[k] = LiveCells[k]
             /\ \A k \in 1..n : LiveCells'[Count + k] = Start(p)' + k - 1
<1> DEFINE s == wp.off
           n == w[p].size
           v == wp'.off
           lo == Start(p)'
<1>1. /\ s \in Nat /\ s < Cap /\ n \in Nat /\ n > 0 /\ Cap \in Nat
      /\ First \in Nat /\ First < Cap /\ rp \in Nat /\ rp < Cap
      /\ s < rp => s + n < rp
      /\ s + n < Cap => v = s + n /\ ~wp'.lock
      /\ s + n = Cap => v = 0 /\ ~wp'.lock /\ 0 < rp /\ rp <= s
      /\ s + n > Cap => v = n /\ wp'.lock /\ n < rp /\ rp <= s
      /\ s + n >= Cap => cpc # "rewind"
  BY SwapRoom, Numbers, Constants DEF IInv
<1>2. lo = (IF wp'.lock THEN 0 ELSE s) /\ First' = First
  BY SwapGains
<1>3. s < First => First = rp
  BY <1>1 DEF First
<1>4. s + n >= Cap => First = rp /\ First <= s
  BY <1>1 DEF First
<1>5. /\ TailStart' \in Nat /\ TailStart \in Nat /\ TailStart <= Cap
      /\ \A x \in Int : x <= TailStart' <=> x <= TailStart /\ (wp'.lock => x <= s)
  <2>1. /\ TailStart \in Nat /\ TailStart' \in Nat /\ TailStart <= Cap
        /\ \A x \in Int : InFront(x) <=> x <= TailStart
        /\ \A x \in Int : InFront(x)' <=> x <= TailStart'
    BY TailIs, AfterStep DEF TailIsLast
  <2>2. \A x \in Int : InFront(x)' <=> InFront(x) /\ (wp'.lock => x <= s)
    BY SwapOthers
  <2> QED BY <2>1, <2>2
<1>6. First <= s => TailStart = Cap
  <2>1. First <= s => warp_end = OffsetMax /\ \A q \in Producers : ~Wraps(q)
    BY DEF IInv, RingIsSound
  <2>2. First <= s => InFront(Cap)
    BY <2>1, Constants DEF InFront
  <2> QED BY <1>1, <1>5, <2>2, TailIs
<1>7. /\ First <= s =>
           /\ Count = s - First
           /\ LiveCells = [k \in 1..Count |-> First + k - 1]
      /\ s < First =>
           /\ First <= TailStart /\ Count = TailStart - First + s
           /\ LiveCells = [k \in 1..Count |-> IF k <= TailStart - First THEN First + k - 1
                                              ELSE k - 1 - (TailStart - First)]
  BY CellsAre DEF CellsInOrder
<1>8. /\ First <= v =>
           /\ Count' = v - First
           /\ LiveCells' = [k \in 1..Count' |-> First + k - 1]
      /\ v < First =>
           /\ Count' = TailStart' - First + v
           /\ LiveCells' = [k \in 1..Count' |-> IF k <= TailStart' - First THEN First + k - 1
                                                ELSE k - 1 - (TailStart' - First)]
  BY <1>2, AfterStep DEF CellsInOrder
<1> DEFINE Goal == /\ Count' = Count + n /\ Count + n < Cap
                   /\ \A k \in 1..Count : LiveCells'[k] = LiveCells[k]
                   /\ \A k \in 1..n : LiveCells'[Count + k] = lo + k - 1
<1> HIDE DEF s, n, v, lo
<1>9. ASSUME s + n < Cap
      PROVE  Goal
  <2>1. lo = s /\ v = s + n /\ ~wp'.lock
    BY <1>1, <1>2, <1>9
  <2>2. CASE First <= s
    <3>1. First <= v /\ Count = s - First /\ Count' = s + n - First
      BY <1>1, <1>7, <1>8, <2>1, <2>2
    <3>2. Count' = Count + n /\ Count + n < Cap
      BY <1>1, <1>9, <3>1
    <3>3. /\ \A k \in 1..Count : LiveCells[k] = First + k - 1
          /\ \A k \in 1..Count' : LiveCells'[k] = First + k - 1
      BY <1>7, <1>8, <2>2, <3>1
    <3>4. \A k \in 1..Count : LiveCells'[k] = LiveCells[k]
      BY <1>1, <3>1, <3>2, <3>3
    <3>5. \A k \in 1..n : LiveCells'[Count + k] = lo + k - 1
      <4>1. ASSUME NEW k \in 1..n
            PROVE  Count + k \in 1..Count' /\ First + (Count + k) - 1 = s + k - 1
        BY <1>1, <2>2, <3>1
      <4> QED BY <2>1, <3>3, <4>1
    <3> QED BY <3>2, <3>4, <3>5
  <2>3. CASE s < First
    <3>1. v < First /\ TailStart' = TailStart
      BY <1>1, <1>3, <1>5, <2>1, <2>3
    <3> DEFINE tail == TailStart - First
    <3>2. tail \in Nat /\ Count = tail + s /\ Count' = tail + s + n
      BY <1>1, <1>5, <1>7, <1>8, <2>1, <2>3, <3>1
    <3>3. /\ \A k \in 1..Count : LiveCells[k] = IF k <= tail THEN First + k - 1 ELSE k - 1 - tail
          /\ \A k \in 1..Count' : LiveCells'[k] = IF k <= tail THEN First + k - 1 ELSE k - 1 - tail
      BY <1>7, <1>8, <2>3, <3>1
    <3>4. Count + n < Cap
      BY <1>1, <1>5, <2>1, <2>3, <3>1, <3>2
    <3> HIDE DEF tail
    <3>5. \A k \in 1..Count : LiveCells'[k] = LiveCells[k]
      BY <1>1, <3>2, <3>3
    <3>6. \A k \in 1..n : LiveCells'[Count + k] = lo + k - 1
      <4>1. ASSUME NEW k \in 1..n
            PROVE  Count + k \in 1..Count' /\ ~(Count + k <= tail)
                   /\ (Count + k) - 1 - tail = s + k - 1
        BY <1>1, <3>2
      <4> QED BY <2>1, <3>3, <4>1
    <3> QED BY <1>1, <3>2, <3>4, <3>5, <3>6
  <2> QED BY <1>1, <2>2, <2>3
<1>10. ASSUME s + n >= Cap
       PROVE  Goal
  <2> DEFINE tail == TailStart' - First
  <2>1. v < First /\ First <= s /\ Count = s - First
    BY <1>1, <1>4, <1>7, <1>10
  <2>2. /\ LiveCells = [k \in 1..Count |-> First + k - 1]
        /\ LiveCells' = [k \in 1..Count' |-> IF k <= tail THEN First + k - 1 ELSE k - 1 - tail]
        /\ Count' = tail + v
    BY <1>7, <1>8, <2>1
  <2>3. CASE s + n = Cap
    <3>1. lo = s /\ v = 0 /\ ~wp'.lock /\ TailStart' = Cap /\ tail = Count + n
      <4>1. lo = s /\ v = 0 /\ ~wp'.lock
        BY <1>1, <1>2, <2>3
      <4>2. TailStart' = Cap
        BY <1>1, <1>5, <1>6, <2>1, <4>1
      <4> QED BY <1>1, <2>1, <2>3, <4>1, <4>2
    <3>2. Count' = Count + n /\ Count + n < Cap
      BY <1>1, <1>4, <2>1, <2>2, <2>3, <3>1
    <3> HIDE DEF tail
    <3>3. \A k \in 1..Count : LiveCells'[k] = LiveCells[k]
      <4>1. ASSUME NEW k \in 1..Count
            PROVE  k \in 1..Count' /\ k <= tail
        BY <1>1, <2>1, <3>1, <3>2
      <4> QED BY <2>2, <4>1
    <3>4. \A k \in 1..n : LiveCells'[Count + k] = lo + k - 1
      <4>1. ASSUME NEW k \in 1..n
            PROVE  Count + k \in 1..Count' /\ Count + k <= tail
                   /\ First + (Count + k) - 1 = lo + k - 1
        BY <1>1, <2>1, <2>3, <3>1, <3>2
      <4> QED BY <2>2, <4>1
    <3> QED BY <3>2, <3>3, <3>4
  <2>4. CASE s + n > Cap
    <3>1. lo = 0 /\ v = n /\ wp'.lock /\ TailStart' = s /\ tail = Count
      <4>1. lo = 0 /\ v = n /\ wp'.lock
        BY <1>1, <1>2, <2>4
      <4>2. TailStart' = s
        BY <1>1, <1>5, <1>6, <2>1, <4>1
      <4> QED BY <2>1, <4>1, <4>2
    <3>2. Count' = Count + n /\ Count + n < Cap
      BY <1>1, <1>4, <2>1, <2>2, <2>4, <3>1
    <3> HIDE DEF tail
    <3>3. \A k \in 1..Count : LiveCells'[k] = LiveCells[k]
      <4>1. ASSUME NEW k \in 1..Count
            PROVE  k \in 1..Count' /\ k <= tail
        BY <1>1, <2>1, <3>1, <3>2
      <4> QED BY <2>2, <4>1
    <3>4. \A k \in 1..n : LiveCells'[Count + k] = lo + k - 1
      <4>1. ASSUME NEW k \in 1..n
            PROVE  Count + k \in 1..Count' /\ ~(Count + k <= tail)
                   /\ (Count + k) - 1 - tail = lo + k - 1
        BY <1>1, <2>1, <2>4, <3>1, <3>2
      <4> QED BY <2>2, <4>1
    <3> QED BY <3>2, <3>3, <3>4
  <2> QED BY <1>1, <1>10, <2>3, <2>4
<1>11. Goal
  <2>1. s + n < Cap \/ s + n >= Cap
    BY <1>1
  <2> QED BY <1>9, <1>10, <2>1
<1> QED BY <1>11 DEF n, lo

(* The cells of the queue are reserved ones.                               *)
LEMMA CellsAreReserved ==
  ASSUME IInv, NEW k \in 1..Count
  PROVE  LiveCells[k] \in Nat /\ Spans(LiveCells[k], LiveCells[k] + 1)
<1>1. First \in Nat /\ wp.off \in Nat /\ TailStart \in Nat /\ Count \in Nat
  BY CellsAre DEF CellsInOrder
<1>2. CASE First <= wp.off
  <2>1. Count = wp.off - First /\ LiveCells[k] = First + k - 1
    BY <1>2, CellsAre DEF CellsInOrder
  <2> QED BY <1>1, <1>2, <2>1 DEF Spans
<1>3. CASE wp.off < First
  <2> DEFINE tail == TailStart - First
  <2>1. /\ Count = tail + wp.off /\ tail \in Nat
        /\ LiveCells[k] = IF k <= tail THEN First + k - 1 ELSE k - 1 - tail
    BY <1>1, <1>3, CellsAre DEF CellsInOrder
  <2>2. CASE k <= tail
    <3>1. LiveCells[k] = First + k - 1 /\ LiveCells[k] + 1 \in Int /\ LiveCells[k] + 1 <= TailStart
      BY <1>1, <2>1, <2>2
    <3>2. InFront(LiveCells[k] + 1)
      BY <3>1, TailIs
    <3> QED BY <1>1, <1>3, <3>1, <3>2 DEF Spans
  <2>3. CASE k > tail
    <3>1. LiveCells[k] = k - 1 - tail
      BY <1>1, <2>1, <2>3
    <3>2. LiveCells[k] \in Nat /\ LiveCells[k] + 1 <= wp.off
      BY <1>1, <2>1, <2>3, <3>1
    <3> QED BY <1>1, <1>3, <3>2 DEF Spans
  <2> QED BY <1>1, <2>1, <2>2, <2>3
<1> QED BY <1>1, <1>2, <1>3

(* The swap: the record takes its places at the end of the queue.          *)
LEMMA SwapReserves ==
  ASSUME QInv, IInv', NEW p \in Producers, CasOk(p)
  PROVE  QInv' /\ \E n \in Sizes : Queue!Reserve(p, n)
<1> DEFINE n == w[p].size
           more == [k \in 1..n |-> <<p>>]
<1>1. IInv
  BY DEF QInv
<1>2. /\ ~Owning(p) /\ Owning(p)' /\ pc'[p] = "settle" /\ First' = First
      /\ \A q \in Producers \ {p} : pc'[q] = pc[q] /\ (Owning(q)' <=> Owning(q))
      /\ UNCHANGED <<buf, rp, warp_end, flag, reserve, w, cvars>>
      /\ Size(p)' = n
  BY <1>1, SwapGains
<1>3. \A q \in Producers \ {p} : Region(q)' = Region(q)
  BY <1>1, SwapOthers
<1>4. /\ Count' = Count + n /\ Count + n < Cap
      /\ \A k \in 1..Count : LiveCells'[k] = LiveCells[k]
      /\ \A k \in 1..n : LiveCells'[Count + k] = Start(p)' + k - 1
  BY <1>1, SwapPlaces
<1>5. n \in Sizes /\ n \in Nat /\ n > 0 /\ Start(p)' \in Nat /\ End(p)' = Start(p)' + n
  <2>1. n \in Sizes /\ n \in Nat /\ n > 0
    BY <1>1, SwapRoom
  <2>2. /\ Start(p)' = IF wp'.lock THEN 0 ELSE wp.off
        /\ End(p)' = Start(p)' + n
    BY <1>1, SwapGains
  <2> QED BY <1>1, <2>1, <2>2, SwapRoom
<1>6. Region(p) = {} /\ Region(p)' = Start(p)'..Start(p)' + n - 1
  BY <1>2 DEF Region, Size
<1>7. /\ \A a, b \in Int : Spans(a, b) => b <= Start(p)' \/ End(p)' <= a
  BY <1>1, SwapSpans
<1> HIDE DEF n
<1>8. ASSUME NEW k \in 1..Count
      PROVE  Bytes'[LiveCells'[k]] = Bytes[LiveCells[k]]
  <2> DEFINE c == LiveCells[k]
  <2>1. c \in Offset /\ c \in Nat /\ Spans(c, c + 1) /\ LiveCells'[k] = c
    BY <1>1, <1>4, CellsAre, CellsAreReserved DEF CellsInOrder
  <2> HIDE DEF c
  <2>2. c \notin Region(p)'
    <3>1. c + 1 <= Start(p)' \/ End(p)' <= c
      BY <1>7, <2>1
    <3> QED BY <1>5, <1>6, <2>1, <3>1
  <2>3. CASE \E q \in Producers \ {p} : c \in Region(q)
    <3>1. PICK q \in Producers \ {p} : c \in Region(q)
      BY <2>3
    <3>2. Bytes[c] = <<q>>
      BY <1>1, <3>1, BytesAre DEF BytesShown
    <3>3. Bytes'[c] = <<q>>
      BY <1>3, <3>1, AfterStep DEF BytesShown
    <3> QED BY <2>1, <3>2, <3>3 DEF c
  <2>4. CASE \A q \in Producers \ {p} : c \notin Region(q)
    <3>1. Bytes[c] = buf[c]
      BY <1>1, <1>6, <2>1, <2>4, BytesAre DEF BytesShown
    <3>2. \A q \in Producers : c \notin Region(q)'
      BY <1>3, <2>2, <2>4
    <3>3. Bytes'[c] = buf[c]
      BY <1>2, <2>1, <3>2, AfterStep DEF BytesShown
    <3> QED BY <2>1, <3>1, <3>3 DEF c
  <2> QED BY <2>3, <2>4
<1>9. ASSUME NEW k \in 1..n
      PROVE  Bytes'[LiveCells'[Count + k]] = <<p>>
  <2>1. LiveCells'[Count + k] \in Region(p)'
    BY <1>4, <1>5, <1>6
  <2> QED BY <2>1, AfterStep DEF BytesShown
<1>10. Held' = Held \o more
  <2>1. Count \in Nat
    BY <1>1, CellsAre DEF CellsInOrder
  <2>2. Held = [k \in 1..Count |-> Bytes[LiveCells[k]]]
    BY <1>1, HeldIs DEF HeldShown
  <2>3. Held' = [k \in 1..Count + n |-> Bytes'[LiveCells'[k]]]
    BY <1>4, AfterStep DEF HeldShown
  <2>4. IsListed(Held, Count) /\ IsListed(Held', Count + n) /\ IsListed(more, n)
    <3>1. IsListed(Held, Count)
      BY <2>2 DEF IsListed
    <3>2. IsListed(Held', Count + n)
      BY <2>3 DEF IsListed
    <3>3. IsListed(more, n)
      BY DEF IsListed
    <3> QED BY <3>1, <3>2, <3>3
  <2>5. \A k \in 1..Count : Held'[k] = Held[k]
    BY <1>5, <1>8, <2>1, <2>2, <2>3
  <2>6. \A k \in 1..n : Held'[Count + k] = more[k]
    <3>1. ASSUME NEW k \in 1..n
          PROVE  Count + k \in 1..Count + n
      BY <1>5, <2>1
    <3> QED BY <1>9, <2>3, <3>1
  <2> HIDE DEF more
  <2> QED BY <1>5, <2>1, <2>4, <2>5, <2>6, JoinIs
<1>11. Queue!Pending(p) = {}
  BY <1>1, <1>6, PendingAre
<1>12. Queue!Reserve(p, n)
  <2>1. Len(Held) + n < Cap
    BY <1>1, <1>4, HeldLength
  <2>2. dst' = dst
    BY <1>2 DEF cvars
  <2> QED BY <1>10, <1>11, <2>1, <2>2 DEF Queue!Reserve
<1>13. BytesAreOwn'
  <2>1. \A q \in Producers : pc'[q] = "push" => pc[q] = "push" /\ w'[q] = w[q]
    BY <1>2
  <2> QED BY <1>1, <1>2, <2>1, OwnStays DEF QInv
<1>14. CopyIsOwn'
  BY <1>2 DEF QInv, CopyIsOwn, cvars
<1> QED BY <1>5, <1>12, <1>13, <1>14 DEF QInv

(* What the consumer pops are the first bytes of the queue, pushed ones.   *)
LEMMA PoppedAreFirst ==
  ASSUME IInv, cpc \in {"copy", "release"}
  PROVE  /\ want \in 1..Count /\ crp = First /\ crp \in Nat
         /\ \A k \in 1..Count : LiveCells[k] \in Popped <=> k \in 1..want
         /\ \A k \in 1..want : LiveCells[k] = crp + k - 1 /\ crp + k - 1 \in Popped
         /\ \A p \in Producers : \A c \in Popped : c \notin Region(p)
         /\ Popped \subseteq Offset
<1>1. First = rp /\ crp = rp /\ want \in ReadSizes /\ Spans(crp, crp + want)
  BY Reading DEF IInv, ReadIsSound
<1>2. want \in Nat /\ want > 0 /\ crp \in Nat
  BY <1>1, Constants, Numbers DEF IInv
<1> DEFINE b == crp + want
<1>3. b \in Nat /\ crp < b /\ Spans(crp, b) /\ Popped = crp..b - 1 /\ b - crp = want
  BY <1>1, <1>2 DEF Popped
<1> HIDE DEF b
<1>4. PICK first \in 1..Count :
        /\ first + (b - crp) - 1 <= Count
        /\ \A k \in 1..Count : LiveCells[k] \in crp..b-1 <=> k \in first..first + (b - crp) - 1
        /\ \A k \in first..first + (b - crp) - 1 : LiveCells[k] = crp + (k - first)
        /\ First <= crp => first = crp - First + 1
  BY <1>2, <1>3, Place
<1>5. first = 1 /\ Count \in Nat
  BY <1>1, <1>2, <1>4, CellsAre DEF CellsInOrder
<1>6. want \in 1..Count
  BY <1>2, <1>3, <1>4, <1>5
<1>7. \A k \in 1..Count : LiveCells[k] \in Popped <=> k \in 1..want
  BY <1>2, <1>3, <1>4, <1>5
<1>8. \A k \in 1..want : LiveCells[k] = crp + k - 1 /\ crp + k - 1 \in Popped
  BY <1>2, <1>3, <1>4, <1>5
<1>9. \A c \in Popped : c \in Live /\ \A p \in Producers : c \notin Region(p)
  BY FetchFollows DEF FetchIsCommitted
<1>10. Popped \subseteq Offset
  <2>1. ASSUME NEW c \in Popped
        PROVE  c \in Offset
    <3>1. c \in Int /\ crp <= c /\ c < b
      BY <1>2, <1>3
    <3>2. c < Cap /\ c \in Nat
      BY <1>2, <1>3, <3>1, SpansInside
    <3> QED BY <3>2, Constants DEF Offset
  <2> QED BY <2>1
<1> QED BY <1>1, <1>2, <1>6, <1>7, <1>8, <1>9, <1>10

(* The copy of mpsc_read.                                                  *)
LEMMA FetchPeeks ==
  ASSUME QInv, IInv', Fetch
  PROVE  QInv' /\ \E n \in 1..Len(Held) : Queue!Peek(n)
<1>1. IInv
  BY DEF QInv
<1>2. /\ cpc = "copy" /\ cpc' = "release" /\ dst' = [k \in 1..want |-> buf[crp + k - 1]]
      /\ UNCHANGED <<buf, wp, rp, warp_end, pc, w, want, crp>>
  BY DEF Fetch, shared
<1>3. /\ want \in 1..Count /\ Popped \subseteq Offset
      /\ \A k \in 1..want : LiveCells[k] = crp + k - 1 /\ crp + k - 1 \in Popped
      /\ \A p \in Producers : \A c \in Popped : c \notin Region(p)
  BY <1>1, <1>2, PoppedAreFirst
<1>4. Len(Held) = Count /\ Count \in Nat /\ Held = [k \in 1..Count |-> Bytes[LiveCells[k]]]
  BY <1>1, HeldLength, HeldIs, CellsAre DEF CellsInOrder, HeldShown
<1>5. ASSUME NEW k \in 1..want
      PROVE  Held[k] = buf[crp + k - 1] /\ Len(Held[k]) = 3
  <2> DEFINE c == LiveCells[k]
  <2>1. c = crp + k - 1 /\ c \in Popped /\ c \in Offset /\ k \in 1..Count
    BY <1>3, <1>4
  <2> HIDE DEF c
  <2>2. Bytes[c] = buf[c]
    BY <1>1, <1>3, <2>1, BytesAre DEF BytesShown
  <2>3. buf[c] \in Int \X Int \X Int
    BY <1>1, <2>1 DEF IInv, TypeOK
  <2>4. Held[k] = buf[c] /\ c = crp + k - 1
    BY <1>4, <2>1, <2>2 DEF c
  <2>5. Len(buf[c]) = 3
    BY <2>3
  <2> QED BY <2>4, <2>5
<1>6. dst' = SubSeq(Held, 1, want)
  <2>1. IsListed(Held, Count)
    BY <1>4 DEF IsListed
  <2>2. IsListed(dst', want)
    BY <1>2 DEF IsListed
  <2>3. \A k \in 1..want : dst'[k] = Held[k]
    BY <1>2, <1>5
  <2> QED BY <1>3, <1>4, <2>1, <2>2, <2>3, TopIs
<1>7. First' = First
  BY <1>2 DEF First
<1>8. Held' = Held
  <2>1. SameOwners
    BY <1>2 DEF SameOwners, Owning
  <2>2. \A x \in Int : InFront(x)' <=> InFront(x)
    BY <1>2, <2>1, SameFront
  <2>3. \A q \in Producers : Region(q)' = Region(q)
    BY <2>1, SameRegion DEF SameOwners
  <2> QED BY <1>1, <1>2, <1>7, <2>2, <2>3, SameHeld
<1>9. Queue!Peek(want)
  <2>1. dst = <<>>
    BY <1>2 DEF QInv, CopyIsOwn
  <2> QED BY <1>5, <1>6, <1>8, <2>1 DEF Queue!Peek
<1>10. BytesAreOwn'
  BY <1>1, <1>2, OwnStays DEF QInv
<1>11. CopyIsOwn'
  BY <1>2 DEF CopyIsOwn
<1> QED BY <1>3, <1>4, <1>9, <1>10, <1>11 DEF QInv

(* The store of rp drops the places of what was popped.                    *)
LEMMA ReleasePlaces ==
  ASSUME IInv, IInv', Release
  PROVE  /\ Count' = Count - want
         /\ \A k \in 1..Count - want : LiveCells'[k] = LiveCells[want + k]
<1> DEFINE e == rp + want
           s == wp.off
<1>1. /\ First = rp /\ rp \in Nat /\ e \in Nat /\ rp < e /\ e <= Cap
      /\ s \in Nat /\ s < Cap /\ Cap \in Nat
      /\ rp <= s => e <= s
      /\ s < rp => InFront(e)
  BY GivenBack DEF Release
<1>2. /\ First' = rp'
      /\ e < Cap => rp' = e
      /\ e = Cap => rp' = 0 /\ s < rp
      /\ \A x \in Int : InFront(x)' <=> InFront(x)
      /\ wp' = wp
  BY ReleaseFront
<1>3. want \in Nat
  BY DEF IInv, TypeOK
<1>4. TailStart' = TailStart /\ TailStart \in Nat /\ TailStart <= Cap
  <2>1. TailStart \in Nat /\ TailStart <= Cap /\ TailStart' \in Nat
    BY TailIs, AfterStep DEF TailIsLast
  <2>2. \A x \in Int : x <= TailStart' <=> x <= TailStart
    BY <1>2, TailIs, AfterStep DEF TailIsLast
  <2> QED BY <2>1, <2>2
<1>5. s < rp => e <= TailStart
  BY <1>1, TailIs
<1>6. /\ First <= s =>
           /\ Count = s - First
           /\ LiveCells = [k \in 1..Count |-> First + k - 1]
      /\ s < First =>
           /\ Count = TailStart - First + s
           /\ LiveCells = [k \in 1..Count |-> IF k <= TailStart - First THEN First + k - 1
                                              ELSE k - 1 - (TailStart - First)]
  BY CellsAre DEF CellsInOrder
<1>7. /\ rp' <= s =>
           /\ Count' = s - rp'
           /\ LiveCells' = [k \in 1..Count' |-> rp' + k - 1]
      /\ s < rp' =>
           /\ Count' = TailStart - rp' + s
           /\ LiveCells' = [k \in 1..Count' |-> IF k <= TailStart - rp' THEN rp' + k - 1
                                                ELSE k - 1 - (TailStart - rp')]
  BY <1>2, <1>4, AfterStep DEF CellsInOrder
<1>e. e = rp + want
  OBVIOUS
<1> HIDE DEF e, s
<1>8. CASE rp <= s
  <2>1. rp' = e /\ rp' <= s /\ Count = s - rp /\ Count' = s - e
    BY <1>1, <1>2, <1>6, <1>7, <1>8
  <2>2. /\ \A k \in 1..Count : LiveCells[k] = rp + k - 1
        /\ \A k \in 1..Count' : LiveCells'[k] = e + k - 1
    BY <1>1, <1>6, <1>7, <1>8, <2>1
  <2>3. Count' = Count - want
    BY <1>1, <1>3, <1>e, <2>1
  <2>4. ASSUME NEW k \in 1..Count - want
        PROVE  LiveCells'[k] = LiveCells[want + k]
    <3>1. want + k \in 1..Count /\ rp + (want + k) - 1 = e + k - 1
      BY <1>1, <1>3, <1>e, <2>1
    <3> QED BY <2>2, <2>3, <3>1
  <2> QED BY <2>3, <2>4
<1>9. CASE s < rp /\ e < Cap
  <2> DEFINE tail == TailStart - rp
             left == TailStart - e
  <2>1. rp' = e /\ s < rp' /\ Count = tail + s /\ Count' = left + s
    BY <1>1, <1>2, <1>6, <1>7, <1>9
  <2>2. tail = left + want /\ left \in Nat
    BY <1>1, <1>3, <1>4, <1>5, <1>9, <1>e
  <2>3. /\ \A k \in 1..Count : LiveCells[k] = IF k <= tail THEN rp + k - 1 ELSE k - 1 - tail
        /\ \A k \in 1..Count' : LiveCells'[k] = IF k <= left THEN e + k - 1 ELSE k - 1 - left
    BY <1>1, <1>6, <1>7, <1>9, <2>1
  <2> HIDE DEF tail, left
  <2>4. Count' = Count - want
    BY <1>1, <1>3, <2>1, <2>2
  <2>5. ASSUME NEW k \in 1..Count - want
        PROVE  LiveCells'[k] = LiveCells[want + k]
    <3>1. /\ want + k \in 1..Count /\ rp + (want + k) - 1 = e + k - 1
          /\ want + k <= tail <=> k <= left
          /\ (want + k) - 1 - tail = k - 1 - left
      BY <1>1, <1>3, <1>e, <2>1, <2>2
    <3>2. LiveCells[want + k] = IF want + k <= tail THEN rp + (want + k) - 1
                                ELSE (want + k) - 1 - tail
      BY <2>3, <3>1
    <3>3. LiveCells'[k] = IF k <= left THEN e + k - 1 ELSE k - 1 - left
      BY <2>3, <2>4
    <3> QED BY <3>1, <3>2, <3>3
  <2> QED BY <2>4, <2>5
<1>10. CASE s < rp /\ e = Cap
  <2> DEFINE tail == TailStart - rp
  <2>1. rp' = 0 /\ rp' <= s /\ Count = tail + s /\ Count' = s /\ tail = want
    BY <1>1, <1>2, <1>3, <1>4, <1>5, <1>6, <1>7, <1>10, <1>e
  <2>2. /\ \A k \in 1..Count : LiveCells[k] = IF k <= tail THEN rp + k - 1 ELSE k - 1 - tail
        /\ \A k \in 1..Count' : LiveCells'[k] = k - 1
    BY <1>1, <1>6, <1>7, <1>10, <2>1
  <2> HIDE DEF tail
  <2>3. Count' = Count - want
    BY <1>1, <1>3, <2>1
  <2>4. ASSUME NEW k \in 1..Count - want
        PROVE  LiveCells'[k] = LiveCells[want + k]
    <3>1. want + k \in 1..Count /\ ~(want + k <= tail) /\ (want + k) - 1 - tail = k - 1
      BY <1>1, <1>3, <2>1
    <3> QED BY <2>2, <2>3, <3>1
  <2> QED BY <2>3, <2>4
<1> QED BY <1>1, <1>8, <1>9, <1>10

LEMMA ReleaseDrops ==
  ASSUME QInv, IInv', Release
  PROVE  QInv' /\ Queue!Drop
<1>1. IInv
  BY DEF QInv
<1>2. /\ cpc = "release" /\ cpc' = "idle" /\ dst' = <<>> /\ UNCHANGED <<pc, w>>
      /\ \A c \in Offset \ Popped : buf'[c] = buf[c]
  <2>1. buf' = [c \in Offset |-> IF c \in Popped THEN Empty ELSE buf[c]]
    BY DEF Release, Offset
  <2> QED BY <2>1 DEF Release, Return
<1>3. /\ want \in 1..Count /\ Popped \subseteq Offset
      /\ \A k \in 1..Count : LiveCells[k] \in Popped <=> k \in 1..want
      /\ \A p \in Producers : \A c \in Popped : c \notin Region(p)
  BY <1>1, <1>2, PoppedAreFirst
<1>4. /\ Count' = Count - want
      /\ \A k \in 1..Count - want : LiveCells'[k] = LiveCells[want + k]
  BY <1>1, ReleasePlaces
<1>5. /\ Len(Held) = Count /\ Count \in Nat /\ Held = [k \in 1..Count |-> Bytes[LiveCells[k]]]
      /\ \A k \in 1..Count : LiveCells[k] \in Offset
  BY <1>1, HeldLength, HeldIs, CellsAre DEF CellsInOrder, HeldShown
<1>6. Held' = [k \in 1..Count - want |-> Bytes'[LiveCells'[k]]]
  BY <1>4, AfterStep DEF HeldShown
<1>7. \A q \in Producers : Region(q)' = Region(q)
  <2>1. SameOwners
    BY <1>2 DEF SameOwners, Owning
  <2> QED BY <2>1, SameRegion DEF SameOwners
<1>8. ASSUME NEW k \in 1..Count - want
      PROVE  Held'[k] = Held[want + k]
  <2> DEFINE c == LiveCells[want + k]
  <2>1. want + k \in 1..Count /\ ~(want + k \in 1..want)
    BY <1>3, <1>5
  <2>2. c \in Offset /\ c \notin Popped /\ LiveCells'[k] = c
    BY <1>3, <1>4, <1>5, <2>1
  <2>3. Held[want + k] = Bytes[c] /\ Held'[k] = Bytes'[c]
    BY <1>5, <1>6, <2>1, <2>2
  <2> HIDE DEF c
  <2>4. CASE \E q \in Producers : c \in Region(q)
    <3>1. PICK q \in Producers : c \in Region(q)
      BY <2>4
    <3>2. Bytes[c] = <<q>>
      BY <1>1, <3>1, BytesAre DEF BytesShown
    <3>3. Bytes'[c] = <<q>>
      BY <1>7, <3>1, AfterStep DEF BytesShown
    <3> QED BY <2>3, <3>2, <3>3
  <2>5. CASE \A q \in Producers : c \notin Region(q)
    <3>1. Bytes[c] = buf[c]
      BY <1>1, <2>2, <2>5, BytesAre DEF BytesShown
    <3>2. Bytes'[c] = buf'[c]
      BY <1>7, <2>2, <2>5, AfterStep DEF BytesShown
    <3> QED BY <1>2, <2>2, <2>3, <3>1, <3>2
  <2> QED BY <2>4, <2>5
<1>9. dst = [k \in 1..want |-> buf[crp + k - 1]]
  BY <1>2 DEF QInv, CopyIsOwn
<1>10. Len(dst) = want /\ dst # <<>> /\ want \in Nat /\ want > 0
  <2>1. want \in Nat /\ want > 0
    BY <1>3
  <2>2. Len(dst) = want
    BY <1>9, <2>1
  <2> QED BY <2>1, <2>2
<1>11. Held' = SubSeq(Held, want + 1, Count)
  <2>1. IsListed(Held, Count)
    BY <1>5 DEF IsListed
  <2>2. IsListed(Held', Count - want)
    BY <1>6 DEF IsListed
  <2> HIDE DEF Held
  <2> QED BY <1>3, <1>5, <1>8, <2>1, <2>2, RestIs
<1>12. Queue!Drop
  BY <1>2, <1>5, <1>10, <1>11 DEF Queue!Drop
<1>13. BytesAreOwn'
  <2>1. ASSUME NEW p \in Producers, NEW c \in Region(p)
        PROVE  buf'[c] = buf[c]
    <3>1. c \in Offset /\ c \notin Popped
      BY <1>1, <1>3, <2>1, BytesAre DEF BytesShown
    <3> QED BY <1>2, <3>1
  <2> QED BY <1>1, <1>2, <2>1, OwnStays DEF QInv
<1>14. CopyIsOwn'
  BY <1>2 DEF CopyIsOwn
<1> QED BY <1>12, <1>13, <1>14 DEF QInv

-----------------------------------------------------------------------------
(* The refinement.                                                         *)

LEMMA InitQueue == Init => QInv /\ Queue!Init
<1> SUFFICES ASSUME Init PROVE QInv /\ Queue!Init
  OBVIOUS
<1>1. IInv
  BY InitIInv
<1>2. BytesAreOwn /\ CopyIsOwn /\ dst = <<>>
  BY DEF Init, BytesAreOwn, CopyIsOwn
<1>3. Held = <<>>
  <2>1. First = 0 /\ wp.off = 0
    BY DEF Init, First, Zero
  <2>2. Count = 0
    BY <2>1 DEF Count
  <2>3. Held = [k \in 1..0 |-> Bytes[LiveCells[k]]]
    BY <1>1, <2>2, HeldIs DEF HeldShown
  <2>4. IsListed(Held, 0) /\ 0 \in Nat
    BY <2>3 DEF IsListed
  <2>5. Len(Held) = 0 /\ Held \in Seq(Values(Held, 0))
    BY <2>4, Listed
  <2> QED BY <2>5, EmptySeq
<1> QED BY <1>1, <1>2, <1>3 DEF QInv, Queue!Init

LEMMA StepQueue ==
  QInv /\ IInv' /\ [Next]_vars => QInv' /\ [Queue!Next]_(Queue!vars)
<1> SUFFICES ASSUME QInv, IInv', [Next]_vars
             PROVE  QInv' /\ [Queue!Next]_(Queue!vars)
  OBVIOUS
<1> DEFINE Rests == QInv' /\ UNCHANGED <<Held, dst>>
<1>1. ASSUME Rests
      PROVE  QInv' /\ [Queue!Next]_(Queue!vars)
  BY <1>1 DEF Queue!vars
<1>2. ASSUME NEW p \in Producers, Producer(p)
      PROVE  QInv' /\ [Queue!Next]_(Queue!vars)
  <2>1. CASE CasOk(p)
    <3>1. QInv' /\ \E n \in Sizes : Queue!Reserve(p, n)
      BY <2>1, SwapReserves
    <3> QED BY <3>1 DEF Queue!Next
  <2>2. CASE Push(p)
    <3>1. QInv' /\ \E n \in Sizes : Queue!Commit(p, n)
      BY <2>2, PushCommits
    <3> QED BY <3>1 DEF Queue!Next
  <2>3. CASE ~CasOk(p) /\ ~Push(p)
    <3>1. \/ Reg(p) \/ Unreg(p) \/ \E n \in Sizes : WriteCall(p, n)
          \/ LoadWp(p) \/ Mark(p) \/ CheckFails(p) \/ CheckPasses(p) \/ Fail(p)
          \/ CasFail(p) \/ Settle(p) \/ Wrap(p) \/ Unlock(p) \/ Fill(p)
      BY <1>2, <2>3 DEF Producer, ProducerStep
    <3>2. Rests
      BY <3>1, QuietRests, SettleRests, WrapRests, FillRests
    <3> QED BY <1>1, <3>2
  <2> QED BY <2>1, <2>2, <2>3
<1>3. ASSUME Consumer
      PROVE  QInv' /\ [Queue!Next]_(Queue!vars)
  <2>1. CASE Fetch
    <3>1. QInv' /\ \E n \in 1..Len(Held) : Queue!Peek(n)
      BY <2>1, FetchPeeks
    <3> QED BY <3>1 DEF Queue!Next
  <2>2. CASE Release
    BY <2>2, ReleaseDrops DEF Queue!Next
  <2>3. CASE ~Fetch /\ ~Release
    <3>1. \/ \E n \in ReadSizes : ReadCall(n)
          \/ ReadEmpty \/ ReadLoad \/ ScanUnregistered \/ ScanRegistered \/ ScanReserve
          \/ RewindMark \/ RewindRp \/ ReadShort \/ ReadEnough
      BY <1>3, <2>3 DEF Consumer, ConsumerStep
    <3>2. Rests
      BY <3>1, ScanRests, RewindRests
    <3> QED BY <1>1, <3>2
  <2> QED BY <2>1, <2>2, <2>3
<1>4. CASE UNCHANGED vars
  <2>1. Rests
    <3>1. SameOwners /\ UNCHANGED <<buf, rp, cvars>> /\ wp'.off = wp.off /\ warp_end' = warp_end
      BY <1>4 DEF vars, shared, SameOwners, Owning
    <3>2. \A q \in Producers : pc'[q] = "push" => pc[q] = "push"
      BY <1>4 DEF vars
    <3> QED BY <3>1, <3>2, SameFront, ProducerRests
  <2> QED BY <1>1, <2>1
<1> QED BY <1>2, <1>3, <1>4 DEF Next

(* The ring is a queue: records come out whole, once and in the order of   *)
(* their swaps, and the consumer never passes one that is not pushed yet,  *)
(* whatever the producers, the sizes and the wraps.                        *)
THEOREM RingIsAQueue == Spec => ImplementsQueue
<1>1. QInv /\ [Next]_vars => QInv' /\ [Queue!Next]_(Queue!vars)
  BY NextIInv, StepQueue DEF QInv
<1> QED BY <1>1, InitQueue, PTL DEF Spec, ImplementsQueue, Queue!Spec
-----------------------------------------------------------------------------
(* A record that was begun can be read to its end.  The places that bound  *)
(* a read (wp, the marks, the tail) are between two records, and stay so   *)
(* while the consumer still goes by what it loaded of them.                *)

(* The end of the record that the byte in cell c belongs to.               *)
Rest(c) == c - buf[c][2] + buf[c][3] + 1

(* What is left of a record is reserved, up to its end.                    *)
RestIsThere ==
  \A c \in Offset :
    buf[c] # Empty => 1 <= buf[c][2] /\ buf[c][2] <= buf[c][3] /\ Spans(c, Rest(c))

(* x lies inside a record: one whose bytes are in place, or one whose      *)
(* region is still owned.                                                  *)
InBytes(x)  == \E c \in Offset : /\ buf[c] # Empty /\ c <= x /\ x < Rest(c)
                                 /\ c < x \/ buf[c][2] > 1
InRegion(x) == \E p \in Producers : Owning(p) /\ Start(p) < x /\ x < End(p)
Inside(x)   == InBytes(x) \/ InRegion(x)

(* Owners started between two records, and a mark the consumer can see is  *)
(* that of an owner.                                                       *)
MarksAreCuts ==
  \A p \in Producers :
    /\ Owning(p) => ~Inside(Seen(p))
    /\ ~reserve[p].lock /\ reserve[p].pos # OffsetMax =>
         Owning(p) \/ (pc[p] = "off" /\ ~(cpc = "reserve" /\ ci = p))

(* So what the consumer has found ends between two records.                *)
ScanStopsAtCuts ==
  Scanning =>
    /\ crp < cwp => ~Inside(cwp)
    /\ ready # OffsetMax => Spans(crp, ready) /\ ~Inside(ready)

RInv == IInv /\ RestIsThere /\ MarksAreCuts /\ ScanStopsAtCuts

-----------------------------------------------------------------------------
(* Numbers, and what a step that adds no byte and no owner leaves.         *)
LEMMA RestNumbers ==
  ASSUME TypeOK, NEW c \in Offset
  PROVE  /\ c \in Int /\ buf[c][2] \in Int /\ buf[c][3] \in Int /\ Rest(c) \in Int
         /\ 1 <= buf[c][2] /\ buf[c][2] <= buf[c][3] => c < Rest(c)
<1>1. c \in Int /\ buf[c] \in Int \X Int \X Int
  BY DEF TypeOK, Offset
<1>2. buf[c][2] \in Int /\ buf[c][3] \in Int
  BY <1>1
<1> QED BY <1>1, <1>2 DEF Rest

LEMMA SameRest ==
  ASSUME NEW c \in Offset, buf'[c] = buf[c]
  PROVE  Rest(c)' = Rest(c)
BY DEF Rest

LEMMA InsideShrinks ==
  ASSUME KeptOwners, \A c \in Offset : buf'[c] = buf[c] \/ buf'[c] = Empty
  PROVE  \A x \in Int : Inside(x)' => Inside(x)
<1> SUFFICES ASSUME NEW x \in Int, Inside(x)' PROVE Inside(x)
  OBVIOUS
<1>1. CASE InBytes(x)'
  <2>1. PICK c \in Offset : /\ buf'[c] # Empty /\ c <= x /\ x < Rest(c)'
                            /\ c < x \/ buf'[c][2] > 1
    BY <1>1 DEF InBytes
  <2>2. buf'[c] = buf[c]
    BY <2>1
  <2>3. Rest(c)' = Rest(c)
    BY <2>2, SameRest
  <2> QED BY <2>1, <2>2, <2>3 DEF Inside, InBytes
<1>2. CASE InRegion(x)'
  <2>1. PICK q \in Producers : Owning(q)' /\ Start(q)' < x /\ x < End(q)'
    BY <1>2 DEF InRegion
  <2>2. Owning(q) /\ Start(q)' = Start(q) /\ End(q)' = End(q)
    BY <2>1, SameRegion DEF KeptOwners
  <2> QED BY <2>1, <2>2 DEF Inside, InRegion
<1> QED BY <1>1, <1>2 DEF Inside

LEMMA RestStays ==
  ASSUME TypeOK, RestIsThere,
         \A c \in Offset : buf'[c] = buf[c] \/ buf'[c] = Empty,
         \A c \in Offset : \A b \in Int :
           buf'[c] # Empty /\ c < b /\ Spans(c, b) => Spans(c, b)'
  PROVE  RestIsThere'
<1> SUFFICES ASSUME NEW c \in Offset, buf'[c] # Empty
             PROVE  1 <= buf'[c][2] /\ buf'[c][2] <= buf'[c][3] /\ Spans(c, Rest(c))'
  BY DEF RestIsThere
<1>1. buf'[c] = buf[c]
  OBVIOUS
<1>2. 1 <= buf[c][2] /\ buf[c][2] <= buf[c][3] /\ Spans(c, Rest(c))
  BY <1>1 DEF RestIsThere
<1>3. Rest(c) \in Int /\ c < Rest(c) /\ Rest(c)' = Rest(c)
  BY <1>1, <1>2, RestNumbers, SameRest
<1>4. Spans(c, Rest(c))'
  BY <1>2, <1>3 DEF Spans, InFront
<1> QED BY <1>1, <1>2, <1>4

(* The consumer stands still, or is not scanning afterwards.               *)
LEMMA CutsStay ==
  ASSUME RInv, IInv', KeptOwners,
         ~Scanning' \/ UNCHANGED cvars,
         \A x \in Int : Inside(x)' => Inside(x),
         \A a, b \in Int : Scanning /\ Spans(a, b) => Spans(a, b)'
  PROVE  /\ ScanStopsAtCuts'
         /\ \A q \in Producers : Owning(q)' => ~Inside(Seen(q))'
<1>1. ASSUME NEW q \in Producers, Owning(q)'
      PROVE  ~Inside(Seen(q))'
  <2>1. Owning(q) /\ Seen(q)' = Seen(q)
    BY <1>1, SameRegion DEF KeptOwners
  <2>2. Seen(q) \in Int
    BY Numbers DEF RInv, IInv
  <2>3. ~Inside(Seen(q))
    BY <2>1 DEF RInv, MarksAreCuts
  <2> QED BY <2>1, <2>2, <2>3 DEF Inside, InBytes, InRegion
<1>2. ASSUME UNCHANGED cvars
      PROVE  ScanStopsAtCuts'
  <2>1. UNCHANGED <<crp, cwp, ready>> /\ (Scanning' <=> Scanning)
    BY <1>2 DEF cvars, Scanning
  <2>2. crp \in Int /\ cwp \in Int /\ ready \in Int
    BY Numbers DEF RInv, IInv
  <2>3. SUFFICES ASSUME Scanning
                 PROVE  /\ crp < cwp => ~Inside(cwp)'
                        /\ ready # OffsetMax => Spans(crp, ready)' /\ ~Inside(ready)'
    BY <2>1 DEF ScanStopsAtCuts
  <2>4. /\ crp < cwp => ~Inside(cwp)
        /\ ready # OffsetMax => Spans(crp, ready) /\ ~Inside(ready)
    BY <2>3 DEF RInv, ScanStopsAtCuts
  <2>5. crp < cwp => ~Inside(cwp)'
    BY <2>1, <2>2, <2>4 DEF Inside, InBytes, InRegion
  <2>6. ready # OffsetMax => ~Inside(ready)'
    BY <2>1, <2>2, <2>4 DEF Inside, InBytes, InRegion
  <2>7. ready # OffsetMax => Spans(crp, ready)'
    BY <2>1, <2>2, <2>3, <2>4 DEF Spans, InFront
  <2> QED BY <2>5, <2>6, <2>7
<1>3. ASSUME ~Scanning'
      PROVE  ScanStopsAtCuts'
  BY <1>3 DEF ScanStopsAtCuts
<1> QED BY <1>1, <1>2, <1>3

(* A mark that is not locked is that of an owner.                          *)
MarkIsOwned(p) ==
  ~reserve[p].lock /\ reserve[p].pos # OffsetMax =>
    Owning(p) \/ (pc[p] = "off" /\ ~(cpc = "reserve" /\ ci = p))

LEMMA ProducerKeepsCuts ==
  ASSUME RInv, IInv', NEW p \in Producers, OthersRest(p), UNCHANGED cvars,
         Owning(p)' => Owning(p) /\ w'[p] = w[p],
         \A x \in Int : Inside(x)' => Inside(x), RestIsThere',
         \A a, b \in Int : Spans(a, b) => Spans(a, b)', MarkIsOwned(p)'
  PROVE  RInv'
<1>1. KeptOwners
  BY DEF KeptOwners, OthersRest, Owning
<1>2. ScanStopsAtCuts' /\ \A q \in Producers : Owning(q)' => ~Inside(Seen(q))'
  BY <1>1, CutsStay
<1>3. ASSUME NEW q \in Producers \ {p}
      PROVE  MarkIsOwned(q)'
  <2>1. UNCHANGED <<cpc, ci>>
    BY DEF cvars
  <2> QED BY <2>1 DEF RInv, MarksAreCuts, MarkIsOwned, OthersRest, Owning
<1>4. MarksAreCuts'
  BY <1>2, <1>3 DEF MarksAreCuts, MarkIsOwned
<1> QED BY <1>2, <1>4 DEF RInv

(* The start of the tail is where the producer that writes it down was.    *)
LEMMA WrapFront ==
  ASSUME IInv, NEW p \in Producers, Wrap(p)
  PROVE  \A x \in Int : InFront(x)' <=> InFront(x)
<1>1. pc[p] = "wrap" /\ warp_end' = Seen(p) /\ w' = w
  BY DEF Wrap, Goto, Seen
<1>2. pc'[p] = "unlock" /\ \A q \in Producers \ {p} : pc'[q] = pc[q]
  BY DEF Wrap, Goto, IInv, TypeOK
<1>3. SameOwners
  BY <1>1, <1>2 DEF SameOwners, Owning
<1>4. Wraps(p) /\ warp_end = OffsetMax /\ Seen(p) < Cap /\ Seen(p) \in Nat
  BY <1>1, Numbers DEF IInv, CallIsSound, OwnerIsSound, Owning, Wraps
<1>5. \A q \in Producers : (Wraps(q)' <=> Wraps(q)) /\ (Wraps(q) => Seen(q)' = Seen(q))
  BY <1>3, SameRegion DEF SameOwners, Wraps
<1>6. \A x \in Int : (\A q \in Producers : Wraps(q) => x <= Seen(q))'
                       <=> \A q \in Producers : Wraps(q) => x <= Seen(q)
  BY <1>5
<1>7. \A x \in Int : x <= Seen(p) => x <= Cap /\ x <= warp_end
  BY <1>4, Constants
<1> QED BY <1>1, <1>4, <1>6, <1>7 DEF InFront

(* A producer without a region moves on without one.                       *)
LEMMA QuietCuts ==
  ASSUME RInv, IInv', NEW p \in Producers, NEW from, NEW to, Goto(p, from, to),
         from \notin {"settle", "wrap", "unlock", "fill", "push"},
         to \notin {"settle", "wrap", "unlock", "fill", "push"},
         UNCHANGED <<buf, wp, rp, warp_end, cvars>>,
         \A q \in Producers \ {p} :
           w'[q] = w[q] /\ reserve'[q] = reserve[q] /\ flag'[q] = flag[q],
         \/ reserve'[p] = Clear \/ reserve'[p].lock
         \/ reserve'[p] = reserve[p] /\ from # "off"
  PROVE  RInv'
<1>1. pc[p] = from /\ pc'[p] = to /\ \A q \in Producers \ {p} : pc'[q] = pc[q]
  BY DEF Goto, RInv, IInv, TypeOK
<1>2. SameOwners /\ OthersRest(p) /\ ~Owning(p) /\ ~Owning(p)'
  BY <1>1 DEF SameOwners, OthersRest, Owning
<1>3. First' = First
  BY DEF First, cvars
<1>4. \A a, b \in Int : Spans(a, b) => Spans(a, b)'
  BY <1>2, <1>3, SameFront, SameSpans
<1>5. RestIsThere' /\ \A x \in Int : Inside(x)' => Inside(x)
  <2>1. KeptOwners /\ TypeOK /\ RestIsThere
    BY <1>2 DEF SameOwners, KeptOwners, RInv, IInv
  <2>2. \A c \in Offset : c \in Int
    BY DEF Offset
  <2> QED BY <1>4, <2>1, <2>2, RestStays, InsideShrinks
<1>6. MarkIsOwned(p)'
  <2>1. CASE reserve'[p] = Clear
    BY <2>1, IdleValues DEF MarkIsOwned, OffsetMax
  <2>2. CASE reserve'[p].lock
    BY <2>2 DEF MarkIsOwned
  <2>3. CASE reserve'[p] = reserve[p] /\ from # "off"
    BY <1>1, <1>2, <2>3 DEF MarkIsOwned, RInv, MarksAreCuts, OffsetMax
  <2> QED BY <2>1, <2>2, <2>3
<1> QED BY <1>2, <1>4, <1>5, <1>6, ProducerKeepsCuts

LEMMA SmallStepKeepsCuts ==
  ASSUME RInv, IInv', NEW p \in Producers,
         \/ Reg(p) \/ Unreg(p) \/ \E n \in Sizes : WriteCall(p, n)
         \/ LoadWp(p) \/ Mark(p) \/ CheckFails(p) \/ CheckPasses(p) \/ Fail(p) \/ CasFail(p)
  PROVE  RInv'
<1>1. /\ w \in [Producers -> Calls] /\ reserve \in [Producers -> Marks]
      /\ flag \in [Producers -> BOOLEAN]
  BY DEF RInv, IInv, TypeOK
<1>2. CASE Reg(p)
  <2>1. /\ Goto(p, "off", "open") /\ UNCHANGED <<buf, wp, rp, warp_end, w, cvars>>
        /\ reserve' = [reserve EXCEPT ![p] = Clear] /\ flag' = [flag EXCEPT ![p] = TRUE]
    BY <1>2 DEF Reg
  <2>2. /\ reserve'[p] = Clear
        /\ \A q \in Producers \ {p} :
             w'[q] = w[q] /\ reserve'[q] = reserve[q] /\ flag'[q] = flag[q]
    BY <1>1, <2>1
  <2> QED BY <2>1, <2>2, QuietCuts
<1>3. CASE Unreg(p)
  <2>1. /\ Goto(p, "open", "off") /\ UNCHANGED <<buf, wp, rp, warp_end, reserve, w, cvars>>
        /\ \A q \in Producers \ {p} : flag'[q] = flag[q]
    BY <1>1, <1>3 DEF Unreg
  <2> QED BY <2>1, QuietCuts
<1>4. CASE \E n \in Sizes : WriteCall(p, n)
  <2>1. /\ Goto(p, "open", "load") /\ UNCHANGED <<buf, wp, rp, warp_end, reserve, flag, cvars>>
        /\ \A q \in Producers \ {p} : w'[q] = w[q]
    BY <1>1, <1>4 DEF WriteCall, shared
  <2> QED BY <2>1, QuietCuts
<1>5. CASE LoadWp(p)
  <2>1. /\ Goto(p, "load", "mark") /\ UNCHANGED <<buf, wp, rp, warp_end, reserve, flag, cvars>>
        /\ \A q \in Producers \ {p} : w'[q] = w[q]
    BY <1>1, <1>5 DEF LoadWp, shared
  <2> QED BY <2>1, QuietCuts
<1>6. CASE Mark(p)
  <2>1. /\ Goto(p, "mark", "check") /\ UNCHANGED <<buf, wp, rp, warp_end, flag, w, cvars>>
        /\ \A q \in Producers \ {p} : reserve'[q] = reserve[q]
        /\ reserve'[p].lock
    BY <1>1, <1>6 DEF Mark
  <2> QED BY <2>1, QuietCuts
<1>7. CASE CheckFails(p)
  <2>1. Goto(p, "check", "fail") /\ UNCHANGED <<buf, wp, rp, warp_end, reserve, flag, w, cvars>>
    BY <1>7 DEF CheckFails, shared
  <2> QED BY <2>1, QuietCuts
<1>8. CASE CheckPasses(p)
  <2>1. Goto(p, "check", "cas") /\ UNCHANGED <<buf, wp, rp, warp_end, reserve, flag, w, cvars>>
    BY <1>8 DEF CheckPasses, shared
  <2> QED BY <2>1, QuietCuts
<1>9. CASE Fail(p)
  <2>1. /\ Goto(p, "fail", "open") /\ UNCHANGED <<buf, wp, rp, warp_end, flag, cvars>>
        /\ reserve' = [reserve EXCEPT ![p] = Clear]
        /\ \A q \in Producers \ {p} : w'[q] = w[q]
    BY <1>1, <1>9 DEF Fail
  <2>2. /\ reserve'[p] = Clear
        /\ \A q \in Producers \ {p} :
             w'[q] = w[q] /\ reserve'[q] = reserve[q] /\ flag'[q] = flag[q]
    BY <1>1, <2>1
  <2> QED BY <2>1, <2>2, QuietCuts
<1>10. CASE CasFail(p)
  <2>1. /\ Goto(p, "cas", "load") /\ UNCHANGED <<buf, wp, rp, warp_end, reserve, flag, cvars>>
        /\ \A q \in Producers \ {p} : w'[q] = w[q]
    BY <1>1, <1>10 DEF CasFail, shared
  <2> QED BY <2>1, QuietCuts
<1> QED BY <1>2, <1>3, <1>4, <1>5, <1>6, <1>7, <1>8, <1>9, <1>10

(* An owner that keeps its region, or gives it up, leaves the cuts alone:  *)
(* the bytes it fills in end where its region did.                         *)
LEMMA OwnerKeepsCuts ==
  ASSUME RInv, IInv', NEW p \in Producers, Settle(p) \/ Wrap(p) \/ Unlock(p) \/ Push(p)
  PROVE  RInv'
<1>1. /\ w \in [Producers -> Calls] /\ reserve \in [Producers -> Marks]
      /\ pc \in [Producers -> Points]
  BY DEF RInv, IInv, TypeOK
<1>2. /\ buf' = buf /\ flag' = flag /\ UNCHANGED cvars /\ Owning(p)
      /\ Owning(p)' => w'[p] = w[p]
      /\ OthersRest(p) /\ MarkIsOwned(p)'
  <2>1. CASE Push(p)
    <3>1. /\ pc[p] = "push" /\ pc' = [pc EXCEPT ![p] = "open"]
          /\ reserve' = [reserve EXCEPT ![p] = Clear] /\ w' = [w EXCEPT ![p] = NoCall]
          /\ UNCHANGED <<buf, flag, cvars>>
      BY <2>1 DEF Push, Goto
    <3>2. pc'[p] = "open" /\ reserve'[p] = Clear /\ OthersRest(p)
      BY <1>1, <3>1 DEF OthersRest
    <3>3. MarkIsOwned(p)'
      BY <3>2, IdleValues DEF MarkIsOwned, OffsetMax
    <3> QED BY <3>1, <3>2, <3>3 DEF Owning
  <2>2. CASE Settle(p) \/ Wrap(p) \/ Unlock(p)
    <3>1. /\ pc[p] \in {"settle", "wrap", "unlock"} /\ pc'[p] \in {"wrap", "unlock", "fill"}
          /\ \A q \in Producers \ {p} : pc'[q] = pc[q] /\ reserve'[q] = reserve[q]
          /\ UNCHANGED <<buf, flag, w, cvars>>
      BY <1>1, <2>2 DEF Settle, Wrap, Unlock, Goto
    <3>2. Owning(p) /\ Owning(p)'
      BY <3>1 DEF Owning
    <3>3. OthersRest(p)
      BY <3>1 DEF OthersRest
    <3>4. MarkIsOwned(p)'
      BY <3>2 DEF MarkIsOwned
    <3> QED BY <3>1, <3>2, <3>3, <3>4
  <2> QED BY <2>1, <2>2
<1>3. KeptOwners
  BY <1>2 DEF KeptOwners, OthersRest, Owning
<1>4. \A a, b \in Int : Spans(a, b) => Spans(a, b)'
  <2>1. First' = First
    BY <1>2 DEF First, cvars, Settle, Wrap, Unlock, Push
  <2>2. wp'.off = wp.off
    <3>1. CASE Unlock(p)
      <4>1. pc[p] = "unlock" /\ wp' = [NewWp(p) EXCEPT !.lock = FALSE]
        BY <3>1 DEF Unlock, Goto
      <4>2. wp = NewWp(p) /\ wp \in Words
        BY <4>1, Numbers DEF RInv, IInv, CallIsSound, OwnerIsSound, Owning
      <4> QED BY <4>1, <4>2 DEF Words
    <3> QED BY <3>1 DEF Settle, Wrap, Push
  <2>3. \A x \in Int : InFront(x)' <=> InFront(x)
    <3>1. CASE Push(p)
      BY <3>1, PushFront DEF RInv, GivesUp
    <3>2. CASE Settle(p) \/ Unlock(p)
      <4>1. SameOwners /\ warp_end' = warp_end
        BY <1>1, <1>2, <3>2 DEF SameOwners, OthersRest, Settle, Unlock, Goto, Owning
      <4> QED BY <4>1, SameFront
    <3>3. CASE Wrap(p)
      BY <3>3, WrapFront DEF RInv
    <3> QED BY <3>1, <3>2, <3>3
  <2> QED BY <2>1, <2>2, <2>3, SameSpans
<1>5. RestIsThere' /\ \A x \in Int : Inside(x)' => Inside(x)
  <2>1. TypeOK /\ RestIsThere /\ \A c \in Offset : c \in Int
    BY DEF RInv, IInv, Offset
  <2> QED BY <1>2, <1>3, <1>4, <2>1, RestStays, InsideShrinks
<1> QED BY <1>2, <1>4, <1>5, ProducerKeepsCuts

LEMMA FillKeepsCuts ==
  ASSUME RInv, IInv', NEW p \in Producers, Fill(p)
  PROVE  RInv'
<1>1. /\ pc[p] = "fill" /\ w' = w /\ UNCHANGED <<wp, rp, warp_end, flag, reserve, cvars>>
      /\ buf' = [c \in Offset |->
                   IF c \in Region(p) THEN <<p, c - Start(p) + 1, w[p].size>> ELSE buf[c]]
  BY DEF Fill, Goto, Offset
<1>2. pc'[p] = "push" /\ \A q \in Producers \ {p} : pc'[q] = pc[q]
  BY DEF Fill, Goto, RInv, IInv, TypeOK
<1>3. /\ SameOwners /\ KeptOwners /\ OthersRest(p) /\ Owning(p) /\ First' = First
      /\ MarkIsOwned(p)'
  <2>1. SameOwners /\ Owning(p) /\ Owning(p)'
    BY <1>1, <1>2 DEF SameOwners, Owning
  <2>2. OthersRest(p)
    BY <1>1, <1>2 DEF OthersRest
  <2>3. First' = First
    BY <1>1 DEF First, cvars
  <2> QED BY <2>1, <2>2, <2>3 DEF MarkIsOwned, SameOwners, KeptOwners
<1>4. \A a, b \in Int : Spans(a, b) => Spans(a, b)'
  BY <1>1, <1>3, SameFront, SameSpans
<1>5. /\ Start(p) \in Nat /\ End(p) \in Nat /\ Start(p) < End(p) /\ Spans(Start(p), End(p))
      /\ Region(p) = Start(p)..End(p) - 1 /\ End(p) = Start(p) + w[p].size /\ w[p].size \in Nat
      /\ End(p) <= Cap /\ First \in Int /\ wp.off \in Int
  BY <1>3, OwnerRange, Numbers DEF RInv, IInv, Size
<1>6. ASSUME NEW c \in Offset, c \in Region(p)
      PROVE  /\ buf'[c][2] = c - Start(p) + 1 /\ buf'[c][3] = w[p].size /\ Rest(c)' = End(p)
             /\ Start(p) <= c /\ c < End(p) /\ c \in Int
  <2>1. buf'[c] = <<p, c - Start(p) + 1, w[p].size>>
    BY <1>1, <1>6
  <2>2. buf'[c][2] = c - Start(p) + 1 /\ buf'[c][3] = w[p].size
    BY <2>1
  <2>3. Start(p) <= c /\ c < End(p) /\ c \in Int
    BY <1>5, <1>6
  <2>4. c - (c - Start(p) + 1) + w[p].size + 1 = End(p)
    BY <1>5, <2>3
  <2>5. Rest(c)' = c - buf'[c][2] + buf'[c][3] + 1
    BY DEF Rest
  <2> QED BY <2>2, <2>3, <2>4, <2>5
<1>7. ASSUME NEW c \in Offset, c \notin Region(p)
      PROVE  buf'[c] = buf[c] /\ Rest(c)' = Rest(c)
  BY <1>1, <1>7, SameRest
<1>8. RestIsThere'
  <2> SUFFICES ASSUME NEW c \in Offset, buf'[c] # Empty
               PROVE  1 <= buf'[c][2] /\ buf'[c][2] <= buf'[c][3] /\ Spans(c, Rest(c))'
    BY DEF RestIsThere
  <2>1. CASE c \in Region(p)
    <3>1. /\ buf'[c][2] = c - Start(p) + 1 /\ buf'[c][3] = w[p].size /\ Rest(c)' = End(p)
          /\ Start(p) <= c /\ c < End(p) /\ c \in Int
      BY <1>6, <2>1
    <3>2. 1 <= buf'[c][2] /\ buf'[c][2] <= buf'[c][3]
      BY <1>5, <3>1
    <3>3. Spans(c, End(p))
      BY <1>5, <3>1 DEF Spans
    <3>4. PICK b \in Int : b = End(p) /\ Spans(c, b)
      BY <1>5, <3>3
    <3>5. Spans(c, b)'
      BY <1>4, <3>1, <3>4
    <3>6. Spans(c, Rest(c))'
      BY <3>1, <3>4, <3>5 DEF Spans, InFront
    <3> QED BY <3>2, <3>6
  <2>2. CASE c \notin Region(p)
    <3>1. buf'[c] = buf[c] /\ Rest(c)' = Rest(c)
      BY <1>7, <2>2
    <3>2. 1 <= buf[c][2] /\ buf[c][2] <= buf[c][3] /\ Spans(c, Rest(c))
      BY <3>1 DEF RInv, RestIsThere
    <3>3. c \in Int /\ Rest(c) \in Int
      BY RestNumbers DEF RInv, IInv
    <3>4. Spans(c, Rest(c))'
      BY <1>4, <3>1, <3>2, <3>3 DEF Spans, InFront
    <3> QED BY <3>1, <3>2, <3>4
  <2> QED BY <2>1, <2>2
<1>9. ASSUME NEW x \in Int, Inside(x)'
      PROVE  Inside(x)
  <2>1. CASE InBytes(x)'
    <3>1. PICK c \in Offset : /\ buf'[c] # Empty /\ c <= x /\ x < Rest(c)'
                              /\ c < x \/ buf'[c][2] > 1
      BY <2>1 DEF InBytes
    <3>2. CASE c \in Region(p)
      <4>1. /\ buf'[c][2] = c - Start(p) + 1 /\ Rest(c)' = End(p)
            /\ Start(p) <= c /\ c < End(p) /\ c \in Int
        BY <1>6, <3>2
      <4>2. Start(p) < x /\ x < End(p)
        BY <1>5, <3>1, <4>1
      <4> QED BY <1>3, <4>2 DEF Inside, InRegion
    <3>3. CASE c \notin Region(p)
      <4>1. buf'[c] = buf[c] /\ Rest(c)' = Rest(c)
        BY <1>7, <3>3
      <4> QED BY <3>1, <4>1 DEF Inside, InBytes
    <3> QED BY <3>2, <3>3
  <2>2. CASE InRegion(x)'
    <3>1. PICK q \in Producers : Owning(q)' /\ Start(q)' < x /\ x < End(q)'
      BY <2>2 DEF InRegion
    <3>2. Owning(q) /\ Start(q)' = Start(q) /\ End(q)' = End(q)
      BY <1>3, <3>1, SameRegion DEF KeptOwners
    <3> QED BY <3>1, <3>2 DEF Inside, InRegion
  <2> QED BY <1>9, <2>1, <2>2 DEF Inside
<1> QED BY <1>1, <1>3, <1>4, <1>8, <1>9, ProducerKeepsCuts

(* What is reserved from in front of wp ends there: wp itself is between   *)
(* two records.                                                            *)
LEMMA FrontIsCut ==
  ASSUME RInv
  PROVE  ~Inside(wp.off)
<1>1. /\ wp.off \in Int /\ First \in Int
  BY Numbers DEF RInv, IInv
<1>2. \A a, b \in Int : Spans(a, b) /\ a <= wp.off => b <= wp.off
  BY <1>1 DEF Spans
<1>3. ~InBytes(wp.off)
  <2>1. SUFFICES ASSUME NEW c \in Offset, buf[c] # Empty, c <= wp.off, wp.off < Rest(c)
                 PROVE  FALSE
    BY DEF InBytes
  <2>2. c \in Int /\ Rest(c) \in Int /\ Spans(c, Rest(c))
    BY <2>1, RestNumbers DEF RInv, IInv, RestIsThere
  <2> QED BY <1>1, <1>2, <2>1, <2>2
<1>4. ~InRegion(wp.off)
  <2>1. SUFFICES ASSUME NEW q \in Producers, Owning(q), Start(q) < wp.off, wp.off < End(q)
                 PROVE  FALSE
    BY DEF InRegion
  <2>2. Start(q) \in Int /\ End(q) \in Int /\ Spans(Start(q), End(q))
    BY <2>1, OwnerRange DEF RInv
  <2> QED BY <1>1, <1>2, <2>1, <2>2
<1> QED BY <1>3, <1>4 DEF Inside

(* A swap reserves cells that were free: what stands at a cut still does,  *)
(* and the new owner's mark is the old wp.                                 *)
LEMMA SwapKeepsCuts ==
  ASSUME RInv, IInv', NEW p \in Producers, CasOk(p)
  PROVE  RInv'
<1> DEFINE lo == Start(p)'
           hi == End(p)'
<1>1. IInv /\ TypeOK /\ RestIsThere /\ MarksAreCuts /\ ScanStopsAtCuts
  BY DEF RInv, IInv
<1>2. /\ Owning(p)' /\ Seen(p)' = wp.off /\ lo = (IF wp'.lock THEN 0 ELSE wp.off)
      /\ hi = lo + w[p].size /\ First' = First
      /\ UNCHANGED <<buf, rp, warp_end, flag, reserve, w, cvars>>
      /\ \A q \in Producers \ {p} : pc'[q] = pc[q] /\ (Owning(q)' <=> Owning(q))
  BY <1>1, SwapGains
<1>3. \A q \in Producers \ {p} : Seen(q)' = Seen(q) /\ Start(q)' = Start(q) /\ End(q)' = End(q)
  BY <1>1, SwapOthers
<1>4. /\ \A a, b \in Int : Spans(a, b) => Spans(a, b)'
      /\ \A a, b \in Int : Spans(a, b) => b <= lo \/ hi <= a
  BY <1>1, SwapSpans
<1>5. /\ wp.off \in Nat /\ w[p].size \in Nat /\ rp \in Nat /\ First \in Nat
      /\ wp.off < rp => wp.off + w[p].size < rp
      /\ wp.off + w[p].size < Cap => ~wp'.lock
      /\ wp.off + w[p].size = Cap => ~wp'.lock
      /\ wp.off + w[p].size > Cap => w[p].size < rp /\ rp <= wp.off
      /\ crp \in Int /\ cwp \in Int /\ ready \in Int /\ lo \in Int /\ hi \in Int
      /\ wp.off < First => First = rp
      /\ wp'.lock => w[p].size < rp /\ rp <= wp.off
  <2>1. /\ wp.off \in Nat /\ w[p].size \in Nat /\ rp \in Nat /\ First \in Nat /\ Cap \in Nat
        /\ wp.off < rp => wp.off + w[p].size < rp
        /\ wp.off + w[p].size < Cap => ~wp'.lock
        /\ wp.off + w[p].size = Cap => ~wp'.lock
        /\ wp.off + w[p].size > Cap => w[p].size < rp /\ rp <= wp.off
    BY <1>1, SwapRoom, Numbers, Constants
  <2>2. crp \in Int /\ cwp \in Int /\ ready \in Int
    BY <1>1, Numbers
  <2>3. wp.off < First => First = rp
    BY <2>1 DEF First
  <2> QED BY <1>2, <2>1, <2>2, <2>3
<1> HIDE DEF lo, hi
<1>6. RestIsThere'
  <2>1. \A c \in Offset : c \in Int
    BY DEF Offset
  <2> QED BY <1>1, <1>2, <1>4, <2>1, RestStays
<1>7. ASSUME NEW x \in Int, Inside(x)'
      PROVE  Inside(x) \/ (lo < x /\ x < hi)
  <2>1. CASE InBytes(x)'
    <3>1. PICK c \in Offset : /\ buf'[c] # Empty /\ c <= x /\ x < Rest(c)'
                              /\ c < x \/ buf'[c][2] > 1
      BY <2>1 DEF InBytes
    <3>2. Rest(c)' = Rest(c) /\ buf' = buf
      BY <1>2, SameRest
    <3> QED BY <3>1, <3>2 DEF Inside, InBytes
  <2>2. CASE InRegion(x)'
    <3>1. PICK q \in Producers : Owning(q)' /\ Start(q)' < x /\ x < End(q)'
      BY <2>2 DEF InRegion
    <3>2. CASE q = p
      BY <3>1, <3>2 DEF lo, hi
    <3>3. CASE q # p
      BY <1>2, <1>3, <3>1, <3>3 DEF Inside, InRegion
    <3> QED BY <3>2, <3>3
  <2> QED BY <1>7, <2>1, <2>2 DEF Inside
<1>8. ASSUME NEW q \in Producers, Owning(q)'
      PROVE  ~Inside(Seen(q))'
  <2>1. CASE q = p
    <3>1. ~Inside(wp.off) /\ ~(lo < wp.off /\ wp.off < hi)
      BY <1>2, <1>5, FrontIsCut
    <3>2. wp.off \in Int
      BY <1>5
    <3> QED BY <1>2, <1>7, <2>1, <3>1, <3>2 DEF Inside, InBytes, InRegion
  <2>2. CASE q # p
    <3>1. Owning(q) /\ Seen(q)' = Seen(q)
      BY <1>2, <1>3, <1>8, <2>2
    <3>2. ~Inside(Seen(q))
      BY <1>1, <3>1 DEF MarksAreCuts
    <3>3. /\ Start(q) \in Int /\ End(q) \in Int /\ Start(q) < End(q) /\ Spans(Start(q), End(q))
          /\ Seen(q) \in Int
          /\ Wraps(q) => First <= Seen(q) /\ wp.off < First
          /\ ~Wraps(q) => Start(q) = Seen(q)
      BY <1>1, <3>1, OwnerRange DEF Wraps, Start, Seen
    <3>4. ~(lo < Seen(q) /\ Seen(q) < hi)
      <4>1. CASE Wraps(q)
        BY <1>2, <1>5, <3>3, <4>1
      <4>2. CASE ~Wraps(q)
        <5>1. End(q) <= lo \/ hi <= Start(q)
          BY <1>4, <3>3
        <5> QED BY <1>5, <3>3, <4>2, <5>1
      <4> QED BY <4>1, <4>2
    <3> QED BY <1>7, <3>1, <3>2, <3>3, <3>4 DEF Inside, InBytes, InRegion
  <2> QED BY <2>1, <2>2
<1>9. ScanStopsAtCuts'
  <2>1. UNCHANGED <<crp, cwp, ready, cpc, ci>> /\ (Scanning' <=> Scanning)
    BY <1>2 DEF cvars, Scanning
  <2>2. SUFFICES ASSUME Scanning
                 PROVE  /\ crp < cwp => ~Inside(cwp)'
                        /\ ready # OffsetMax => Spans(crp, ready)' /\ ~Inside(ready)'
    BY <2>1 DEF ScanStopsAtCuts
  <2>3. /\ crp < cwp => ~Inside(cwp)
        /\ ready # OffsetMax => Spans(crp, ready) /\ ~Inside(ready)
        /\ crp < cwp => Spans(crp, cwp) /\ crp <= ready
        /\ crp <= ready
    <3>1. First = rp /\ crp = rp /\ ScanIsSound
      BY <1>1, <2>2, Reading DEF Scanning
    <3> QED BY <1>1, <1>5, <2>2, <3>1 DEF ScanStopsAtCuts, ScanIsSound, Spans
  <2>4. crp < cwp => ~(lo < cwp /\ cwp < hi)
    BY <1>4, <1>5, <2>3
  <2>5. ready # OffsetMax => ~(lo < ready /\ ready < hi)
    BY <1>4, <1>5, <2>3
  <2>6. crp < cwp => ~Inside(cwp)'
    BY <1>5, <1>7, <2>1, <2>3, <2>4 DEF Inside, InBytes, InRegion
  <2>7. ready # OffsetMax => ~Inside(ready)'
    BY <1>5, <1>7, <2>1, <2>3, <2>5 DEF Inside, InBytes, InRegion
  <2>8. ready # OffsetMax => Spans(crp, ready)'
    BY <1>4, <1>5, <2>1, <2>3 DEF Spans, InFront
  <2> QED BY <2>6, <2>7, <2>8
<1>10. MarksAreCuts'
  <2>1. ASSUME NEW q \in Producers
        PROVE  MarkIsOwned(q)'
    <3>1. UNCHANGED <<cpc, ci, reserve>>
      BY <1>2 DEF cvars
    <3> QED BY <1>1, <1>2, <3>1 DEF MarkIsOwned, MarksAreCuts
  <2> QED BY <1>8, <2>1 DEF MarksAreCuts, MarkIsOwned
<1> QED BY <1>6, <1>9, <1>10 DEF RInv

-----------------------------------------------------------------------------
(* The consumer adds no byte and no owner.                                 *)
LEMMA ConsumerKeepsCuts ==
  ASSUME RInv, IInv', UNCHANGED <<flag, reserve, pc, w>>,
         cpc' = "reserve" => flag[ci'],
         \A c \in Offset : buf'[c] = buf[c] \/ buf'[c] = Empty,
         \A c \in Offset : \A b \in Int :
           buf'[c] # Empty /\ c < b /\ Spans(c, b) => Spans(c, b)',
         Scanning' =>
           /\ crp' < cwp' => ~Inside(cwp')
           /\ ready' # OffsetMax => Spans(crp, ready)' /\ ~Inside(ready')
  PROVE  RInv'
<1>1. KeptOwners /\ \A q \in Producers : Owning(q)' <=> Owning(q)
  BY DEF KeptOwners, Owning
<1>2. \A x \in Int : Inside(x)' => Inside(x)
  BY <1>1, InsideShrinks
<1>3. RestIsThere'
  BY RestStays DEF RInv, IInv
<1>4. ASSUME NEW q \in Producers
      PROVE  MarkIsOwned(q)' /\ (Owning(q)' => ~Inside(Seen(q))')
  <2>1. Seen(q)' = Seen(q) /\ Seen(q) \in Int
    BY Numbers DEF RInv, IInv, Seen
  <2>2. Owning(q)' => ~Inside(Seen(q))'
    BY <1>1, <1>2, <2>1 DEF RInv, MarksAreCuts, Inside, InBytes, InRegion
  <2>3. pc[q] = "off" => ~flag[q]
    BY DEF RInv, IInv, CallIsSound
  <2>4. MarkIsOwned(q)'
    BY <1>1, <2>3 DEF RInv, MarksAreCuts, MarkIsOwned
  <2> QED BY <2>2, <2>4
<1>5. ScanStopsAtCuts'
  <2>1. cwp' \in Int /\ ready' \in Int
    BY Numbers DEF IInv, TypeOK, Offset, AnyOffset
  <2>2. Scanning' /\ crp' < cwp' => ~Inside(cwp)'
    BY <1>2, <2>1 DEF Inside, InBytes, InRegion
  <2>3. Scanning' /\ ready' # OffsetMax => ~Inside(ready)'
    BY <1>2, <2>1 DEF Inside, InBytes, InRegion
  <2> QED BY <2>2, <2>3 DEF ScanStopsAtCuts
<1> QED BY <1>3, <1>4, <1>5 DEF RInv, MarksAreCuts, MarkIsOwned

(* A step on the locals of the consumer.                                   *)
LEMMA LocalKeepsCuts ==
  ASSUME RInv, IInv', UNCHANGED <<shared, pc, w>>, cpc # "rewind", cpc' # "rewind",
         cpc' = "reserve" => flag[ci'],
         cpc' \in {"flag", "reserve", "decide"} =>
           /\ crp' < cwp' => ~Inside(cwp')
           /\ ready' # OffsetMax => Spans(crp', ready') /\ ~Inside(ready')
  PROVE  RInv'
<1>1. UNCHANGED <<buf, wp, rp, warp_end, flag, reserve, pc, w>>
  BY DEF shared
<1>2. SameOwners /\ First' = First
  BY <1>1 DEF SameOwners, Owning, First
<1>3. /\ \A x \in Int : InFront(x)' <=> InFront(x)
      /\ \A a, b \in Int : Spans(a, b)' <=> Spans(a, b)
  BY <1>1, <1>2, SameFront, SameSpans
<1>4. Scanning' /\ ready' # OffsetMax => Spans(crp, ready)'
  <2>1. crp' \in Int /\ ready' \in Int
    BY Numbers DEF IInv, TypeOK, Offset, AnyOffset
  <2> QED BY <1>3, <2>1 DEF Scanning, Spans, InFront
<1>5. \A c \in Offset : c \in Int
  BY DEF Offset
<1> QED BY <1>1, <1>3, <1>4, <1>5, ConsumerKeepsCuts DEF Scanning

LEMMA ReturnKeepsCuts ==
  ASSUME RInv, IInv', UNCHANGED <<shared, pc, w>>, cpc # "rewind",
         cpc' \in {"idle", "load", "copy", "release"}
  PROVE  RInv'
BY LocalKeepsCuts

LEMMA ReadLoadKeepsCuts ==
  ASSUME RInv, IInv', ReadLoad
  PROVE  RInv'
<1>1. /\ cpc = "load" /\ cpc' = "flag" /\ cwp' = wp.off
      /\ UNCHANGED <<want, crp, ready, ci>>
  BY DEF ReadLoad
<1>2. UNCHANGED <<shared, pc, w>>
  BY DEF ReadLoad
<1>3. ready = OffsetMax
  BY <1>1, Reading DEF RInv
<1>4. ~Inside(cwp')
  BY <1>1, FrontIsCut
<1> QED BY <1>1, <1>2, <1>3, <1>4, LocalKeepsCuts

LEMMA ScanMovesKeepsCuts ==
  ASSUME RInv, IInv', ScanUnregistered \/ ScanRegistered
  PROVE  RInv'
<1>1. /\ cpc = "flag" /\ cpc' \in {"flag", "reserve", "decide"}
      /\ cpc' = "reserve" => flag[ci] /\ ci' = ci
      /\ UNCHANGED <<crp, cwp, ready>>
  BY DEF ScanUnregistered, ScanRegistered, NextProducer
<1>2. UNCHANGED <<shared, pc, w>>
  BY DEF ScanUnregistered, ScanRegistered
<1>3. /\ crp < cwp => ~Inside(cwp)
      /\ ready # OffsetMax => Spans(crp, ready) /\ ~Inside(ready)
  BY <1>1 DEF RInv, ScanStopsAtCuts, Scanning
<1>4. cpc' = "reserve" => flag[ci']
  BY <1>1
<1> QED BY <1>1, <1>2, <1>3, <1>4, LocalKeepsCuts

(* What an owner saw is reserved, from the consumer's end on, when it is   *)
(* not behind it.                                                          *)
LEMMA SeenIsReserved ==
  ASSUME IInv, NEW q \in Producers, Owning(q), First <= Seen(q)
  PROVE  Spans(First, Seen(q))
<1>1. /\ Start(q) \in Nat /\ End(q) \in Nat /\ Start(q) < End(q) /\ Spans(Start(q), End(q))
      /\ Seen(q) \in Nat /\ Seen(q) < Cap /\ wp.off \in Nat /\ First \in Nat /\ Cap \in Nat
      /\ Wraps(q) => First <= Seen(q) /\ wp.off < First
  BY OwnerRange, Numbers, Constants DEF IInv
<1>2. CASE Wraps(q)
  <2>1. \A p \in Producers : Wraps(p) => p = q
    BY <1>2, OneWraps
  <2>2. warp_end = OffsetMax \/ warp_end = Seen(q)
    BY <1>2 DEF IInv, CallIsSound, OwnerIsSound, Wraps, Owning
  <2>3. InFront(Seen(q))
    BY <1>1, <2>1, <2>2, Constants DEF InFront
  <2> QED BY <1>1, <1>2, <2>3 DEF Spans
<1>3. CASE ~Wraps(q)
  <2>1. Start(q) = Seen(q)
    BY <1>3 DEF Wraps, Start, Seen
  <2>2. CASE First <= wp.off
    BY <1>1, <2>1, <2>2 DEF Spans
  <2>3. CASE wp.off < First
    <3>1. InFront(End(q))
      BY <1>1, <2>1, <2>3 DEF Spans
    <3>2. \A p \in Producers : Wraps(p) => Seen(p) \in Nat
      BY Numbers DEF IInv
    <3>3. warp_end \in Nat
      BY Numbers DEF IInv
    <3>4. InFront(Seen(q))
      BY <1>1, <2>1, <3>1, <3>2, <3>3 DEF InFront
    <3> QED BY <1>1, <2>3, <3>4 DEF Spans
  <2> QED BY <1>1, <2>2, <2>3
<1> QED BY <1>2, <1>3

(* The scan takes over the mark of an owner.                               *)
LEMMA ScanReserveKeepsCuts ==
  ASSUME RInv, IInv', ScanReserve
  PROVE  RInv'
<1>1. /\ cpc = "reserve" /\ ~reserve[ci].lock /\ cpc' \in {"flag", "decide"}
      /\ ready' = (IF reserve[ci].pos >= crp /\ reserve[ci].pos < ready
                     THEN reserve[ci].pos ELSE ready)
      /\ UNCHANGED <<crp, cwp>>
  BY DEF ScanReserve, NextProducer
<1>2. UNCHANGED <<shared, pc, w>>
  BY DEF ScanReserve
<1>3. /\ crp < cwp => ~Inside(cwp)
      /\ ready # OffsetMax => Spans(crp, ready) /\ ~Inside(ready)
  BY <1>1 DEF RInv, ScanStopsAtCuts, Scanning
<1>4. First = rp /\ crp = rp /\ ci \in Producers /\ ready \in Nat /\ ready <= OffsetMax /\ crp \in Nat
  BY <1>1, Reading, Numbers DEF RInv, IInv, ScanIsSound
<1>5. CASE reserve[ci].pos >= crp /\ reserve[ci].pos < ready
  <2>1. reserve[ci].pos \in Nat
    <3>1. reserve[ci] \in Marks
      BY <1>4, Numbers DEF RInv, IInv
    <3>2. reserve[ci].pos \in AnyOffset
      BY <3>1 DEF Marks
    <3> QED BY <3>2, Constants DEF AnyOffset, Offset
  <2>2. reserve[ci].pos # OffsetMax
    BY <1>4, <1>5, <2>1, Constants
  <2>3. Owning(ci)
    BY <1>1, <1>4, <2>2 DEF RInv, MarksAreCuts
  <2>4. reserve[ci].pos = Seen(ci)
    BY <1>4, <2>3 DEF RInv, IInv, CallIsSound
  <2>5. First <= Seen(ci)
    BY <1>4, <1>5, <2>1, <2>4
  <2>6. Spans(First, Seen(ci)) /\ ~Inside(Seen(ci))
    BY <1>4, <2>3, <2>5, SeenIsReserved DEF RInv, MarksAreCuts
  <2>7. ready' = Seen(ci)
    BY <1>1, <1>5, <2>4
  <2>8. Spans(crp', ready') /\ ~Inside(ready')
    BY <1>1, <1>4, <2>6, <2>7
  <2> QED BY <1>1, <1>2, <1>3, <2>8, LocalKeepsCuts
<1>6. CASE ~(reserve[ci].pos >= crp /\ reserve[ci].pos < ready)
  <2>1. ready' = ready
    BY <1>1, <1>6
  <2> QED BY <1>1, <1>2, <1>3, <2>1, LocalKeepsCuts
<1> QED BY <1>5, <1>6

LEMMA RewindKeepsCuts ==
  ASSUME RInv, IInv', RewindMark \/ RewindRp
  PROVE  RInv'
<1>1. UNCHANGED <<buf, wp, flag, reserve, pc, w>> /\ cpc' \in {"rewind", "load"}
  BY DEF RewindMark, RewindRp
<1>2. First' = 0 /\ wp.off \in Nat
  BY Numbers DEF RInv, IInv, RewindMark, RewindRp, First
<1>3. \A c \in Offset : \A b \in Int : c < b /\ Spans(c, b) => Spans(c, b)'
  <2>1. \A c \in Offset : \A b \in Int : Spans(c, b)' <=> 0 <= c /\ b <= wp.off
    BY <1>1, <1>2 DEF Spans
  <2>2. \A c \in Offset : c \in Int /\ 0 <= c
    BY DEF Offset
  <2>3. CASE RewindRp
    <3>1. First = 0
      BY <2>3 DEF RewindRp, First
    <3> QED BY <1>2, <2>1, <2>2, <3>1 DEF Spans
  <2>4. CASE RewindMark
    <3>1. cpc = "decide" /\ cwp < crp /\ crp = DataEnd
      BY <2>4 DEF RewindMark, AtWarpEnd, Wrapped
    <3>2. First = rp /\ crp = rp /\ ScanIsSound /\ Scanning
      BY <3>1, Reading DEF RInv
    <3>3. /\ crp \in Nat /\ crp < Cap /\ Cap \in Nat /\ warp_end \in Nat /\ wp.off < crp
          /\ cwp \in Nat
      BY <3>1, <3>2, Numbers, Constants DEF RInv, IInv, ScanIsSound
    <3>4. warp_end = crp
      BY <3>1, <3>3 DEF DataEnd, Wrapped
    <3>5. ASSUME NEW c \in Offset, NEW b \in Int, c < b, Spans(c, b)
          PROVE  b <= wp.off
      BY <1>2, <2>2, <3>2, <3>3, <3>4, <3>5 DEF Spans, InFront
    <3> QED BY <2>1, <2>2, <3>5
  <2> QED BY <2>3, <2>4
<1> QED BY <1>1, <1>3, ConsumerKeepsCuts DEF Scanning

(* What is given back is gone whole; the records behind it still end where *)
(* they did.                                                               *)
LEMMA ReleaseKeepsCuts ==
  ASSUME RInv, IInv', Release
  PROVE  RInv'
<1> DEFINE e == rp + want
<1>1. /\ cpc = "release" /\ cpc' = "idle"
      /\ buf' = [c \in 0..Cap-1 |-> IF c \in Popped THEN Empty ELSE buf[c]]
      /\ UNCHANGED <<wp, warp_end, flag, reserve, pc, w>>
  BY DEF Release, Return
<1>2. /\ First' = rp' /\ rp' \in Offset
      /\ e < Cap => rp' = e
      /\ e = Cap => rp' = 0
      /\ \A x \in Int : InFront(x)' <=> InFront(x)
  BY ReleaseFront DEF RInv
<1>3. /\ crp = rp /\ First = rp /\ rp \in Nat /\ e \in Nat /\ rp < e /\ e <= Cap
      /\ wp.off \in Nat /\ wp.off < Cap /\ rp < Cap /\ Cap \in Nat
      /\ rp <= wp.off => e <= wp.off
  BY <1>1, GivenBack DEF RInv
<1>4. Offset = 0..Cap-1 /\ Popped = rp..e - 1
  <2>1. want \in Nat
    BY DEF RInv, IInv, TypeOK
  <2> QED BY <1>3, <2>1 DEF Popped, Offset
<1>5. \A a, b \in Int : Spans(a, b)' <=>
        IF rp' <= wp.off THEN rp' <= a /\ b <= wp.off
        ELSE (rp' <= a /\ InFront(b)) \/ b <= wp.off
  BY <1>1, <1>2 DEF Spans
<1>6. \A a, b \in Int : Spans(a, b) <=>
        IF rp <= wp.off THEN rp <= a /\ b <= wp.off
        ELSE (rp <= a /\ InFront(b)) \/ b <= wp.off
  BY <1>3 DEF Spans
<1> HIDE DEF e
<1>7. \A c \in Offset : buf'[c] = IF c \in rp..e - 1 THEN Empty ELSE buf[c]
  BY <1>1, <1>4
<1>8. ASSUME NEW c \in Offset, NEW b \in Int, buf'[c] # Empty, c < b, Spans(c, b)
      PROVE  Spans(c, b)'
  <2>1. c \in Int /\ 0 <= c /\ c < Cap /\ ~(rp <= c /\ c < e)
    BY <1>3, <1>4, <1>7, <1>8
  <2>2. rp' = e \/ (e = Cap /\ rp' = 0)
    BY <1>2, <1>3
  <2>3. CASE rp <= wp.off
    <3>1. rp' = e /\ e <= wp.off
      BY <1>3, <2>2, <2>3
    <3> QED BY <1>3, <1>5, <1>6, <1>8, <2>1, <2>3, <3>1
  <2>4. CASE wp.off < rp
    <3>1. b <= wp.off \/ (e <= c /\ InFront(b))
      BY <1>3, <1>6, <1>8, <2>1, <2>4
    <3>2. CASE rp' = e
      BY <1>3, <1>5, <2>1, <2>4, <3>1, <3>2
    <3>3. CASE e = Cap /\ rp' = 0
      BY <1>3, <1>5, <2>1, <2>4, <3>1, <3>3
    <3> QED BY <2>2, <3>2, <3>3
  <2> QED BY <1>3, <2>3, <2>4
<1> QED BY <1>1, <1>7, <1>8, ConsumerKeepsCuts DEF Scanning

-----------------------------------------------------------------------------
LEMMA InitRInv == Init => RInv
<1> SUFFICES ASSUME Init PROVE RInv
  OBVIOUS
<1>1. IInv
  BY InitIInv
<1>2. RestIsThere
  BY DEF Init, RestIsThere, Offset
<1>3. MarksAreCuts
  BY DEF Init, MarksAreCuts, Owning
<1>4. ScanStopsAtCuts
  BY DEF Init, ScanStopsAtCuts, Scanning
<1> QED BY <1>1, <1>2, <1>3, <1>4 DEF RInv

LEMMA NextRInv == RInv /\ [Next]_vars => RInv'
<1> SUFFICES ASSUME RInv, [Next]_vars PROVE RInv'
  OBVIOUS
<1>1. IInv'
  BY NextIInv DEF RInv
<1>2. ASSUME NEW p \in Producers, Producer(p)
      PROVE  RInv'
  BY <1>1, <1>2, SmallStepKeepsCuts, OwnerKeepsCuts, FillKeepsCuts, SwapKeepsCuts
     DEF Producer, ProducerStep
<1>3. CASE Consumer
  <2>1. CASE \/ \E n \in ReadSizes : ReadCall(n)
             \/ ReadEmpty \/ ReadShort \/ ReadEnough \/ Fetch
    <3>1. /\ UNCHANGED <<shared, pc, w>> /\ cpc # "rewind"
          /\ cpc' \in {"idle", "load", "copy", "release"}
      BY <2>1 DEF ReadCall, ReadEmpty, ReadShort, ReadEnough, Fetch, Return
    <3> QED BY <1>1, <3>1, ReturnKeepsCuts
  <2> QED BY <1>1, <1>3, <2>1, ReadLoadKeepsCuts, ScanMovesKeepsCuts, ScanReserveKeepsCuts,
             RewindKeepsCuts, ReleaseKeepsCuts DEF Consumer, ConsumerStep
<1>4. CASE UNCHANGED vars
  <2>1. UNCHANGED <<buf, wp, rp, warp_end, flag, reserve, pc, w, cvars>>
    BY <1>4 DEF vars, shared
  <2>2. UNCHANGED <<cpc, crp, cwp, ready, ci>>
    BY <2>1 DEF cvars
  <2> QED BY <1>1, <2>1, <2>2 DEF RInv, RestIsThere, Rest, Spans, First, InFront, Wraps, Owning,
             NewWp, Seen, MarksAreCuts, ScanStopsAtCuts, Scanning, Inside, InBytes, InRegion,
             Start, End, Size
<1> QED BY <1>2, <1>3, <1>4 DEF Next

(* Every mark the consumer can go by stands between two records, for any   *)
(* number of producers, any capacity and any sizes.                        *)
THEOREM CutsInvariance == Spec => []RInv
BY InitRInv, NextRInv, PTL DEF Spec

(* A read that ends with nothing: the ring was empty, or what is readable  *)
(* is less than what it wanted.                                            *)
LEMMA NothingRead ==
  ASSUME RInv, Next, cpc' = "idle", cpc \in {"load", "decide"}
  PROVE  ReadEmpty \/ ReadShort
<1>1. \A p \in Producers : ~Producer(p)
  <2>1. SUFFICES ASSUME NEW p \in Producers, Producer(p) PROVE FALSE
    OBVIOUS
  <2>2. UNCHANGED cvars
    BY <2>1 DEF Producer, ProducerStep, Reg, Unreg, WriteCall, LoadWp, Mark, CheckFails, CheckPasses,
                Fail, CasOk, CasFail, Settle, Wrap, Unlock, Fill, Push
  <2> QED BY <2>2 DEF cvars
<1> QED BY <1>1 DEF Next, Consumer, ConsumerStep, ReadCall, ReadLoad, ScanUnregistered, ScanRegistered,
            ScanReserve, NextProducer, RewindMark, RewindRp, ReadEnough, Fetch, Release

LEMMA RestFollows ==
  ASSUME RInv, ReadEmpty \/ ReadShort
  PROVE  BytesLeft(buf[rp]) = 0 \/ BytesLeft(buf[rp]) < want
<1> DEFINE c == rp
           left == Rest(c) - c
<1>1. /\ cpc \in {"load", "decide"} /\ crp = rp /\ First = rp /\ rp \in Offset
      /\ rp \in Nat /\ wp.off \in Nat /\ want \in Nat /\ cwp \in Nat /\ ready \in Nat
      /\ warp_end \in Nat /\ Cap \in Nat /\ OffsetMax = Cap + 1 /\ rp < Cap /\ wp.off < Cap
      /\ ready <= OffsetMax
  <2>1. cpc \in {"load", "decide"}
    BY DEF ReadEmpty, ReadShort
  <2> QED BY <2>1, Reading, Numbers, Constants DEF RInv, IInv
<1>2. SUFFICES ASSUME buf[c][2] > 1, BytesLeft(buf[rp]) >= want
               PROVE  FALSE
  <2>1. BytesLeft(buf[rp]) \in Int
    BY <1>1, RestNumbers DEF RInv, IInv, BytesLeft
  <2> QED BY <1>1, <1>2, <2>1, RestNumbers DEF RInv, IInv, BytesLeft
<1>3. buf[c] # Empty
  BY <1>2 DEF Empty
<1>4. /\ Spans(c, Rest(c)) /\ c < Rest(c) /\ Rest(c) \in Int
      /\ BytesLeft(buf[rp]) = Rest(c) - c
  <2>1. Spans(c, Rest(c)) /\ 1 <= buf[c][2] /\ buf[c][2] <= buf[c][3]
    BY <1>1, <1>3 DEF RInv, RestIsThere
  <2> QED BY <1>1, <1>2, <2>1, RestNumbers DEF RInv, IInv, BytesLeft, Rest
<1>5. \A x \in Int : c <= x /\ ~Inside(x) => Rest(c) <= x
  <2>1. ASSUME NEW x \in Int, c <= x, x < Rest(c)
        PROVE  Inside(x)
    BY <1>1, <1>2, <1>3, <2>1 DEF Inside, InBytes
  <2> QED BY <1>4, <2>1
<1>6. CASE ReadEmpty
  <2>1. wp.off = rp
    BY <1>1, <1>6 DEF ReadEmpty
  <2> QED BY <1>1, <1>4, <2>1 DEF Spans
<1>7. CASE ReadShort
  <2>1. cpc = "decide" /\ ReadAvail < want
    BY <1>7 DEF ReadShort
  <2>2. Scanning /\ ScanIsSound /\ ScanStopsAtCuts
    BY <2>1, Reading DEF RInv
  <2>3. /\ cwp # crp /\ crp <= ready
        /\ cwp < crp => wp.off < crp
        /\ crp < cwp => ~Inside(cwp)
        /\ ready # OffsetMax => ~Inside(ready)
    BY <2>2 DEF ScanIsSound, ScanStopsAtCuts
  <2>4. Rest(c) <= Cap
    BY <1>1, <1>4 DEF Spans, InFront
  <2>5. Rest(c) <= ready
    BY <1>1, <1>4, <1>5, <2>3, <2>4
  <2>6. Rest(c) <= DataEnd /\ DataEnd \in Int
    <3>1. CASE crp < cwp
      <4>1. DataEnd = cwp
        BY <1>1, <3>1 DEF DataEnd, Wrapped
      <4> QED BY <1>1, <1>5, <2>3, <3>1, <4>1
    <3>2. CASE cwp < crp
      <4>1. InFront(Rest(c))
        BY <1>1, <1>4, <2>3, <3>2 DEF Spans
      <4> QED BY <1>1, <2>4, <3>2, <4>1 DEF DataEnd, Wrapped, InFront
    <3> QED BY <1>1, <2>3, <3>1, <3>2
  <2>7. ReadAvail >= Rest(c) - c
    BY <1>1, <1>4, <2>5, <2>6 DEF ReadAvail
  <2>8. ReadAvail \in Int
    BY <1>1, <2>6 DEF ReadAvail
  <2> QED BY <1>1, <1>2, <1>4, <2>1, <2>7, <2>8
<1> QED BY <1>6, <1>7

(* A consumer that took the beginning of a record gets its rest at once,   *)
(* however many producers reserve, fill and wrap meanwhile: a short or an  *)
(* empty mpsc_read never splits a record (log_flush reads the payload      *)
(* right behind its header).                                               *)
THEOREM RestStaysReadable == Spec => RestIsReadable
<1>1. RInv /\ [Next]_vars =>
        [cpc' = "idle" /\ cpc \in {"load", "decide"} =>
           BytesLeft(buf[rp]) = 0 \/ BytesLeft(buf[rp]) < want]_vars
  BY NothingRead, RestFollows
<1> QED BY <1>1, CutsInvariance, PTL DEF Spec, RestIsReadable
=============================================================================
