----------------------------- MODULE Log_proof ------------------------------
(***************************************************************************)
(* Proofs about the log of Log for any number of writers, any sizes of     *)
(* header, payload and ring, and both modes: the flusher always finds the  *)
(* payload behind the header it has read, a transfer in the background is  *)
(* never disturbed, what arrives is whole, and the log implements Journal. *)
(***************************************************************************)
EXTENDS LogJournal, SequenceTheorems, TLAPS

(* The elements of the queue, pending and committed, and what has arrived  *)
(* intact: a text that is the whole payload announced by its header.       *)
Reserved  == {<<p>> : p \in Producers}
Committed == {<<p, k, n>> : p \in Producers, k \in Nat, n \in Nat}
Records   == [entry : [id : Producers \cup {0}, size : Nat], text : Seq(Committed)]

Intact ==
  {r \in Records :
     /\ Len(r.text) = r.entry.size
     /\ \A k \in 1..r.entry.size :
          r.text[k] = <<r.entry.id, Header + k, Header + r.entry.size>>}

Types ==
  /\ mode \in Modes /\ busy \in BOOLEAN /\ transfer \in BOOLEAN
  /\ pc \in [Producers -> {"idle", "acquire", "fill"}]
  /\ size \in [Producers -> Nat]
  /\ \A p \in Producers : pc[p] # "idle" => size[p] \in Payloads
  /\ fpc \in {"idle", "loop", "header", "payload", "release", "flush", "busy"}
  /\ entry \in [id : Producers \cup {0}, size : Nat]
  /\ q \in Seq(Reserved \cup Committed) /\ out \in Seq(Committed)
  /\ flush_buf \in Intact /\ sink \in Seq(Intact)

(* A committed byte has the rest of its record around it, as far as the    *)
(* flusher has not taken the front of it already.                          *)
WholeAround(k) ==
  LET b == q[k] IN
    /\ b[3] \in Sizes /\ b[2] \in 1..b[3]
    /\ k - b[2] + b[3] <= Len(q)
    /\ \A i \in 1..Len(q) :
         k - b[2] < i /\ i <= k - b[2] + b[3] => q[i] = <<b[1], b[2] + (i - k), b[3]>>

Whole == \A k \in 1..Len(q) : Len(q[k]) = 3 => WholeAround(k)

(* Where the flusher stands in the record at the front.                    *)
Front(m) ==
  /\ entry.size \in Payloads /\ m + entry.size <= Len(q)
  /\ \A k \in 1..m + entry.size :
       q[k] = <<entry.id, Header - m + k, Header + entry.size>>

FlusherIsInStep ==
  /\ fpc \notin {"header", "release"} => out = <<>>
  /\ fpc = "header" => Front(Header) /\ Len(out) = Header
  /\ fpc \in {"payload", "release"} => Front(0)
  /\ fpc = "release" => Len(out) = entry.size
  /\ fpc \in {"idle", "loop", "flush", "busy"} =>
       (Len(q) > 0 /\ Len(q[1]) = 3 => q[1][2] = 1)

(* Who owns flush_buf: the flusher, or the transfer.                       *)
OneOwnsTheBuffer ==
  /\ busy => transfer
  /\ transfer => mode = "ASYNC" /\ fpc \in {"idle", "loop", "busy"}
  /\ transfer /\ ~busy => fpc = "busy"
  /\ fpc = "busy" => (transfer <=> mode = "ASYNC") /\ ~busy

IInv == Types /\ Whole /\ FlusherIsInStep /\ OneOwnsTheBuffer

-----------------------------------------------------------------------------
(* The queue.                                                              *)

(* What tells a committed byte from a reserved place.                      *)
LEMMA Elements ==
  ASSUME NEW e \in Reserved \cup Committed
  PROVE  /\ Len(e) = 3 <=> e \in Committed
         /\ e \in Reserved => \E p \in Producers : e = <<p>>
         /\ e \in Committed => /\ e[1] \in Producers /\ e[2] \in Nat /\ e[3] \in Nat
                               /\ e = <<e[1], e[2], e[3]>>
<1>1. CASE e \in Reserved
  <2>1. PICK p \in Producers : e = <<p>>
    BY <1>1 DEF Reserved
  <2>2. Len(e) = 1
    BY <2>1
  <2>3. e \notin Committed
    <3> SUFFICES ASSUME e \in Committed PROVE FALSE
      OBVIOUS
    <3>1. PICK r \in Producers, k \in Nat, n \in Nat : e = <<r, k, n>>
      BY DEF Committed
    <3>2. Len(e) = 3
      BY <3>1
    <3> QED BY <2>2, <3>2
  <2> QED BY <2>1, <2>2, <2>3
<1>2. CASE e \in Committed
  <2>1. PICK r \in Producers, k \in Nat, n \in Nat : e = <<r, k, n>>
    BY <1>2 DEF Committed
  <2>2. Len(e) = 3 /\ e[1] = r /\ e[2] = k /\ e[3] = n
    BY <2>1
  <2>3. e \notin Reserved
    <3> SUFFICES ASSUME e \in Reserved PROVE FALSE
      OBVIOUS
    <3>1. PICK p \in Producers : e = <<p>>
      BY DEF Reserved
    <3>2. Len(e) = 1
      BY <3>1
    <3> QED BY <2>2, <3>2
  <2> QED BY <1>2, <2>1, <2>2, <2>3
<1> QED BY <1>1, <1>2

(* A record is longer than its header, and so is every size reserved.      *)
LEMMA SizesArePositive ==
  /\ Header \in Nat /\ Header > 0
  /\ \A n \in Payloads : n \in Nat /\ n > 0 /\ Header + n \in Sizes
  /\ \A n \in Sizes : n \in Nat /\ n > Header /\ n - Header \in Payloads
<1>1. Header \in Nat /\ Header > 0 /\ Payloads \subseteq Nat \ {0}
  BY LogAssumption
<1>2. ASSUME NEW n \in Sizes
      PROVE  n \in Nat /\ n > Header /\ n - Header \in Payloads
  <2>1. PICK m \in Payloads : n = Header + m
    BY DEF Sizes
  <2>2. m \in Nat /\ m > 0 /\ n - Header = m
    BY <1>1, <2>1
  <2> QED BY <1>1, <2>1, <2>2
<1> QED BY <1>1, <1>2 DEF Sizes

(* A reservation adds pending places behind all others.                    *)
LEMMA ReserveKeeps ==
  ASSUME q \in Seq(Reserved \cup Committed), Whole,
         NEW p \in Producers, NEW n \in Nat, Ring!Reserve(p, n)
  PROVE  /\ q' \in Seq(Reserved \cup Committed) /\ Whole'
         /\ Len(q') = Len(q) + n /\ out' = out
         /\ \A k \in 1..Len(q) : q'[k] = q[k]
         /\ \A k \in Len(q) + 1..Len(q) + n : q'[k] = <<p>>
<1> DEFINE E == Reserved \cup Committed
           more == [k \in 1..n |-> <<p>>]
<1>1. <<p>> \in E
  BY DEF Reserved
<1>2. more \in Seq(E) /\ Len(more) = n
  BY <1>1
<1>3. q' = q \o more /\ out' = out
  BY DEF Ring!Reserve
<1>4. /\ q' \in Seq(E) /\ Len(q') = Len(q) + n
      /\ \A i \in 1..Len(q) + n : q'[i] = IF i <= Len(q) THEN q[i] ELSE more[i - Len(q)]
  BY <1>2, <1>3, ConcatProperties
<1>5. \A k \in 1..Len(q) : q'[k] = q[k]
  BY <1>4
<1>6. ASSUME NEW k \in Len(q) + 1..Len(q) + n
      PROVE  q'[k] = <<p>>
  BY <1>4, <1>6
<1>7. ASSUME NEW k \in 1..Len(q'), Len(q'[k]) = 3
      PROVE  WholeAround(k)'
  <2>1. k \in 1..Len(q)
    <3> SUFFICES ASSUME k \notin 1..Len(q) PROVE FALSE
      OBVIOUS
    <3>0. Len(q) \in Nat /\ Len(q') = Len(q) + n
      BY <1>4
    <3>a. k \in Len(q) + 1..Len(q) + n
      BY <1>7, <3>0
    <3>1. q'[k] = <<p>>
      BY <1>6, <3>a
    <3>2. Len(<<p>>) = 1
      OBVIOUS
    <3> QED BY <1>7, <3>1, <3>2
  <2>2. q'[k] = q[k] /\ WholeAround(k)
    BY <1>5, <1>7, <2>1 DEF Whole
  <2>3. q[k] \in Committed
    BY <1>7, <2>1, <2>2, Elements
  <2> DEFINE b == q[k]
  <2>4. b[2] \in Nat /\ b[3] \in Nat
    BY <2>3, Elements
  <2>5. /\ b[3] \in Sizes /\ b[2] \in 1..b[3] /\ k - b[2] + b[3] <= Len(q)
        /\ \A i \in 1..Len(q) :
             k - b[2] < i /\ i <= k - b[2] + b[3] => q[i] = <<b[1], b[2] + (i - k), b[3]>>
    BY <2>2 DEF WholeAround
  <2>6. q'[k] = b
    BY <2>2
  <2> HIDE DEF b
  <2>7. k - b[2] + b[3] <= Len(q')
    BY <1>4, <2>4, <2>5
  <2>8. ASSUME NEW i \in 1..Len(q'), k - b[2] < i, i <= k - b[2] + b[3]
        PROVE  q'[i] = <<b[1], b[2] + (i - k), b[3]>>
    <3>1. i \in 1..Len(q)
      BY <1>4, <2>4, <2>5, <2>8
    <3> QED BY <1>5, <2>5, <2>8, <3>1
  <2> QED BY <2>5, <2>6, <2>7, <2>8 DEF WholeAround, Sizes
<1> QED BY <1>3, <1>4, <1>5, <1>6, <1>7 DEF Whole

(* A push turns all places of a reservation into one record and leaves     *)
(* what was committed before alone.                                        *)
LEMMA CommitKeeps ==
  ASSUME q \in Seq(Reserved \cup Committed), Whole,
         NEW p \in Producers, NEW n \in Sizes, Ring!Commit(p, n)
  PROVE  /\ q' \in Seq(Reserved \cup Committed) /\ Whole'
         /\ Len(q') = Len(q) /\ out' = out
         /\ \A k \in 1..Len(q) : Len(q[k]) = 3 => q'[k] = q[k]
         /\ Len(q) > 0 /\ Len(q[1]) # 3 /\ Len(q'[1]) = 3 => q'[1][2] = 1
<1> DEFINE E == Reserved \cup Committed
<1>1. PICK first \in Ring!Pending(p) :
        /\ Ring!Pending(p) = first..first + n - 1
        /\ q' = [k \in DOMAIN q |->
                   IF k \in Ring!Pending(p) THEN <<p, k - first + 1, n>> ELSE q[k]]
        /\ out' = out
  BY DEF Ring!Commit
<1> DEFINE mine == first..first + n - 1
<1>2. n \in Nat /\ n > Header /\ Header \in Nat
  BY SizesArePositive
<1>3. /\ DOMAIN q = 1..Len(q) /\ Len(q) \in Nat
      /\ \A k \in 1..Len(q) : q[k] \in E
  OBVIOUS
<1>4. /\ first \in 1..Len(q) /\ mine \subseteq 1..Len(q)
      /\ \A k \in mine : q[k] = <<p>>
  BY <1>1, <1>3 DEF Ring!Pending
<1>5. first \in Nat /\ first >= 1 /\ first + n - 1 <= Len(q)
  <2>1. first + n - 1 \in mine
    BY <1>2, <1>3, <1>4
  <2> QED BY <1>3, <1>4, <2>1
<1>6. \A k \in 1..Len(q) :
        q'[k] = IF k \in mine THEN <<p, k - first + 1, n>> ELSE q[k]
  BY <1>1, <1>3
<1>7. ASSUME NEW k \in 1..Len(q)
      PROVE  q'[k] \in E
  <2>1. CASE k \in mine
    <3>1. k - first + 1 \in Nat
      BY <1>5, <2>1
    <3>2. <<p, k - first + 1, n>> \in Committed
      BY <1>2, <3>1 DEF Committed
    <3> QED BY <1>6, <2>1, <3>2
  <2>2. CASE k \notin mine
    BY <1>3, <1>6, <2>2
  <2> QED BY <2>1, <2>2
<1>8. q' \in Seq(E) /\ Len(q') = Len(q)
  <2>1. q' \in [1..Len(q) -> E]
    BY <1>1, <1>3, <1>7
  <2> QED BY <1>3, <2>1
<1>9. ASSUME NEW k \in 1..Len(q), Len(q[k]) = 3
      PROVE  k \notin mine /\ q'[k] = q[k]
  <2>1. Len(<<p>>) = 1
    OBVIOUS
  <2>2. k \notin mine
    <3> SUFFICES ASSUME k \in mine PROVE FALSE
      OBVIOUS
    <3>1. q[k] = <<p>>
      BY <1>4
    <3> QED BY <1>9, <2>1, <3>1
  <2> QED BY <1>6, <2>2
<1>10. ASSUME NEW k \in 1..Len(q'), Len(q'[k]) = 3
       PROVE  WholeAround(k)'
  <2>0. k \in 1..Len(q)
    BY <1>8
  <2>1. CASE k \in mine
    <3>1. q'[k] = <<p, k - first + 1, n>>
      BY <1>6, <2>0, <2>1
    <3>2. q'[k][1] = p /\ q'[k][2] = k - first + 1 /\ q'[k][3] = n
      BY <3>1
    <3>3. q'[k][2] \in 1..n /\ k - q'[k][2] = first - 1
      BY <1>2, <1>5, <2>0, <2>1, <3>2
    <3>4. ASSUME NEW i \in 1..Len(q'), first - 1 < i, i <= first - 1 + n
          PROVE  q'[i] = <<p, (k - first + 1) + (i - k), n>>
      <4>1. i \in mine /\ i \in 1..Len(q)
        BY <1>2, <1>5, <1>8, <3>4
      <4>2. (k - first + 1) + (i - k) = i - first + 1
        BY <1>5, <2>0, <3>4
      <4> QED BY <1>6, <4>1, <4>2
    <3>5. first - 1 + n <= Len(q')
      BY <1>2, <1>5, <1>8
    <3> QED BY <3>2, <3>3, <3>4, <3>5 DEF WholeAround, Sizes
  <2>2. CASE k \notin mine
    <3>1. q'[k] = q[k]
      BY <1>6, <2>0, <2>2
    <3> DEFINE b == q[k]
    <3>2. /\ b[3] \in Sizes /\ b[2] \in 1..b[3] /\ k - b[2] + b[3] <= Len(q)
          /\ \A i \in 1..Len(q) :
               k - b[2] < i /\ i <= k - b[2] + b[3] => q[i] = <<b[1], b[2] + (i - k), b[3]>>
      BY <1>10, <2>0, <3>1 DEF Whole, WholeAround
    <3> HIDE DEF b
    <3>3. ASSUME NEW i \in 1..Len(q'), k - b[2] < i, i <= k - b[2] + b[3]
          PROVE  q'[i] = <<b[1], b[2] + (i - k), b[3]>>
      <4>1. i \in 1..Len(q)
        BY <1>8
      <4>2. q[i] = <<b[1], b[2] + (i - k), b[3]>>
        BY <3>2, <3>3, <4>1
      <4>3. Len(q[i]) = 3
        BY <4>2
      <4> QED BY <1>9, <4>1, <4>2, <4>3
    <3>4. q'[k] = b
      BY <3>1 DEF b
    <3> QED BY <1>8, <3>2, <3>3, <3>4 DEF WholeAround, Sizes
  <2> QED BY <2>1, <2>2
<1>11. ASSUME Len(q) > 0, Len(q[1]) # 3, Len(q'[1]) = 3
       PROVE  q'[1][2] = 1
  <2>1. 1 \in 1..Len(q)
    BY <1>3, <1>11
  <2>2. 1 \in mine
    BY <1>6, <1>11, <2>1
  <2>3. first = 1
    BY <1>5, <2>2
  <2>4. q'[1] = <<p, 1 - first + 1, n>>
    BY <1>6, <2>1, <2>2
  <2> QED BY <2>3, <2>4
<1> QED BY <1>1, <1>8, <1>9, <1>10, <1>11 DEF Whole

(* Giving the front back shifts the rest and tears nothing.                *)
LEMMA DropKeeps ==
  ASSUME q \in Seq(Reserved \cup Committed), Whole,
         NEW m \in Nat, m <= Len(q), q' = SubSeq(q, m + 1, Len(q))
  PROVE  /\ q' \in Seq(Reserved \cup Committed) /\ Whole'
         /\ Len(q') = Len(q) - m
         /\ \A k \in 1..Len(q) - m : q'[k] = q[m + k]
<1> DEFINE E == Reserved \cup Committed
<1>1. /\ q' \in Seq(E) /\ Len(q') = Len(q) - m /\ Len(q) \in Nat
      /\ \A k \in 1..Len(q) - m : q'[k] = q[m + k]
  OBVIOUS
<1>2. ASSUME NEW k \in 1..Len(q'), Len(q'[k]) = 3
      PROVE  WholeAround(k)'
  <2>1. m + k \in 1..Len(q) /\ q'[k] = q[m + k] /\ k \in Int
    BY <1>1
  <2> DEFINE b == q[m + k]
  <2>2. b \in Committed
    BY <1>1, <1>2, <2>1, Elements
  <2>3. b[2] \in Nat /\ b[3] \in Nat
    BY <2>2, Elements
  <2>4. WholeAround(m + k)
    BY <1>2, <2>1 DEF Whole
  <2>5. /\ b[3] \in Sizes /\ b[2] \in 1..b[3] /\ (m + k) - b[2] + b[3] <= Len(q)
        /\ \A i \in 1..Len(q) :
             (m + k) - b[2] < i /\ i <= (m + k) - b[2] + b[3]
               => q[i] = <<b[1], b[2] + (i - (m + k)), b[3]>>
    BY <2>4 DEF WholeAround
  <2>6. q'[k] = b
    BY <2>1
  <2> HIDE DEF b
  <2>a. Len(q') = Len(q) - m /\ Len(q) \in Nat
    BY <1>1
  <2>b. (m + k) - b[2] + b[3] <= Len(q) /\ k \in Int
    BY <2>1, <2>5
  <2>7. k - b[2] + b[3] <= Len(q')
    BY <2>3, <2>a, <2>b
  <2>8. ASSUME NEW i \in 1..Len(q'), k - b[2] < i, i <= k - b[2] + b[3]
        PROVE  q'[i] = <<b[1], b[2] + (i - k), b[3]>>
    <3>1. /\ m + i \in 1..Len(q) /\ i \in 1..Len(q) - m
          /\ (m + k) - b[2] < m + i /\ m + i <= (m + k) - b[2] + b[3]
          /\ (m + i) - (m + k) = i - k
      BY <2>3, <2>8, <2>a, <2>b
    <3>2. q[m + i] = <<b[1], b[2] + ((m + i) - (m + k)), b[3]>>
      BY <2>5, <3>1
    <3> QED BY <1>1, <3>1, <3>2
  <2> QED BY <2>5, <2>6, <2>7, <2>8 DEF WholeAround, Sizes
<1> QED BY <1>1, <1>2 DEF Whole

(* What the flusher copies is what stands at the front.                    *)
LEMMA PeekCopies ==
  ASSUME q \in Seq(Reserved \cup Committed), NEW m \in Nat, Readable(m), Ring!Peek(m)
  PROVE  /\ m <= Len(q) /\ q' = q
         /\ out' \in Seq(Committed) /\ Len(out') = m
         /\ \A k \in 1..m : out'[k] = q[k] /\ q[k] \in Committed
<1>1. m <= Len(q) /\ q' = q /\ out' = SubSeq(q, 1, m) /\ Len(q) \in Nat
  BY DEF Ring!Peek, Readable
<1>2. ASSUME NEW k \in 1..m
      PROVE  q[k] \in Committed
  <2>1. k \in 1..Len(q)
    BY <1>1
  <2>2. q[k] \in Reserved \cup Committed /\ Len(q[k]) = 3
    BY <2>1 DEF Readable
  <2> QED BY <2>2, Elements
<1>3. /\ out' \in Seq(Committed)
      /\ Len(out') = IF 1 <= m THEN m - 1 + 1 ELSE 0
      /\ \A k \in 1..m - 1 + 1 : out'[k] = q[1 + k - 1]
  BY <1>1, <1>2, SubSeqProperties
<1>4. ASSUME NEW k \in 1..m
      PROVE  out'[k] = q[k]
  <2>1. k \in 1..m - 1 + 1 /\ 1 + k - 1 = k
    OBVIOUS
  <2>2. out'[k] = q[1 + k - 1]
    BY <1>3, <2>1
  <2> QED BY <2>1, <2>2
<1> QED BY <1>1, <1>2, <1>3, <1>4

(* After a record has been taken whole, another begins at the front.       *)
LEMMA NextBegins ==
  ASSUME q \in Seq(Reserved \cup Committed), Whole,
         entry \in [id : Producers \cup {0}, size : Nat], Front(0),
         entry.size + 1 <= Len(q), Len(q[entry.size + 1]) = 3
  PROVE  q[entry.size + 1][2] = 1
<1> DEFINE n == entry.size
           b == q[n + 1]
<1>1. n \in Nat /\ n > 0 /\ Len(q) \in Nat /\ n + 1 \in 1..Len(q) /\ n \in 1..Len(q)
  BY SizesArePositive DEF Front
<1>2. WholeAround(n + 1)
  BY <1>1 DEF Whole
<1>3. b \in Committed
  BY <1>1, Elements
<1>4. b[2] \in Nat /\ b[3] \in Nat
  BY <1>3, Elements
<1>5. /\ b[2] \in 1..b[3]
      /\ \A i \in 1..Len(q) : (n + 1) - b[2] < i /\ i <= (n + 1) - b[2] + b[3]
           => q[i] = <<b[1], b[2] + (i - (n + 1)), b[3]>>
  BY <1>2 DEF WholeAround
<1>6. Header \in Nat /\ q[n] = <<entry.id, Header + n, Header + n>>
  <2>1. n \in 1..0 + entry.size /\ Header - 0 + n = Header + n /\ Header \in Nat
    BY <1>1, SizesArePositive
  <2>2. q[n] = <<entry.id, Header - 0 + n, Header + entry.size>>
    BY <2>1 DEF Front
  <2> QED BY <2>1, <2>2
<1>7. b[2] = 1
  <2> SUFFICES ASSUME b[2] # 1 PROVE FALSE
    OBVIOUS
  <2> HIDE DEF n, b
  <2>1. (n + 1) - b[2] < n /\ n <= (n + 1) - b[2] + b[3]
    BY <1>1, <1>4, <1>5
  <2>2. q[n] = <<b[1], b[2] + (n - (n + 1)), b[3]>>
    BY <1>1, <1>5, <2>1
  <2>3. b[3] = Header + n /\ b[2] + (n - (n + 1)) = Header + n
    BY <1>6, <2>2
  <2> QED BY <1>1, <1>4, <1>5, <1>6, <2>3
<1> QED BY <1>7

-----------------------------------------------------------------------------
(* The invariant.                                                          *)

(* An empty log satisfies it.                                              *)
LEMMA InitIInv == Init => IInv
<1> SUFFICES ASSUME Init PROVE IInv
  OBVIOUS
<1>1. q = <<>> /\ out = <<>> /\ Len(q) = 0
  BY DEF Init, Ring!Init
<1>2. NoRecord \in Intact
  <2>1. NoRecord.text = <<>> /\ NoRecord.entry = [id |-> 0, size |-> 0]
    BY DEF NoRecord, NoEntry
  <2>2. NoRecord \in Records
    BY DEF NoRecord, NoEntry, Records
  <2>3. Len(NoRecord.text) = 0 /\ NoRecord.entry.size = 0
    BY <2>1
  <2> QED BY <2>2, <2>3 DEF Intact
<1>3. Types
  <2>1. busy \in BOOLEAN /\ transfer \in BOOLEAN /\ mode \in Modes /\ fpc = "idle"
    BY DEF Init
  <2>2. entry \in [id : Producers \cup {0}, size : Nat]
    BY DEF Init, NoEntry
  <2>3. /\ pc \in [Producers -> {"idle", "acquire", "fill"}] /\ size \in [Producers -> Nat]
        /\ \A p \in Producers : pc[p] # "idle" => size[p] \in Payloads
    BY DEF Init
  <2>4. q \in Seq(Reserved \cup Committed) /\ out \in Seq(Committed)
    BY <1>1
  <2>5. flush_buf \in Intact /\ sink \in Seq(Intact)
    BY <1>2 DEF Init
  <2> QED BY <2>1, <2>2, <2>3, <2>4, <2>5 DEF Types
<1>4. Whole
  BY <1>1 DEF Whole
<1>5. FlusherIsInStep
  BY <1>1 DEF Init, FlusherIsInStep
<1>6. OneOwnsTheBuffer
  BY DEF Init, OneOwnsTheBuffer
<1> QED BY <1>3, <1>4, <1>5, <1>6 DEF IInv

(* A writer's step adds places behind the front or completes them.         *)
LEMMA WriterKeepsFront ==
  ASSUME IInv, Types', Whole', UNCHANGED flusher, out' = out,
         Len(q') >= Len(q),
         \A k \in 1..Len(q) : Len(q[k]) = 3 => q'[k] = q[k],
         Len(q') > 0 /\ Len(q'[1]) = 3 =>
           (q'[1][2] = 1 \/ (Len(q) > 0 /\ q'[1] = q[1]))
  PROVE  IInv'
<1> USE DEF flusher
<1>0. Types /\ FlusherIsInStep /\ OneOwnsTheBuffer /\ Header \in Nat
  BY SizesArePositive DEF IInv
<1>1. ASSUME NEW m \in {0, Header}, Front(m)
      PROVE  Front(m)'
  <2>1. entry' = entry /\ entry.size \in Nat /\ Len(q) \in Nat /\ Len(q') \in Nat /\ m \in Nat
    BY <1>0 DEF Types
  <2>2. m + entry.size <= Len(q')
    BY <1>1, <2>1 DEF Front
  <2>3. ASSUME NEW k \in 1..m + entry.size
        PROVE  q'[k] = q[k]
    <3>1. k \in 1..Len(q)
      BY <1>1, <2>1, <2>3 DEF Front
    <3>2. q[k] = <<entry.id, Header - m + k, Header + entry.size>>
      BY <1>1, <2>3 DEF Front
    <3>3. Len(q[k]) = 3
      BY <3>2
    <3> QED BY <3>1, <3>3
  <2> QED BY <1>1, <2>1, <2>2, <2>3 DEF Front
<1>2. fpc \in {"idle", "loop", "flush", "busy"} =>
        (Len(q') > 0 /\ Len(q'[1]) = 3 => q'[1][2] = 1)
  BY <1>0 DEF FlusherIsInStep
<1>3. FlusherIsInStep'
  BY <1>0, <1>1, <1>2 DEF FlusherIsInStep
<1>4. OneOwnsTheBuffer'
  BY <1>0 DEF OneOwnsTheBuffer
<1> QED BY <1>3, <1>4 DEF IInv

(* Every step of the writers keeps the invariant ...                       *)
LEMMA WriterKeepsIInv ==
  ASSUME IInv, NEW p \in Producers,
         WriterStep(p) \/ \E n \in Payloads : WriteCall(p, n)
  PROVE  IInv'
<1> USE SizesArePositive
<1>0. /\ Types /\ Whole /\ q \in Seq(Reserved \cup Committed) /\ Len(q) \in Nat
      /\ pc \in [Producers -> {"idle", "acquire", "fill"}] /\ size \in [Producers -> Nat]
      /\ \A r \in Producers : pc[r] # "idle" => size[r] \in Payloads
      /\ FlusherIsInStep
  BY DEF IInv, Types
<1>1. CASE UNCHANGED ring /\ (Drop(p) \/ \E n \in Payloads : WriteCall(p, n))
  <2>1. UNCHANGED flusher /\ q' = q /\ out' = out
    BY <1>1 DEF Drop, WriteCall, ring
  <2>2. /\ pc' \in [Producers -> {"idle", "acquire", "fill"}] /\ size' \in [Producers -> Nat]
        /\ \A r \in Producers : pc'[r] # "idle" => size'[r] \in Payloads
    <3>1. CASE Drop(p)
      BY <1>0, <3>1 DEF Drop, Goto
    <3>2. ASSUME NEW n \in Payloads, WriteCall(p, n)
          PROVE  /\ pc' \in [Producers -> {"idle", "acquire", "fill"}]
                 /\ size' \in [Producers -> Nat]
                 /\ \A r \in Producers : pc'[r] # "idle" => size'[r] \in Payloads
      <4>1. /\ pc' = [pc EXCEPT ![p] = "acquire"] /\ size' = [size EXCEPT ![p] = n]
            /\ n \in Nat
        BY <3>2 DEF WriteCall, Goto
      <4> QED BY <1>0, <4>1
    <3> QED BY <1>1, <3>1, <3>2
  <2>3. Types'
    BY <1>0, <2>1, <2>2 DEF Types, flusher
  <2>4. Whole'
    BY <1>0, <2>1 DEF Whole, WholeAround
  <2> QED BY <1>0, <2>1, <2>3, <2>4, WriterKeepsFront
<1>2. CASE Acquire(p)
  <2>1. /\ pc[p] = "acquire" /\ pc' = [pc EXCEPT ![p] = "fill"]
        /\ size' = size /\ UNCHANGED flusher /\ Ring!Reserve(p, Header + size[p])
    BY <1>2 DEF Acquire, Goto
  <2>2. Header + size[p] \in Nat /\ Header + size[p] > 0
    BY <1>0, <2>1
  <2>3. /\ q' \in Seq(Reserved \cup Committed) /\ Whole'
        /\ Len(q') = Len(q) + (Header + size[p]) /\ out' = out
        /\ \A k \in 1..Len(q) : q'[k] = q[k]
        /\ \A k \in Len(q) + 1..Len(q) + (Header + size[p]) : q'[k] = <<p>>
    BY <1>0, <2>1, <2>2, ReserveKeeps
  <2>4. /\ pc' \in [Producers -> {"idle", "acquire", "fill"}]
        /\ \A r \in Producers : pc'[r] # "idle" => size'[r] \in Payloads
    BY <1>0, <2>1
  <2>5. Types'
    BY <1>0, <2>1, <2>3, <2>4 DEF Types, flusher
  <2>6. Len(q) > 0 => q'[1] = q[1]
    BY <1>0, <2>3
  <2>7. Len(q) = 0 => q'[1] = <<p>>
    BY <1>0, <2>2, <2>3
  <2>8. Len(<<p>>) = 1
    OBVIOUS
  <2>9. Len(q') > 0 /\ Len(q'[1]) = 3 => (Len(q) > 0 /\ q'[1] = q[1])
    <3>1. Len(q) \in Nat
      BY <1>0
    <3>2. CASE Len(q) > 0
      BY <2>6, <3>2
    <3>3. CASE Len(q) = 0
      <4>1. q'[1] = <<p>>
        BY <2>7, <3>3
      <4>2. Len(q'[1]) # 3
        BY <2>8, <4>1
      <4> QED BY <4>2
    <3> QED BY <3>1, <3>2, <3>3
  <2>10. Len(q') >= Len(q)
    BY <1>0, <2>2, <2>3
  <2> QED BY <2>1, <2>3, <2>5, <2>9, <2>10, WriterKeepsFront
<1>3. CASE Push(p)
  <2>1. /\ pc[p] = "fill" /\ pc' = [pc EXCEPT ![p] = "idle"]
        /\ size' = [size EXCEPT ![p] = 0] /\ UNCHANGED flusher
        /\ Ring!Commit(p, Header + size[p])
    BY <1>3 DEF Push, Goto
  <2>2. Header + size[p] \in Sizes
    BY <1>0, <2>1
  <2>3. /\ q' \in Seq(Reserved \cup Committed) /\ Whole'
        /\ Len(q') = Len(q) /\ out' = out
        /\ \A k \in 1..Len(q) : Len(q[k]) = 3 => q'[k] = q[k]
        /\ Len(q) > 0 /\ Len(q[1]) # 3 /\ Len(q'[1]) = 3 => q'[1][2] = 1
    BY <1>0, <2>1, <2>2, CommitKeeps
  <2>4. /\ pc' \in [Producers -> {"idle", "acquire", "fill"}] /\ size' \in [Producers -> Nat]
        /\ \A r \in Producers : pc'[r] # "idle" => size'[r] \in Payloads
    BY <1>0, <2>1
  <2>5. Types'
    BY <1>0, <2>1, <2>3, <2>4 DEF Types, flusher
  <2>6. Len(q') > 0 /\ Len(q'[1]) = 3 =>
          (q'[1][2] = 1 \/ (Len(q) > 0 /\ q'[1] = q[1]))
    <3> SUFFICES ASSUME Len(q') > 0, Len(q'[1]) = 3
                 PROVE  q'[1][2] = 1 \/ (Len(q) > 0 /\ q'[1] = q[1])
      OBVIOUS
    <3>1. Len(q) > 0 /\ 1 \in 1..Len(q)
      BY <1>0, <2>3
    <3> QED BY <2>3, <3>1
  <2>7. Len(q') >= Len(q)
    BY <1>0, <2>3
  <2> QED BY <2>1, <2>3, <2>5, <2>6, <2>7, WriterKeepsFront
<1>4. (Drop(p) \/ \E n \in Payloads : WriteCall(p, n)) => UNCHANGED ring
  BY DEF Drop, WriteCall
<1> QED BY <1>1, <1>2, <1>3, <1>4 DEF WriterStep

(* ... and so does every step of the flusher that leaves the queue alone.  *)
LEMMA FlusherKeepsIInv ==
  ASSUME IInv,
         \/ FlushCall \/ LoopBusy \/ LoopEmpty \/ Flush \/ SetBusy \/ TransferDone
  PROVE  IInv'
<1>0. /\ Types /\ Whole /\ FlusherIsInStep /\ OneOwnsTheBuffer
      /\ q' = q /\ out' = out
  BY DEF IInv, FlushCall, LoopBusy, LoopEmpty, Flush, SetBusy, TransferDone, ring
<1>1. Whole'
  BY <1>0 DEF Whole, WholeAround
<1>2. CASE FlushCall \/ LoopBusy \/ LoopEmpty
  <2>1. /\ fpc \in {"idle", "loop"} /\ fpc' \in {"idle", "loop"}
        /\ UNCHANGED <<writers, mode, busy, entry, flush_buf, transfer, sink>>
    BY <1>2 DEF FlushCall, LoopBusy, LoopEmpty
  <2>2. Types'
    BY <1>0, <2>1 DEF Types, writers
  <2>3. FlusherIsInStep' /\ OneOwnsTheBuffer'
    BY <1>0, <2>1 DEF FlusherIsInStep, OneOwnsTheBuffer
  <2> QED BY <1>1, <2>2, <2>3 DEF IInv
<1>3. CASE Flush
  <2>1. /\ fpc = "flush" /\ fpc' = "busy"
        /\ IF mode = "SYNC" THEN sink' = Append(sink, flush_buf) /\ UNCHANGED transfer
                            ELSE transfer' = TRUE /\ UNCHANGED sink
        /\ UNCHANGED <<writers, mode, busy, entry, flush_buf>>
    BY <1>3 DEF Flush
  <2>2. sink' \in Seq(Intact) /\ transfer' \in BOOLEAN
    <3>1. sink \in Seq(Intact) /\ flush_buf \in Intact /\ transfer \in BOOLEAN
      BY <1>0 DEF Types
    <3>2. Append(sink, flush_buf) \in Seq(Intact)
      BY <3>1
    <3>3. sink' = Append(sink, flush_buf) \/ sink' = sink
      BY <2>1
    <3>4. transfer' = TRUE \/ transfer' = transfer
      BY <2>1
    <3>5. sink' \in Seq(Intact)
      BY <3>1, <3>2, <3>3
    <3> QED BY <3>1, <3>4, <3>5
  <2>3. Types'
    BY <1>0, <2>1, <2>2 DEF Types, writers
  <2>4. FlusherIsInStep'
    BY <1>0, <2>1 DEF FlusherIsInStep
  <2>5. mode \in {"SYNC", "ASYNC"} /\ ~transfer /\ ~busy
    BY <1>0, <2>1, LogAssumption DEF Types, OneOwnsTheBuffer
  <2>6. OneOwnsTheBuffer'
    BY <2>1, <2>5 DEF OneOwnsTheBuffer
  <2> QED BY <1>1, <2>3, <2>4, <2>6 DEF IInv
<1>4. CASE SetBusy
  <2>1. /\ fpc = "busy" /\ busy' = (mode = "ASYNC") /\ fpc' = "loop" /\ entry' = NoEntry
        /\ UNCHANGED <<writers, mode, flush_buf, transfer, sink>>
    BY <1>4 DEF SetBusy
  <2>2. NoEntry \in [id : Producers \cup {0}, size : Nat] /\ busy' \in BOOLEAN
    BY <2>1 DEF NoEntry
  <2>3. Types'
    BY <1>0, <2>1, <2>2 DEF Types, writers
  <2>4. FlusherIsInStep'
    BY <1>0, <2>1 DEF FlusherIsInStep
  <2>5. transfer <=> mode = "ASYNC"
    BY <1>0, <2>1 DEF OneOwnsTheBuffer
  <2>6. OneOwnsTheBuffer'
    BY <1>0, <2>1, <2>5 DEF OneOwnsTheBuffer
  <2> QED BY <1>1, <2>3, <2>4, <2>6 DEF IInv
<1>5. CASE TransferDone
  <2>1. /\ transfer /\ busy /\ sink' = Append(sink, flush_buf)
        /\ transfer' = FALSE /\ busy' = FALSE
        /\ UNCHANGED <<writers, mode, fpc, entry, flush_buf>>
    BY <1>5 DEF TransferDone
  <2>2. sink' \in Seq(Intact)
    BY <1>0, <2>1 DEF Types
  <2>3. Types'
    BY <1>0, <2>1, <2>2 DEF Types, writers
  <2>4. FlusherIsInStep'
    BY <1>0, <2>1 DEF FlusherIsInStep, Front
  <2>5. fpc # "busy"
    BY <1>0, <2>1 DEF OneOwnsTheBuffer
  <2>6. OneOwnsTheBuffer'
    BY <1>0, <2>1, <2>5 DEF OneOwnsTheBuffer
  <2> QED BY <1>1, <2>3, <2>4, <2>6 DEF IInv
<1> QED BY <1>2, <1>3, <1>4, <1>5

(* It reads a header at the beginning of a record: the payload follows.    *)
LEMMA ReadHeaderKeepsIInv ==
  ASSUME IInv, ReadHeader
  PROVE  IInv'
<1> USE SizesArePositive
<1>0. /\ Types /\ Whole /\ FlusherIsInStep /\ OneOwnsTheBuffer
      /\ q \in Seq(Reserved \cup Committed) /\ Len(q) \in Nat
  BY DEF IInv, Types
<1>1. /\ fpc = "loop" /\ ~busy /\ Readable(Header) /\ Ring!Peek(Header)
      /\ entry' = [id |-> q[1][1], size |-> q[1][3] - Header] /\ fpc' = "header"
      /\ UNCHANGED <<writers, mode, busy, flush_buf, transfer, sink>>
  BY DEF ReadHeader
<1>2. /\ Header <= Len(q) /\ q' = q /\ out' \in Seq(Committed) /\ Len(out') = Header
      /\ \A k \in 1..Header : out'[k] = q[k] /\ q[k] \in Committed
  BY <1>0, <1>1, PeekCopies
<1> DEFINE b == q[1]
<1>3. 1 \in 1..Len(q) /\ b \in Committed /\ Len(b) = 3
  <2>1. 1 \in 1..Header /\ 1 \in 1..Len(q)
    BY <1>0, <1>2
  <2>2. q[1] \in Committed
    BY <1>2, <2>1
  <2> QED BY <2>1, <2>2, Elements
<1>4. b[1] \in Producers /\ b[2] = 1 /\ b[3] \in Nat
  BY <1>0, <1>1, <1>3, Elements DEF FlusherIsInStep
<1>5. /\ b[3] \in Sizes /\ 1 - b[2] + b[3] <= Len(q)
      /\ \A i \in 1..Len(q) :
           1 - b[2] < i /\ i <= 1 - b[2] + b[3] => q[i] = <<b[1], b[2] + (i - 1), b[3]>>
  BY <1>0, <1>3 DEF Whole, WholeAround
<1>6. b[3] - Header \in Payloads /\ b[3] - Header \in Nat /\ Header + (b[3] - Header) = b[3]
  BY <1>4, <1>5
<1>7. entry'.id = b[1] /\ entry'.size = b[3] - Header
  BY <1>1
<1> HIDE DEF b
<1>8. entry' \in [id : Producers \cup {0}, size : Nat]
  BY <1>1, <1>4, <1>6 DEF b
<1>9. Front(Header)'
  <2>1. ASSUME NEW k \in 1..Header + (b[3] - Header)
        PROVE  q[k] = <<b[1], Header - Header + k, Header + (b[3] - Header)>>
    <3>1. /\ k \in 1..Len(q) /\ 1 - b[2] < k /\ k <= 1 - b[2] + b[3]
          /\ b[2] + (k - 1) = Header - Header + k
      <4>1. /\ Header \in Nat /\ Len(q) \in Nat /\ b[2] = 1 /\ b[3] \in Nat
            /\ Header + (b[3] - Header) = b[3]
        BY <1>0, <1>4, <1>6
      <4>2. 1 - b[2] + b[3] <= Len(q)
        BY <1>5
      <4>3. k \in 1..b[3]
        BY <2>1, <4>1
      <4> QED BY <4>1, <4>2, <4>3
    <3> QED BY <1>5, <1>6, <3>1
  <2>2. Header + (b[3] - Header) <= Len(q)
    BY <1>4, <1>5, <1>6
  <2> QED BY <1>2, <1>6, <1>7, <2>1, <2>2 DEF Front
<1>10. Types'
  BY <1>0, <1>1, <1>2, <1>8 DEF Types, writers
<1>11. Whole'
  BY <1>0, <1>2 DEF Whole, WholeAround
<1>12. FlusherIsInStep'
  BY <1>1, <1>2, <1>9 DEF FlusherIsInStep
<1>13. ~transfer
  BY <1>0, <1>1 DEF OneOwnsTheBuffer
<1>14. OneOwnsTheBuffer'
  BY <1>1, <1>13 DEF OneOwnsTheBuffer
<1> QED BY <1>10, <1>11, <1>12, <1>14 DEF IInv

(* It gives the header back: the payload is at the front.                  *)
LEMMA ReleaseHeaderKeepsIInv ==
  ASSUME IInv, ReleaseHeader
  PROVE  IInv'
<1> USE SizesArePositive
<1>0. /\ Types /\ Whole /\ FlusherIsInStep /\ OneOwnsTheBuffer
      /\ q \in Seq(Reserved \cup Committed) /\ Len(q) \in Nat
  BY DEF IInv, Types
<1>1. /\ fpc = "header" /\ fpc' = "payload" /\ Ring!Drop
      /\ UNCHANGED <<writers, mode, busy, entry, flush_buf, transfer, sink>>
  BY DEF ReleaseHeader
<1>2. Front(Header) /\ Len(out) = Header
  BY <1>0, <1>1 DEF FlusherIsInStep
<1>3. entry.size \in Payloads /\ entry.size \in Nat /\ Header + entry.size <= Len(q)
  BY <1>2 DEF Front
<1>4. /\ q' = SubSeq(q, Header + 1, Len(q)) /\ out' = <<>> /\ Header <= Len(q)
  BY <1>0, <1>1, <1>2, <1>3 DEF Ring!Drop
<1>5. /\ q' \in Seq(Reserved \cup Committed) /\ Whole' /\ Len(q') = Len(q) - Header
      /\ \A k \in 1..Len(q) - Header : q'[k] = q[Header + k]
  BY <1>0, <1>4, DropKeeps
<1>6. Front(0)'
  <2>1. 0 + entry.size <= Len(q')
    BY <1>0, <1>3, <1>5
  <2>2. ASSUME NEW k \in 1..0 + entry.size
        PROVE  q'[k] = <<entry.id, Header - 0 + k, Header + entry.size>>
    <3>1. /\ k \in 1..Len(q) - Header /\ Header + k \in 1..Header + entry.size
          /\ Header - Header + (Header + k) = Header - 0 + k
      BY <1>0, <1>3, <2>2
    <3>2. q[Header + k] =
            <<entry.id, Header - Header + (Header + k), Header + entry.size>>
      BY <1>2, <3>1 DEF Front
    <3> QED BY <1>5, <3>1, <3>2
  <2>3. entry' = entry
    BY <1>1
  <2> QED BY <1>3, <2>1, <2>2, <2>3 DEF Front
<1>7. Types'
  <2>1. out' \in Seq(Committed)
    BY <1>4
  <2> QED BY <1>0, <1>1, <1>5, <2>1 DEF Types, writers
<1>8. FlusherIsInStep'
  BY <1>1, <1>4, <1>6 DEF FlusherIsInStep
<1>9. OneOwnsTheBuffer'
  BY <1>0, <1>1 DEF OneOwnsTheBuffer
<1> QED BY <1>5, <1>7, <1>8, <1>9 DEF IInv

(* It formats the payload: what it holds then is a whole record.           *)
LEMMA ReadPayloadKeepsIInv ==
  ASSUME IInv, ReadPayload
  PROVE  IInv'
<1> USE SizesArePositive
<1>0. /\ Types /\ Whole /\ FlusherIsInStep /\ OneOwnsTheBuffer
      /\ q \in Seq(Reserved \cup Committed)
      /\ entry \in [id : Producers \cup {0}, size : Nat]
  BY DEF IInv, Types
<1>1. /\ fpc = "payload" /\ fpc' = "release"
      /\ Readable(entry.size) /\ Ring!Peek(entry.size)
      /\ flush_buf' = [entry |-> entry, text |-> out']
      /\ UNCHANGED <<writers, mode, busy, entry, transfer, sink>>
  BY DEF ReadPayload
<1>2. Front(0) /\ entry.size \in Nat
  BY <1>0, <1>1 DEF FlusherIsInStep
<1>3. /\ q' = q /\ out' \in Seq(Committed) /\ Len(out') = entry.size
      /\ \A k \in 1..entry.size : out'[k] = q[k]
  BY <1>0, <1>1, <1>2, PeekCopies
<1>4. flush_buf' \in Intact
  <2>1. flush_buf'.entry = entry /\ flush_buf'.text = out' /\ flush_buf' \in Records
    BY <1>0, <1>1, <1>3 DEF Records
  <2>2. ASSUME NEW k \in 1..entry.size
        PROVE  out'[k] = <<entry.id, Header + k, Header + entry.size>>
    <3>1. k \in 1..0 + entry.size /\ Header - 0 + k = Header + k
      BY <1>2, <2>2
    <3>2. q[k] = <<entry.id, Header - 0 + k, Header + entry.size>>
      BY <1>2, <3>1 DEF Front
    <3> QED BY <1>3, <3>1, <3>2
  <2> QED BY <1>3, <2>1, <2>2 DEF Intact
<1>5. Types'
  BY <1>0, <1>1, <1>3, <1>4 DEF Types, writers
<1>6. Whole'
  BY <1>0, <1>3 DEF Whole, WholeAround
<1>7. Front(0)'
  BY <1>1, <1>2, <1>3 DEF Front
<1>8. FlusherIsInStep'
  BY <1>1, <1>3, <1>7 DEF FlusherIsInStep
<1>9. OneOwnsTheBuffer'
  BY <1>0, <1>1 DEF OneOwnsTheBuffer
<1> QED BY <1>5, <1>6, <1>8, <1>9 DEF IInv

(* It gives the payload back: what follows begins a record.                *)
LEMMA ReleasePayloadKeepsIInv ==
  ASSUME IInv, ReleasePayload
  PROVE  IInv'
<1> USE SizesArePositive
<1>0. /\ Types /\ Whole /\ FlusherIsInStep /\ OneOwnsTheBuffer
      /\ q \in Seq(Reserved \cup Committed) /\ Len(q) \in Nat
      /\ entry \in [id : Producers \cup {0}, size : Nat]
  BY DEF IInv, Types
<1>1. /\ fpc = "release" /\ fpc' = "flush" /\ Ring!Drop
      /\ UNCHANGED <<writers, mode, busy, entry, flush_buf, transfer, sink>>
  BY DEF ReleasePayload
<1>2. Front(0) /\ Len(out) = entry.size
  BY <1>0, <1>1 DEF FlusherIsInStep
<1>3. entry.size \in Nat /\ entry.size > 0 /\ entry.size <= Len(q)
  BY <1>2 DEF Front
<1>4. q' = SubSeq(q, entry.size + 1, Len(q)) /\ out' = <<>>
  BY <1>1, <1>2 DEF Ring!Drop
<1>5. /\ q' \in Seq(Reserved \cup Committed) /\ Whole' /\ Len(q') = Len(q) - entry.size
      /\ \A k \in 1..Len(q) - entry.size : q'[k] = q[entry.size + k]
  BY <1>0, <1>3, <1>4, DropKeeps
<1>6. ASSUME Len(q') > 0, Len(q'[1]) = 3
      PROVE  q'[1][2] = 1
  <2>1. entry.size + 1 <= Len(q) /\ q'[1] = q[entry.size + 1]
    BY <1>0, <1>3, <1>5, <1>6
  <2> QED BY <1>0, <1>2, <1>6, <2>1, NextBegins
<1>7. Types'
  <2>1. out' \in Seq(Committed)
    BY <1>4
  <2> QED BY <1>0, <1>1, <1>5, <2>1 DEF Types, writers
<1>8. FlusherIsInStep'
  BY <1>1, <1>4, <1>6 DEF FlusherIsInStep
<1>9. OneOwnsTheBuffer'
  BY <1>0, <1>1 DEF OneOwnsTheBuffer
<1> QED BY <1>5, <1>7, <1>8, <1>9 DEF IInv

(* Every step of the log preserves the invariant.                          *)
LEMMA NextIInv ==
  ASSUME IInv, [Next]_vars
  PROVE  IInv'
<1>1. CASE UNCHANGED vars
  BY <1>1 DEF vars, ring, writers, flusher, IInv, Types, Whole, WholeAround,
     FlusherIsInStep, Front, OneOwnsTheBuffer
<1>2. CASE Next
  BY <1>2, WriterKeepsIInv, FlusherKeepsIInv, ReadHeaderKeepsIInv,
     ReleaseHeaderKeepsIInv, ReadPayloadKeepsIInv, ReleasePayloadKeepsIInv
     DEF Next, FlushStep
<1> QED BY <1>1, <1>2

-----------------------------------------------------------------------------
(* Theorems of the specification.                                          *)

(* The inductive invariant holds of every log.                             *)
THEOREM LogInvariance == Spec => []IInv
<1>1. Init => IInv
  BY InitIInv
<1>2. IInv /\ [Next]_vars => IInv'
  BY NextIInv
<1> QED BY <1>1, <1>2, PTL DEF Spec

(* The payload behind a header the flusher has read is complete and its    *)
(* own, however many writers reserve and push in the meantime.             *)
THEOREM PayloadFollows == Spec => []HeaderBelongsToPayload
<1>1. IInv => HeaderBelongsToPayload
  <2> SUFFICES ASSUME IInv, fpc = "payload"
               PROVE  /\ Readable(entry.size)
                      /\ \A k \in 1..entry.size :
                           q[k] = <<entry.id, Header + k, Header + entry.size>>
    BY DEF HeaderBelongsToPayload
  <2>1. Front(0) /\ Header \in Nat /\ entry.size \in Nat
    BY SizesArePositive DEF IInv, FlusherIsInStep, Front
  <2>2. ASSUME NEW k \in 1..entry.size
        PROVE  q[k] = <<entry.id, Header + k, Header + entry.size>>
    <3>1. k \in 1..0 + entry.size /\ Header - 0 + k = Header + k
      BY <2>1
    <3> QED BY <2>1, <3>1 DEF Front
  <2>3. Len(q) >= entry.size
    BY <2>1 DEF Front, IInv, Types
  <2>4. \A k \in 1..entry.size : Len(q[k]) = 3
    BY <2>2
  <2> QED BY <2>2, <2>3, <2>4 DEF Readable
<1> QED BY <1>1, LogInvariance, PTL

(* A transfer that f_flush has started reads a buffer nobody writes, and   *)
(* is over before the next one starts.                                     *)
THEOREM TransferIsAlone == Spec => TransferIsUndisturbed
<1>1. IInv /\ [Next]_vars =>
        [transfer => flush_buf' = flush_buf /\ (transfer' => fpc' # "flush")]_vars
  <2> SUFFICES ASSUME IInv, Next, transfer
               PROVE  flush_buf' = flush_buf /\ (transfer' => fpc' # "flush")
    OBVIOUS
  <2>1. fpc \in {"idle", "loop", "busy"}
    BY DEF IInv, OneOwnsTheBuffer
  <2>2. ASSUME NEW p \in Producers, WriterStep(p) \/ \E n \in Payloads : WriteCall(p, n)
        PROVE  UNCHANGED flusher
    BY <2>2 DEF WriterStep, Acquire, Drop, Push, WriteCall
  <2>3. CASE FlushStep
    BY <2>1, <2>3 DEF FlushStep, FlushCall, LoopBusy, LoopEmpty, ReadHeader,
       ReleaseHeader, ReadPayload, ReleasePayload, Flush, SetBusy
  <2>4. CASE TransferDone
    BY <2>1, <2>4 DEF TransferDone
  <2> QED BY <2>1, <2>2, <2>3, <2>4 DEF Next, flusher
<1> QED BY <1>1, LogInvariance, PTL DEF Spec, TransferIsUndisturbed

(* What arrives is whole: each text is the complete payload announced by   *)
(* the header it came with, in both modes.                                 *)
THEOREM ArrivesWhole == Spec => [](sink \in Seq(Intact))
<1>1. IInv => sink \in Seq(Intact)
  BY DEF IInv, Types
<1> QED BY <1>1, LogInvariance, PTL

-----------------------------------------------------------------------------
(* The log implements Journal.  at says where the records in waiting lie   *)
(* in the queue: record j takes the places behind at[j].  One that the     *)
(* flusher has taken the front of begins before the queue does.            *)
Waiting == [id : Producers, size : Payloads, done : BOOLEAN]

EndOf(w, at, j) == at[j] + Header + w[j].size

Mark(p) == <<p>>

Cell(w, j, i) ==
  IF w[j].done THEN <<w[j].id, i, Header + w[j].size>> ELSE Mark(w[j].id)

(* The records w fill the queue r one behind the other.                    *)
Laid(w, at, r) ==
  /\ w \in Seq(Waiting) /\ at \in Seq(Int) /\ Len(at) = Len(w) /\ Len(r) \in Nat
  /\ \A j \in 1..Len(w)-1 : at[j + 1] = EndOf(w, at, j)
  /\ IF Len(w) = 0 THEN Len(r) = 0 ELSE EndOf(w, at, Len(w)) = Len(r)
  /\ \A j \in 1..Len(w) : ~w[j].done => at[j] >= 0
  /\ \A j \in 1..Len(w) : \A i \in 1..Header + w[j].size :
       at[j] + i >= 1 => at[j] + i <= Len(r) /\ r[at[j] + i] = Cell(w, j, i)
  /\ \A k \in 1..Len(r) : \E j \in 1..Len(w) : at[j] < k /\ k <= EndOf(w, at, j)

(* A record that is not complete is the one its writer is filling.         *)
Filling(w, c, s) ==
  /\ \A j \in 1..Len(w) : ~w[j].done => c[w[j].id] = "fill" /\ s[w[j].id] = w[j].size
  /\ \A j, k \in 1..Len(w) : ~w[j].done /\ ~w[k].done /\ w[j].id = w[k].id => j = k

(* What a record that waits is made of.                                    *)
LEMMA LaidTypes ==
  ASSUME NEW w \in Seq(Waiting), NEW j \in 1..Len(w)
  PROVE  /\ w[j].id \in Producers /\ w[j].size \in Nat /\ w[j].size > 0 /\ w[j].size \in Payloads
         /\ w[j].done \in BOOLEAN /\ Header + w[j].size \in Nat /\ Header \in Nat /\ Header > 0
<1>1. w[j] \in Waiting
  OBVIOUS
<1>2. w[j].id \in Producers /\ w[j].size \in Payloads /\ w[j].done \in BOOLEAN
  BY <1>1 DEF Waiting
<1> QED BY <1>2, SizesArePositive

(* What the steps of the queue do to it, from r to s: n places are         *)
(* reserved for p, the places of p behind first are committed, the first m *)
(* bytes are given back.                                                   *)
Reserves(r, s, p, n) ==
  /\ Len(s) = Len(r) + n
  /\ \A k \in 1..Len(r) : s[k] = r[k]
  /\ \A k \in Len(r) + 1..Len(r) + n : s[k] = Mark(p)

Commits(r, s, p, n, first) ==
  /\ first \in 1..Len(r) /\ first + n - 1 <= Len(r)
  /\ \A k \in 1..Len(r) : r[k] = Mark(p) <=> k \in first..first + n - 1
  /\ Len(s) = Len(r)
  /\ \A k \in 1..Len(r) :
       s[k] = IF k \in first..first + n - 1 THEN <<p, k - first + 1, n>> ELSE r[k]

GivesBack(r, s, m) ==
  /\ m \in Nat /\ m <= Len(r) /\ Len(s) = Len(r) - m
  /\ \A k \in 1..Len(r) - m : s[k] = r[m + k]
  /\ \A k \in 1..m : Len(r[k]) = 3

(* A new record behind all others.                                         *)
LEMMA LaidReserve ==
  ASSUME NEW w, NEW at, NEW r, NEW s, Laid(w, at, r), NEW p \in Producers, NEW m \in Payloads,
         Reserves(r, s, p, Header + m),
         NEW e \in Waiting, e.id = p, e.size = m, e.done = FALSE
  PROVE  /\ Laid(Append(w, e), Append(at, Len(r)), s)
         /\ Len(w) = 0 => Len(r) = 0
<1> USE DEF Reserves
<1> DEFINE n == Len(w)
           v == Append(w, e)
           b == Append(at, Len(r))
<1>1. /\ w \in Seq(Waiting) /\ at \in Seq(Int) /\ Len(at) = n /\ n \in Nat /\ Len(r) \in Nat
      /\ Header \in Nat /\ Header > 0 /\ m \in Nat
  BY SizesArePositive DEF Laid
<1>2. /\ v \in Seq(Waiting) /\ Len(v) = n + 1 /\ v[n + 1] = e
      /\ \A j \in 1..n : v[j] = w[j]
      /\ b \in Seq(Int) /\ Len(b) = n + 1 /\ b[n + 1] = Len(r)
      /\ \A j \in 1..n : b[j] = at[j]
  BY <1>1, AppendProperties
<1> HIDE DEF v, b
<1>3. /\ \A j \in 1..n : EndOf(v, b, j) = EndOf(w, at, j)
      /\ EndOf(v, b, n + 1) = Len(s)
  <2>1. \A j \in 1..n : EndOf(v, b, j) = EndOf(w, at, j)
    BY <1>2 DEF EndOf
  <2>2. EndOf(v, b, n + 1) = Len(r) + Header + m
    BY <1>2 DEF EndOf
  <2> QED BY <1>1, <2>1, <2>2
<1>4. \A j \in 1..n : \A i : Cell(v, j, i) = Cell(w, j, i)
  BY <1>2 DEF Cell
<1>5. Len(s) \in Nat /\ Len(r) <= Len(s)
  BY <1>1
<1>6. \A j \in 1..Len(v)-1 : b[j + 1] = EndOf(v, b, j)
  <2> TAKE j \in 1..Len(v)-1
  <2>1. j \in 1..n
    BY <1>1, <1>2
  <2>2. CASE j < n
    <3>1. j \in 1..n-1 /\ j + 1 \in 1..n
      BY <1>1, <2>1, <2>2
    <3> QED BY <1>2, <1>3, <2>1, <3>1 DEF Laid
  <2>3. CASE j = n
    <3>1. n # 0
      BY <1>1, <2>1
    <3>2. EndOf(w, at, n) = Len(r)
      BY <3>1 DEF Laid
    <3> QED BY <1>2, <1>3, <2>1, <2>3, <3>2
  <2> QED BY <1>1, <2>1, <2>2, <2>3
<1>7. \A j \in 1..Len(v) : ~v[j].done => b[j] >= 0
  <2> TAKE j \in 1..Len(v)
  <2>1. CASE j \in 1..n
    BY <1>2, <2>1 DEF Laid
  <2>2. CASE j = n + 1
    BY <1>1, <1>2, <2>2
  <2> QED BY <1>1, <1>2, <2>1, <2>2
<1>8. \A j \in 1..Len(v) : \A i \in 1..Header + v[j].size :
        b[j] + i >= 1 => b[j] + i <= Len(s) /\ s[b[j] + i] = Cell(v, j, i)
  <2> TAKE j \in 1..Len(v)
  <2> TAKE i \in 1..Header + v[j].size
  <2> HAVE b[j] + i >= 1
  <2>1. CASE j \in 1..n
    <3>1. v[j] = w[j] /\ b[j] = at[j] /\ at[j] \in Int /\ i \in Int
      BY <1>1, <1>2, <2>1
    <3>2. at[j] + i <= Len(r) /\ r[at[j] + i] = Cell(w, j, i)
      BY <2>1, <3>1 DEF Laid
    <3>3. at[j] + i \in 1..Len(r)
      BY <1>1, <3>1, <3>2
    <3> QED BY <1>1, <1>4, <1>5, <2>1, <3>1, <3>2, <3>3
  <2>2. CASE j = n + 1
    <3>1. v[j] = e /\ b[j] = Len(r) /\ i \in 1..Header + m
      BY <1>2, <2>2
    <3>2. b[j] + i \in Len(r) + 1..Len(r) + (Header + m)
      BY <1>1, <3>1
    <3>3. Cell(v, j, i) = Mark(p)
      BY <3>1 DEF Cell
    <3> QED BY <1>1, <3>1, <3>2, <3>3
  <2> QED BY <1>1, <1>2, <2>1, <2>2
<1>9. \A k \in 1..Len(s) : \E j \in 1..Len(v) : b[j] < k /\ k <= EndOf(v, b, j)
  <2> TAKE k \in 1..Len(s)
  <2>1. CASE k <= Len(r)
    <3>1. k \in 1..Len(r)
      BY <1>1, <1>5, <2>1
    <3>2. PICK j \in 1..n : at[j] < k /\ k <= EndOf(w, at, j)
      BY <3>1 DEF Laid
    <3>3. j \in 1..Len(v)
      BY <1>1, <1>2
    <3> QED BY <1>2, <1>3, <3>2, <3>3
  <2>2. CASE k > Len(r)
    <3>1. n + 1 \in 1..Len(v) /\ b[n + 1] < k /\ k <= EndOf(v, b, n + 1)
      BY <1>1, <1>2, <1>3, <1>5, <2>2
    <3> QED BY <3>1
  <2> QED BY <1>1, <1>5, <2>1, <2>2
<1>10. IF Len(v) = 0 THEN Len(s) = 0 ELSE EndOf(v, b, Len(v)) = Len(s)
  BY <1>1, <1>2, <1>3
<1>11. Laid(v, b, s)
  BY <1>2, <1>5, <1>6, <1>7, <1>8, <1>9, <1>10 DEF Laid
<1> QED BY <1>11 DEF v, b, Laid

(* The front of the queue is given back.                                   *)
LEMMA LaidDrop ==
  ASSUME NEW w, NEW at, NEW r, NEW s, Laid(w, at, r), NEW m, GivesBack(r, s, m)
  PROVE  Laid(w, [j \in 1..Len(at) |-> at[j] - m], s)
<1> USE DEF GivesBack
<1> DEFINE n == Len(w)
           b == [j \in 1..Len(at) |-> at[j] - m]
<1>1. /\ w \in Seq(Waiting) /\ at \in Seq(Int) /\ Len(at) = n /\ n \in Nat /\ Len(r) \in Nat
      /\ Len(s) \in Nat /\ \A j \in 1..n : at[j] \in Int
  BY DEF Laid
<1>2. /\ b \in Seq(Int) /\ Len(b) = n /\ \A j \in 1..n : b[j] = at[j] - m
  BY <1>1
<1> HIDE DEF b
<1>3. \A j \in 1..n : EndOf(w, b, j) = EndOf(w, at, j) - m /\ EndOf(w, at, j) \in Int
  <2> TAKE j \in 1..n
  <2>1. at[j] \in Int /\ b[j] = at[j] - m /\ w[j].size \in Nat /\ Header \in Nat
    BY <1>1, <1>2, LaidTypes
  <2>2. EndOf(w, b, j) = b[j] + Header + w[j].size /\ EndOf(w, at, j) = at[j] + Header + w[j].size
    BY DEF EndOf
  <2> QED BY <2>1, <2>2
<1>4. \A j \in 1..n-1 : b[j + 1] = EndOf(w, b, j)
  <2> TAKE j \in 1..n-1
  <2>1. j \in 1..n /\ j + 1 \in 1..n
    BY <1>1
  <2>2. at[j + 1] = EndOf(w, at, j)
    BY DEF Laid
  <2> QED BY <1>2, <1>3, <2>1, <2>2
<1>5. IF n = 0 THEN Len(s) = 0 ELSE EndOf(w, b, n) = Len(s)
  <2>1. CASE n = 0
    BY <1>1, <2>1 DEF Laid
  <2>2. CASE n # 0
    <3>1. n \in 1..n /\ EndOf(w, at, n) = Len(r)
      BY <1>1, <2>2 DEF Laid
    <3> QED BY <1>3, <2>2, <3>1
  <2> QED BY <2>1, <2>2
<1>6. \A j \in 1..n : ~w[j].done => b[j] >= 0
  <2> SUFFICES ASSUME NEW j \in 1..n, ~w[j].done, b[j] < 0 PROVE FALSE
    BY <1>1, <1>2
  <2>1. at[j] >= 0 /\ at[j] + 1 <= m /\ at[j] \in Int
    BY <1>1, <1>2 DEF Laid
  <2>2. 1 \in 1..Header + w[j].size /\ w[j].done = FALSE
    BY <1>1, LaidTypes
  <2> DEFINE k == at[j] + 1
  <2>3. r[k] = Cell(w, j, 1)
    BY <2>1, <2>2 DEF Laid
  <2>4. Len(r[k]) = 3
    BY <2>1
  <2> DEFINE t == Mark(w[j].id)
  <2>5. Cell(w, j, 1) = t /\ Len(t) = 1
    BY <2>2 DEF Cell, Mark
  <2> HIDE DEF k, t
  <2>6. r[k] = t
    BY <2>3, <2>5
  <2>7. Len(r[k]) = 1
    BY <2>5, <2>6
  <2> QED BY ONLY <2>4, <2>7
<1>7. \A j \in 1..n : \A i \in 1..Header + w[j].size :
        b[j] + i >= 1 => b[j] + i <= Len(s) /\ s[b[j] + i] = Cell(w, j, i)
  <2> TAKE j \in 1..n
  <2> TAKE i \in 1..Header + w[j].size
  <2> HAVE b[j] + i >= 1
  <2>1. b[j] = at[j] - m /\ at[j] \in Int /\ i \in Int
    BY <1>1, <1>2, LaidTypes
  <2>2. at[j] + i >= 1
    BY <2>1
  <2>3. at[j] + i <= Len(r) /\ r[at[j] + i] = Cell(w, j, i)
    BY <2>2 DEF Laid
  <2>4. b[j] + i \in 1..Len(r) - m /\ m + (b[j] + i) = at[j] + i
    BY <1>1, <2>1, <2>3
  <2> QED BY <1>1, <2>3, <2>4
<1>8. \A k \in 1..Len(s) : \E j \in 1..n : b[j] < k /\ k <= EndOf(w, b, j)
  <2> TAKE k \in 1..Len(s)
  <2>1. k + m \in 1..Len(r)
    BY <1>1
  <2>2. PICK j \in 1..n : at[j] < k + m /\ k + m <= EndOf(w, at, j)
    BY <2>1 DEF Laid
  <2>3. b[j] < k /\ k <= EndOf(w, b, j)
    BY <1>1, <1>2, <1>3, <2>2
  <2> QED BY <2>3
<1>9. Laid(w, b, s)
  BY <1>1, <1>2, <1>4, <1>5, <1>6, <1>7, <1>8 DEF Laid
<1> QED BY <1>9 DEF b

(* The first record, gone from the queue, arrives.                         *)
LEMMA LaidArrives ==
  ASSUME NEW w, NEW at, NEW r, Laid(w, at, r), w # <<>>, EndOf(w, at, 1) = 0
  PROVE  /\ Laid(Tail(w), Tail(at), r)
         /\ Tail(w) # <<>> => Tail(at)[1] = 0
<1> DEFINE n == Len(w)
           v == Tail(w)
           b == Tail(at)
<1>1. /\ w \in Seq(Waiting) /\ at \in Seq(Int) /\ Len(at) = n /\ n \in Nat /\ n > 0
      /\ Len(r) \in Nat /\ at # <<>>
  BY DEF Laid
<1>2. /\ v \in Seq(Waiting) /\ Len(v) = n - 1 /\ \A j \in 1..n-1 : v[j] = w[j + 1]
      /\ b \in Seq(Int) /\ Len(b) = n - 1 /\ \A j \in 1..n-1 : b[j] = at[j + 1]
  BY <1>1, HeadTailProperties
<1> HIDE DEF v, b
<1>3. /\ \A j \in 1..n-1 : EndOf(v, b, j) = EndOf(w, at, j + 1)
      /\ \A j \in 1..n-1 : \A i : Cell(v, j, i) = Cell(w, j + 1, i)
  BY <1>2 DEF EndOf, Cell
<1>4. \A j \in 1..Len(v)-1 : b[j + 1] = EndOf(v, b, j)
  <2> TAKE j \in 1..Len(v)-1
  <2>1. /\ j \in 1..n-1 /\ j + 1 \in 1..n-1
        /\ at[(j + 1) + 1] = EndOf(w, at, j + 1)
    BY <1>1, <1>2 DEF Laid
  <2> QED BY <1>2, <1>3, <2>1
<1>5. /\ IF Len(v) = 0 THEN Len(r) = 0 ELSE EndOf(v, b, Len(v)) = Len(r)
      /\ v # <<>> => b[1] = 0
  <2>1. EndOf(w, at, n) = Len(r)
    BY <1>1 DEF Laid
  <2>2. CASE n = 1
    BY <1>1, <1>2, <2>1, <2>2
  <2>3. CASE n # 1
    <3>1. n - 1 \in 1..n-1 /\ (n - 1) + 1 = n /\ 1 \in 1..n-1 /\ Len(v) # 0 /\ 1 + 1 \in 1..n
      BY <1>1, <1>2, <2>3
    <3>2. at[1 + 1] = EndOf(w, at, 1)
      BY <3>1 DEF Laid
    <3> QED BY <1>2, <1>3, <2>1, <3>1, <3>2
  <2> QED BY <2>2, <2>3
<1>6. \A j \in 1..Len(v) : ~v[j].done => b[j] >= 0
  <2> TAKE j \in 1..Len(v)
  <2>1. j \in 1..n-1 /\ j + 1 \in 1..n
    BY <1>1, <1>2
  <2> QED BY <1>2, <2>1 DEF Laid
<1>7. \A j \in 1..Len(v) : \A i \in 1..Header + v[j].size :
        b[j] + i >= 1 => b[j] + i <= Len(r) /\ r[b[j] + i] = Cell(v, j, i)
  <2> TAKE j \in 1..Len(v)
  <2> TAKE i \in 1..Header + v[j].size
  <2> HAVE b[j] + i >= 1
  <2>1. j \in 1..n-1 /\ j + 1 \in 1..n
    BY <1>1, <1>2
  <2>2. v[j] = w[j + 1] /\ b[j] = at[j + 1]
    BY <1>2, <2>1
  <2>3. at[j + 1] + i <= Len(r) /\ r[at[j + 1] + i] = Cell(w, j + 1, i)
    BY <2>1, <2>2 DEF Laid
  <2> QED BY <1>3, <2>1, <2>2, <2>3
<1>8. \A k \in 1..Len(r) : \E j \in 1..Len(v) : b[j] < k /\ k <= EndOf(v, b, j)
  <2> TAKE k \in 1..Len(r)
  <2>1. PICK j \in 1..n : at[j] < k /\ k <= EndOf(w, at, j)
    BY DEF Laid
  <2>2. j # 1
    BY <1>1, <2>1
  <2>3. j - 1 \in 1..n-1 /\ (j - 1) + 1 = j /\ j - 1 \in 1..Len(v)
    BY <1>1, <1>2, <2>2
  <2>4. b[j - 1] = at[j] /\ EndOf(v, b, j - 1) = EndOf(w, at, j)
    BY <1>2, <1>3, <2>3
  <2> QED BY <2>1, <2>3, <2>4
<1>9. Laid(v, b, r)
  BY <1>1, <1>2, <1>4, <1>5, <1>6, <1>7, <1>8 DEF Laid
<1> QED BY <1>5, <1>9 DEF v, b

(* A place marked for a writer is one of its record under way.             *)
LEMMA CellIsReserved ==
  ASSUME NEW w \in Seq(Waiting), NEW j \in 1..Len(w), NEW i, NEW p
  PROVE  Cell(w, j, i) = Mark(p) <=> w[j].done = FALSE /\ w[j].id = p
<1>1. CASE w[j].done = TRUE
  <2> DEFINE c == Cell(w, j, i)
  <2>1. Len(c) = 3 /\ Len(Mark(p)) = 1
    BY <1>1 DEF Cell, Mark
  <2> HIDE DEF c
  <2>2. c # Mark(p)
    <3> SUFFICES ASSUME c = Mark(p) PROVE FALSE
      OBVIOUS
    <3>1. Len(c) = 1
      BY <2>1
    <3> QED BY <2>1, <3>1
  <2> QED BY <1>1, <2>2 DEF c
<1>2. CASE w[j].done = FALSE
  <2>1. Cell(w, j, i) = Mark(w[j].id)
    BY <1>2 DEF Cell
  <2>2. Mark(w[j].id) = Mark(p) <=> w[j].id = p
    BY DEF Mark
  <2> QED BY <1>2, <2>1, <2>2
<1> QED BY <1>1, <1>2, LaidTypes

(* A push completes the one record that its writer has reserved.           *)
Completed(w, p) ==
  [i \in DOMAIN w |-> IF w[i].id = p THEN [w[i] EXCEPT !.done = TRUE] ELSE w[i]]

LEMMA LaidCommit ==
  ASSUME NEW w, NEW at, NEW r, NEW s, NEW c, NEW z, Laid(w, at, r), Filling(w, c, z),
         NEW p \in Producers, NEW m \in Payloads, z[p] = m,
         NEW first, Commits(r, s, p, Header + m, first)
  PROVE  LET v == Completed(w, p)
         IN  /\ Laid(v, at, s)
             /\ \E j \in DOMAIN w : ~w[j].done /\ v = [w EXCEPT ![j].done = TRUE]
             /\ DOMAIN v = DOMAIN w /\ Len(v) = Len(w)
             /\ \A i \in 1..Len(w) :
                  /\ v[i].id = w[i].id /\ v[i].size = w[i].size /\ v[i].done \in BOOLEAN
                  /\ v[i].done <=> w[i].done \/ w[i].id = p
<1> USE DEF Commits
<1> DEFINE n == Len(w)
           v == Completed(w, p)
           mine == first..first + (Header + m) - 1
<1>1. /\ w \in Seq(Waiting) /\ at \in Seq(Int) /\ Len(at) = n /\ n \in Nat /\ Len(r) \in Nat
      /\ Header \in Nat /\ Header > 0 /\ m \in Nat /\ m > 0 /\ DOMAIN w = 1..n
      /\ \A i \in 1..n : at[i] \in Int
  BY SizesArePositive DEF Laid
<1>2. /\ v \in Seq(Waiting) /\ Len(v) = n /\ DOMAIN v = 1..n
      /\ \A i \in 1..n : v[i] = IF w[i].id = p THEN [w[i] EXCEPT !.done = TRUE] ELSE w[i]
  <2>1. ASSUME NEW i \in 1..n
        PROVE  (IF w[i].id = p THEN [w[i] EXCEPT !.done = TRUE] ELSE w[i]) \in Waiting
    <3>1. w[i] \in Waiting
      BY <1>1
    <3> QED BY <3>1 DEF Waiting
  <2> QED BY <1>1, <2>1 DEF Completed
<1>3. ASSUME NEW i \in 1..n
      PROVE  /\ v[i].id = w[i].id /\ v[i].size = w[i].size /\ v[i].done \in BOOLEAN
             /\ v[i].done <=> w[i].done \/ w[i].id = p
             /\ w[i].done \/ w[i].id # p => v[i] = w[i]
  <2>1. w[i] \in Waiting /\ v[i] = IF w[i].id = p THEN [w[i] EXCEPT !.done = TRUE] ELSE w[i]
    BY <1>1, <1>2
  <2> HIDE DEF v
  <2>2. w[i] = [id |-> w[i].id, size |-> w[i].size, done |-> w[i].done] /\ w[i].done \in BOOLEAN
    BY <2>1 DEF Waiting
  <2> QED BY <2>1, <2>2 DEF Waiting
<1> HIDE DEF v
(* The record the writer has reserved.                                     *)
<1>4. PICK j \in 1..n : at[j] < first /\ first <= EndOf(w, at, j)
  BY DEF Laid
<1>5. at[j] \in Int /\ w[j].size \in Nat /\ w[j].done \in BOOLEAN /\ 1 \in 1..Header + w[j].size
  <2>1. w[j].size \in Nat /\ w[j].done \in BOOLEAN
    BY <1>1, LaidTypes
  <2> QED BY <1>1, <2>1
<1>a. \A i \in 1..n : \A k : Cell(w, i, k) = Mark(p) => w[i].done = FALSE /\ w[i].id = p
  <2> TAKE i \in 1..n
  <2> TAKE k
  <2>1. w \in Seq(Waiting) /\ i \in 1..Len(w)
    BY <1>1
  <2> HIDE DEF n, mine
  <2> QED BY ONLY <2>1, CellIsReserved
<1>b. \A i \in 1..n : \A k : w[i].done = FALSE /\ w[i].id = p => Cell(w, i, k) = Mark(p)
  <2> TAKE i \in 1..n
  <2> TAKE k
  <2>1. CASE w[i].done = FALSE /\ w[i].id = p
    BY <2>1 DEF Cell
  <2> QED BY <2>1
<1>6. w[j].done = FALSE /\ w[j].id = p
  <2>1. first - at[j] \in 1..Header + w[j].size /\ at[j] + (first - at[j]) = first
    <3>1. EndOf(w, at, j) = at[j] + Header + w[j].size
      BY DEF EndOf
    <3> QED BY <1>1, <1>4, <1>5, <3>1
  <2>2. first >= 1
    OBVIOUS
  <2>3. r[first] = Cell(w, j, first - at[j])
    BY <2>1, <2>2 DEF Laid
  <2>4. r[first] = Mark(p)
    BY <1>1
  <2> DEFINE d == first - at[j]
  <2>5. Cell(w, j, d) = Mark(p)
    BY <2>3, <2>4
  <2> HIDE DEF d
  <2> QED BY <1>a, <2>5
<1>7. w[j].size = m /\ at[j] >= 0
  BY <1>6 DEF Filling, Laid
<1>8. at[j] + 1 = first
  <2>1. at[j] + 1 <= Len(r) /\ r[at[j] + 1] = Cell(w, j, 1) /\ at[j] + 1 \in 1..Len(r)
    <3>1. at[j] + 1 >= 1
      BY <1>5, <1>7
    <3>2. at[j] + 1 <= Len(r) /\ r[at[j] + 1] = Cell(w, j, 1)
      BY <1>5, <3>1 DEF Laid
    <3> QED BY <1>1, <1>5, <3>1, <3>2
  <2>2. r[at[j] + 1] = Mark(p)
    BY <1>b, <1>6, <2>1
  <2>3. at[j] + 1 \in mine
    BY <2>1, <2>2
  <2> QED BY <1>1, <1>4, <1>5, <2>3
<1>9. \A i \in 1..n : ~w[i].done /\ w[i].id = p => i = j
  BY <1>6 DEF Filling
<1>10. \A i \in 1..n : EndOf(v, at, i) = EndOf(w, at, i)
  BY <1>3 DEF EndOf
<1>11. \A i \in 1..n : \A k \in 1..Header + v[i].size :
         at[i] + k >= 1 => at[i] + k <= Len(s) /\ s[at[i] + k] = Cell(v, i, k)
  <2> TAKE i \in 1..n
  <2> TAKE k \in 1..Header + v[i].size
  <2> HAVE at[i] + k >= 1
  <2>1. k \in 1..Header + w[i].size /\ k \in Int /\ at[i] \in Int
    <3>1. v[i].size = w[i].size /\ at[i] \in Int
      BY <1>1, <1>3
    <3>2. Header + w[i].size \in Nat
      BY <1>1, LaidTypes
    <3> QED BY <3>1, <3>2
  <2>2. at[i] + k <= Len(r) /\ r[at[i] + k] = Cell(w, i, k)
    BY <2>1 DEF Laid
  <2>3. at[i] + k \in 1..Len(r)
    BY <1>1, <2>1, <2>2
  <2>4. CASE i = j
    <3>1. at[i] + k \in mine /\ (at[i] + k) - first + 1 = k
      <4>1. at[i] = at[j] /\ w[i].size = m
        BY <1>7, <2>4
      <4>2. at[i] = first - 1 /\ k \in 1..Header + m /\ first \in Int
        <5>1. k \in 1..Header + w[i].size /\ first \in Int
          BY <1>1, <2>1
        <5>2. at[i] = first - 1
          BY <1>5, <1>8, <4>1, <5>1
        <5> QED BY <4>1, <5>1, <5>2
      <4> QED BY <1>1, <4>2
    <3>2. s[at[i] + k] = <<p, k, Header + m>>
      BY <2>3, <3>1
    <3>3. v[i].done = TRUE /\ v[i].id = p /\ v[i].size = m
      BY <1>3, <1>6, <1>7, <2>4
    <3>4. Cell(v, i, k) = <<p, k, Header + m>>
      BY <3>3 DEF Cell
    <3> QED BY <2>2, <3>2, <3>4
  <2>5. CASE i # j
    <3>1. w[i].done \/ w[i].id # p
      BY <1>9, <2>5
    <3>2. v[i] = w[i]
      BY <1>3, <3>1
    <3>3. Cell(v, i, k) = Cell(w, i, k)
      BY <3>2 DEF Cell
    <3>4. r[at[i] + k] # Mark(p)
      <4>1. ~(w[i].done = FALSE /\ w[i].id = p)
        BY <3>1
      <4> QED BY <1>a, <2>2, <4>1
    <3>5. at[i] + k \notin mine
      BY <2>3, <3>4
    <3>6. s[at[i] + k] = r[at[i] + k]
      BY <2>3, <3>5
    <3> QED BY <2>2, <3>3, <3>6
  <2> QED BY <2>4, <2>5
<1>12. Laid(v, at, s)
  <2>1. \A i \in 1..n-1 : at[i + 1] = EndOf(v, at, i)
    BY <1>1, <1>10 DEF Laid
  <2>2. IF n = 0 THEN Len(s) = 0 ELSE EndOf(v, at, n) = Len(s)
    <3>1. n \in 1..n /\ n # 0
      BY <1>1
    <3> QED BY <1>10, <3>1 DEF Laid
  <2>3. \A i \in 1..n : ~v[i].done => at[i] >= 0
    BY <1>3 DEF Laid
  <2>4. \A k \in 1..Len(s) : \E i \in 1..n : at[i] < k /\ k <= EndOf(v, at, i)
    BY <1>10 DEF Laid
  <2> QED BY <1>1, <1>2, <1>11, <2>1, <2>2, <2>3, <2>4 DEF Laid
<1>13. ~w[j].done /\ v = [w EXCEPT ![j].done = TRUE]
  <2> DEFINE u == [w EXCEPT ![j].done = TRUE]
  <2>1. /\ u = [i \in 1..n |-> IF i = j THEN [w[j] EXCEPT !.done = TRUE] ELSE w[i]]
    BY <1>1
  <2>2. ASSUME NEW i \in 1..n
        PROVE  v[i] = IF i = j THEN [w[j] EXCEPT !.done = TRUE] ELSE w[i]
    <3>1. CASE i = j
      BY <1>2, <1>6, <3>1
    <3>2. CASE i # j
      BY <1>3, <1>9, <3>2
    <3> QED BY <3>1, <3>2
  <2>3. ASSUME NEW i \in 1..n PROVE u[i] = v[i]
    BY <2>1, <2>2
  <2>4. v = [i \in 1..n |-> v[i]]
    BY <1>1 DEF v, Completed
  <2>5. u = [i \in 1..n |-> u[i]]
    BY <2>1
  <2> HIDE DEF u
  <2>6. u = v
    BY <2>3, <2>4, <2>5
  <2> QED BY <1>6, <2>6 DEF u
<1> QED BY <1>1, <1>2, <1>3, <1>12, <1>13 DEF v

(* Where the flusher stands in the first record of w: before it, at its    *)
(* header, behind its header, or behind all of it.  f is its program       *)
(* counter, t tells of a transfer, e and b are its header and flush_buf.   *)
InHand(w, at, e, m) ==
  w # <<>> /\ w[1].done /\ at[1] = 0 - m /\ e.id = w[1].id /\ e.size = w[1].size

Stage(w, at, f, t, e, b) ==
  /\ f \in {"idle", "loop", "busy"} /\ ~t /\ w # <<>> => at[1] = 0
  /\ f = "header" => InHand(w, at, e, 0)
  /\ f \in {"payload", "release"} => InHand(w, at, e, Header)
  /\ f = "release" => b.entry = e
  /\ f = "flush" \/ t => InHand(w, at, b.entry, Header + b.entry.size)

JInv ==
  /\ Filling(waiting, pc, size)
  /\ \E at : Laid(waiting, at, q) /\ Stage(waiting, at, fpc, transfer, entry, flush_buf)

(* Nothing waits in an empty log.                                          *)
LEMMA InitJournal == Init => JInv /\ Printed!Init
<1> SUFFICES ASSUME Init PROVE JInv /\ Printed!Init
  OBVIOUS
<1>1. /\ waiting = <<>> /\ q = <<>> /\ sink = <<>> /\ fpc = "idle" /\ transfer = FALSE
      /\ Len(waiting) = 0 /\ Len(q) = 0
  BY DEF Init, Ring!Init
<1>2. Filling(waiting, pc, size)
  BY <1>1 DEF Filling
<1>3. Laid(waiting, <<>>, q)
  BY <1>1 DEF Laid
<1>4. Stage(waiting, <<>>, fpc, transfer, entry, flush_buf)
  BY <1>1 DEF Stage
<1>5. Arrived = <<>>
  BY <1>1 DEF Arrived
<1> QED BY <1>1, <1>2, <1>3, <1>4, <1>5 DEF JInv, Printed!Init

(* A reservation is an acceptance.                                         *)
LEMMA AcquireAccepts ==
  ASSUME IInv, JInv, NEW p \in Producers, Acquire(p)
  PROVE  JInv' /\ Printed!Accept(p, size[p]) /\ size[p] \in Payloads
<1> DEFINE m == size[p]
           e == [id |-> p, size |-> m, done |-> FALSE]
<1>1. /\ q \in Seq(Reserved \cup Committed) /\ Whole /\ Len(q) \in Nat
      /\ pc \in [Producers -> {"idle", "acquire", "fill"}] /\ size \in [Producers -> Nat]
      /\ \A r \in Producers : pc[r] # "idle" => size[r] \in Payloads
  BY DEF IInv, Types
<1>2. /\ pc[p] = "acquire" /\ pc' = [pc EXCEPT ![p] = "fill"] /\ size' = size
      /\ UNCHANGED flusher /\ Ring!Reserve(p, Header + m) /\ waiting' = Append(waiting, e)
  BY DEF Acquire, Goto
<1>3. /\ m \in Payloads /\ m \in Nat /\ Header \in Nat /\ Header + m \in Nat
      /\ e \in Waiting /\ e.id = p /\ e.size = m /\ e.done = FALSE
  BY <1>1, <1>2, SizesArePositive DEF Waiting
<1>4. Reserves(q, q', p, Header + m)
  BY <1>1, <1>2, <1>3, ReserveKeeps DEF Mark, Reserves
<1> HIDE DEF e, m
<1>5. PICK at : Laid(waiting, at, q) /\ Stage(waiting, at, fpc, transfer, entry, flush_buf)
  BY DEF JInv
<1>6. /\ Laid(waiting', Append(at, Len(q)), q')
      /\ Len(waiting) = 0 => Len(q) = 0
  <2>1. Laid(waiting, at, q)
    BY <1>5
  <2>2. /\ Laid(Append(waiting, e), Append(at, Len(q)), q')
        /\ Len(waiting) = 0 => Len(q) = 0
    BY <1>3, <1>4, <2>1, LaidReserve
  <2> QED BY <1>2, <2>2
<1>7. /\ waiting \in Seq(Waiting) /\ at \in Seq(Int) /\ Len(at) = Len(waiting)
      /\ Len(waiting) \in Nat
  BY <1>5 DEF Laid
<1> DEFINE n == Len(waiting)
           b == Append(at, Len(q))
<1>8. /\ Len(waiting') = n + 1 /\ waiting'[n + 1] = e /\ \A j \in 1..n : waiting'[j] = waiting[j]
      /\ b[n + 1] = Len(q) /\ \A j \in 1..n : b[j] = at[j]
  BY <1>1, <1>2, <1>3, <1>7, AppendProperties
<1> HIDE DEF b
<1>9. Stage(waiting', b, fpc', transfer', entry', flush_buf')
  <2>1. /\ fpc' = fpc /\ transfer' = transfer /\ entry' = entry /\ flush_buf' = flush_buf
    BY <1>2 DEF flusher
  <2>2. CASE waiting = <<>>
    <3>1. n = 0 /\ b[1] = 0
      BY <1>6, <1>8, <2>2
    <3> QED BY <1>5, <2>1, <2>2, <3>1 DEF Stage, InHand
  <2>3. CASE waiting # <<>>
    <3>1. 1 \in 1..n /\ waiting' # <<>>
      BY <1>7, <1>8, <2>3
    <3>2. waiting'[1] = waiting[1] /\ b[1] = at[1]
      BY <1>8, <3>1
    <3> QED BY <1>5, <2>1, <2>3, <3>1, <3>2 DEF Stage, InHand
  <2> QED BY <2>2, <2>3
<1>10. \A j \in 1..n : waiting[j].done \/ waiting[j].id # p
  <2> SUFFICES ASSUME NEW j \in 1..n, ~waiting[j].done, waiting[j].id = p PROVE FALSE
    OBVIOUS
  <2>1. pc[p] = "fill"
    BY DEF JInv, Filling
  <2> QED BY <1>2, <2>1
<1>11. Filling(waiting', pc', size')
  <2>1. \A j \in 1..n + 1 : j \in 1..n \/ j = n + 1
    BY <1>7
  <2>2. ASSUME NEW j \in 1..n, ~waiting[j].done
        PROVE  pc'[waiting[j].id] = "fill" /\ size'[waiting[j].id] = waiting[j].size
    <3>1. pc[waiting[j].id] = "fill" /\ size[waiting[j].id] = waiting[j].size
      BY <2>2 DEF JInv, Filling
    <3>2. waiting[j].id \in Producers
      BY <1>7, LaidTypes
    <3> QED BY <1>1, <1>2, <3>1, <3>2
  <2>3. pc'[p] = "fill" /\ size'[p] = m
    BY <1>1, <1>2 DEF m
  <2>4. \A j, k \in 1..n :
          ~waiting[j].done /\ ~waiting[k].done /\ waiting[j].id = waiting[k].id => j = k
    BY DEF JInv, Filling
  <2>5. ASSUME NEW j \in 1..Len(waiting'), ~waiting'[j].done
        PROVE  pc'[waiting'[j].id] = "fill" /\ size'[waiting'[j].id] = waiting'[j].size
    <3>1. CASE j \in 1..n
      BY <1>8, <2>2, <2>5, <3>1
    <3>2. CASE j = n + 1
      BY <1>3, <1>8, <2>3, <3>2
    <3> QED BY <1>8, <2>1, <3>1, <3>2
  <2>6. ASSUME NEW j \in 1..Len(waiting'), NEW k \in 1..Len(waiting'),
               ~waiting'[j].done, ~waiting'[k].done, waiting'[j].id = waiting'[k].id
        PROVE  j = k
    <3>1. CASE j \in 1..n /\ k \in 1..n
      BY <1>8, <2>4, <2>6, <3>1
    <3>2. CASE j = n + 1 /\ k = n + 1
      BY <3>2
    <3>3. CASE j \in 1..n /\ k = n + 1
      BY <1>3, <1>8, <1>10, <2>6, <3>3
    <3>4. CASE j = n + 1 /\ k \in 1..n
      BY <1>3, <1>8, <1>10, <2>6, <3>4
    <3> QED BY <1>8, <2>1, <3>1, <3>2, <3>3, <3>4
  <2> QED BY <2>5, <2>6 DEF Filling
<1>12. JInv'
  BY <1>6, <1>9, <1>11 DEF JInv, b
<1>13. Printed!Accept(p, m)
  <2>1. DOMAIN waiting = 1..n
    BY <1>7
  <2>2. Arrived' = Arrived
    BY <1>2 DEF Arrived, flusher
  <2> QED BY <1>2, <1>10, <2>1, <2>2 DEF Printed!Accept, e
<1> QED BY <1>3, <1>12, <1>13 DEF m

(* A push completes one of the accepted records.                           *)
LEMMA PushCompletes ==
  ASSUME IInv, JInv, NEW p \in Producers, Push(p)
  PROVE  JInv' /\ \E k \in DOMAIN waiting : Printed!Complete(k)
<1> DEFINE m == size[p]
<1>1. /\ q \in Seq(Reserved \cup Committed) /\ Len(q) \in Nat /\ DOMAIN q = 1..Len(q)
      /\ pc \in [Producers -> {"idle", "acquire", "fill"}] /\ size \in [Producers -> Nat]
      /\ \A r \in Producers : pc[r] # "idle" => size[r] \in Payloads
  BY DEF IInv, Types
<1>2. /\ pc[p] = "fill" /\ pc' = [pc EXCEPT ![p] = "idle"] /\ size' = [size EXCEPT ![p] = 0]
      /\ UNCHANGED flusher /\ Ring!Commit(p, Header + m)
      /\ waiting' = [i \in DOMAIN waiting |->
                       IF waiting[i].id = p THEN [waiting[i] EXCEPT !.done = TRUE]
                                            ELSE waiting[i]]
  BY DEF Push, Goto
<1>3. m \in Payloads /\ m \in Nat /\ m > 0 /\ Header \in Nat /\ Header + m \in Nat
  BY <1>1, <1>2, SizesArePositive
<1>4. PICK at : Laid(waiting, at, q) /\ Stage(waiting, at, fpc, transfer, entry, flush_buf)
  BY DEF JInv
<1>5. PICK first \in Ring!Pending(p) :
        /\ Ring!Pending(p) = first..first + (Header + m) - 1
        /\ q' = [k \in DOMAIN q |->
                   IF k \in Ring!Pending(p) THEN <<p, k - first + 1, Header + m>> ELSE q[k]]
  BY <1>2 DEF Ring!Commit
<1> HIDE DEF m
<1>6. /\ first \in 1..Len(q)
      /\ \A k \in 1..Len(q) : q[k] = Mark(p) <=> k \in first..first + (Header + m) - 1
  BY <1>1, <1>5 DEF Ring!Pending, Mark
<1>7. first + (Header + m) - 1 <= Len(q)
  <2>1. first + (Header + m) - 1 \in first..first + (Header + m) - 1
    BY <1>3, <1>6
  <2>2. first + (Header + m) - 1 \in DOMAIN q
    BY <1>5, <2>1 DEF Ring!Pending
  <2> QED BY <1>1, <2>2
<1>8. /\ Len(q') = Len(q)
      /\ \A k \in 1..Len(q) :
           q'[k] = IF k \in first..first + (Header + m) - 1
                     THEN <<p, k - first + 1, Header + m>> ELSE q[k]
  BY <1>1, <1>5
<1>a. Commits(q, q', p, Header + m, first)
  BY <1>6, <1>7, <1>8 DEF Commits
<1>9. Filling(waiting, pc, size) /\ size[p] = m
  BY DEF JInv, m
<1>10. /\ Laid(waiting', at, q')
       /\ \E j \in DOMAIN waiting : ~waiting[j].done /\ waiting' = [waiting EXCEPT ![j].done = TRUE]
       /\ DOMAIN waiting' = DOMAIN waiting /\ Len(waiting') = Len(waiting)
       /\ \A i \in 1..Len(waiting) :
            /\ waiting'[i].id = waiting[i].id /\ waiting'[i].size = waiting[i].size
            /\ waiting'[i].done \in BOOLEAN
            /\ waiting'[i].done <=> waiting[i].done \/ waiting[i].id = p
  <2> DEFINE v == Completed(waiting, p)
  <2>1. /\ Laid(v, at, q')
        /\ \E j \in DOMAIN waiting : ~waiting[j].done /\ v = [waiting EXCEPT ![j].done = TRUE]
        /\ DOMAIN v = DOMAIN waiting /\ Len(v) = Len(waiting)
        /\ \A i \in 1..Len(waiting) :
             /\ v[i].id = waiting[i].id /\ v[i].size = waiting[i].size /\ v[i].done \in BOOLEAN
             /\ v[i].done <=> waiting[i].done \/ waiting[i].id = p
    <3>1. Laid(waiting, at, q)
      BY <1>4
    <3> QED BY <1>3, <1>9, <1>a, <3>1, LaidCommit
  <2>2. waiting' = v
    BY <1>2 DEF Completed
  <2> HIDE DEF v
  <2> QED BY <2>1, <2>2
<1>11. waiting \in Seq(Waiting) /\ Len(waiting) \in Nat /\ DOMAIN waiting = 1..Len(waiting)
  BY <1>4 DEF Laid
<1>12. Stage(waiting', at, fpc', transfer', entry', flush_buf')
  <2>1. /\ fpc' = fpc /\ transfer' = transfer /\ entry' = entry /\ flush_buf' = flush_buf
    BY <1>2 DEF flusher
  <2>2. CASE waiting = <<>>
    <3>1. waiting' = <<>>
      BY <1>10, <1>11, <2>2 DEF Laid
    <3> QED BY <1>4, <2>1, <2>2, <3>1 DEF Stage, InHand
  <2>3. CASE waiting # <<>>
    <3>1. 1 \in 1..Len(waiting) /\ waiting' # <<>>
      BY <1>10, <1>11, <2>3
    <3>2. /\ waiting'[1].id = waiting[1].id /\ waiting'[1].size = waiting[1].size
          /\ waiting[1].done => waiting'[1].done
      BY <1>10, <3>1
    <3> QED BY <1>4, <2>1, <2>3, <3>1, <3>2 DEF Stage, InHand
  <2> QED BY <2>2, <2>3
<1>13. Filling(waiting', pc', size')
  <2>1. ASSUME NEW j \in 1..Len(waiting), ~waiting'[j].done
        PROVE  pc'[waiting'[j].id] = "fill" /\ size'[waiting'[j].id] = waiting'[j].size
    <3>1. /\ ~waiting[j].done /\ waiting[j].id # p
          /\ waiting'[j].id = waiting[j].id /\ waiting'[j].size = waiting[j].size
      BY <1>10, <2>1
    <3>2. pc[waiting[j].id] = "fill" /\ size[waiting[j].id] = waiting[j].size
      BY <1>9, <3>1 DEF Filling
    <3>3. waiting[j].id \in Producers
      BY <1>11, LaidTypes
    <3> QED BY <1>1, <1>2, <3>1, <3>2, <3>3
  <2>2. ASSUME NEW j \in 1..Len(waiting), NEW k \in 1..Len(waiting),
               ~waiting'[j].done, ~waiting'[k].done, waiting'[j].id = waiting'[k].id
        PROVE  j = k
    <3>1. ~waiting[j].done /\ ~waiting[k].done /\ waiting[j].id = waiting[k].id
      BY <1>10, <2>2
    <3> QED BY <1>9, <3>1 DEF Filling
  <2> QED BY <1>10, <2>1, <2>2 DEF Filling
<1>14. JInv'
  BY <1>10, <1>12, <1>13 DEF JInv
<1>15. Arrived' = Arrived
  BY <1>2 DEF Arrived, flusher
<1> QED BY <1>10, <1>14, <1>15 DEF Printed!Complete

(* A text that arrives is that of the first record that waits.             *)
LEMMA ArrivalDelivers ==
  ASSUME IInv, waiting # <<>>, waiting[1].done,
         flush_buf.entry.id = waiting[1].id, flush_buf.entry.size = waiting[1].size,
         sink' = Append(sink, flush_buf), waiting' = Tail(waiting)
  PROVE  Printed!Deliver
<1> DEFINE i == waiting[1].id
           m == waiting[1].size
           n == Len(sink)
           rec == [id |-> i, size |-> m, text |-> Printed!Text(i, m)]
<1>1. sink \in Seq(Intact) /\ flush_buf \in Intact /\ n \in Nat
  BY DEF IInv, Types
<1>2. /\ flush_buf.text \in Seq(Committed) /\ Len(flush_buf.text) = m /\ m \in Nat
      /\ \A k \in 1..m : flush_buf.text[k] = <<i, Header + k, Header + m>>
  <2>1. flush_buf \in Records
    BY <1>1 DEF Intact
  <2>2. flush_buf.text \in Seq(Committed) /\ flush_buf.entry.size \in Nat
    BY <2>1 DEF Records
  <2> QED BY <1>1, <2>2 DEF Intact
<1>3. Header \in Nat /\ DOMAIN flush_buf.text = 1..m
  BY <1>2, SizesArePositive
<1> HIDE DEF i, m
<1>4. Shown(flush_buf) = rec
  <2>1. ASSUME NEW k \in 1..m
        PROVE  <<flush_buf.text[k][1], flush_buf.text[k][2] - Header,
                 flush_buf.text[k][3] - Header>> = <<i, k, m>>
    <3>1. flush_buf.text[k] = <<i, Header + k, Header + m>>
      BY <1>2
    <3>2. (Header + k) - Header = k /\ (Header + m) - Header = m
      BY <1>2, <1>3
    <3> QED BY <3>1, <3>2
  <2>2. Shown(flush_buf).text = Printed!Text(i, m)
    BY <1>3, <2>1 DEF Shown, Printed!Text
  <2> QED BY <2>2 DEF Shown, i, m
<1> HIDE DEF rec
<1>5. /\ Len(sink') = n + 1 /\ sink'[n + 1] = flush_buf /\ \A k \in 1..n : sink'[k] = sink[k]
      /\ DOMAIN sink = 1..n /\ DOMAIN sink' = 1..n + 1
  BY <1>1, AppendProperties
<1>6. Arrived' = Append(Arrived, rec)
  <2> DEFINE A(s) == [k \in DOMAIN s |-> Shown(s[k])]
             old == A(sink)
             new == A(sink')
  <2>1. Arrived = old /\ Arrived' = new
    BY DEF Arrived, Shown
  <2>2. old = [k \in 1..n |-> Shown(sink[k])] /\ new = [k \in 1..n + 1 |-> Shown(sink'[k])]
    BY <1>5
  <2>3. Append(old, rec) = [k \in 1..n + 1 |-> IF k = n + 1 THEN rec ELSE old[k]]
    <3>1. Len(old) = n
      BY <1>1, <2>2
    <3>2. Append(old, rec) = [k \in 1..Len(old) + 1 |-> IF k <= Len(old) THEN old[k] ELSE rec]
      BY <1>1, <2>2
    <3>3. ASSUME NEW k \in 1..n + 1
          PROVE  (IF k <= n THEN old[k] ELSE rec) = (IF k = n + 1 THEN rec ELSE old[k])
      BY <1>1
    <3> HIDE DEF old
    <3> QED BY <3>1, <3>2, <3>3
  <2>4. ASSUME NEW k \in 1..n + 1
        PROVE  Shown(sink'[k]) = IF k = n + 1 THEN rec ELSE old[k]
    <3>1. CASE k = n + 1
      BY <1>4, <1>5, <3>1
    <3>2. CASE k # n + 1
      <4>1. k \in 1..n
        BY <1>1, <3>2
      <4> QED BY <1>5, <2>2, <3>2, <4>1
    <3> QED BY <3>1, <3>2
  <2> HIDE DEF old, new
  <2> QED BY <2>1, <2>2, <2>3, <2>4
<1> QED BY <1>6 DEF Printed!Deliver, rec, i, m

(* The flusher takes the first record out of the queue with two reads.     *)
LEMMA FlusherTakesFirst ==
  ASSUME IInv, JInv,
         ReadHeader \/ ReleaseHeader \/ ReadPayload \/ ReleasePayload
  PROVE  JInv' /\ waiting' = waiting /\ Arrived' = Arrived
<1> USE SizesArePositive
<1>0. /\ Types /\ Whole /\ FlusherIsInStep /\ OneOwnsTheBuffer
      /\ q \in Seq(Reserved \cup Committed) /\ Len(q) \in Nat
      /\ entry.size \in Nat
  BY DEF IInv, Types
<1>1. PICK at : Laid(waiting, at, q) /\ Stage(waiting, at, fpc, transfer, entry, flush_buf)
  BY DEF JInv
<1>2. /\ waiting \in Seq(Waiting) /\ at \in Seq(Int) /\ Len(at) = Len(waiting)
      /\ Len(waiting) \in Nat
  BY <1>1 DEF Laid
<1>3. UNCHANGED <<waiting, pc, size, transfer, sink>>
  BY DEF ReadHeader, ReleaseHeader, ReadPayload, ReleasePayload, writers, history
<1>4. Filling(waiting, pc, size)' /\ Arrived' = Arrived
  BY <1>3 DEF JInv, Filling, Arrived
<1>5. CASE ReadHeader
  <2>1. /\ fpc = "loop" /\ ~busy /\ Readable(Header) /\ Ring!Peek(Header)
        /\ entry' = [id |-> q[1][1], size |-> q[1][3] - Header] /\ fpc' = "header"
        /\ q' = q /\ ~transfer
    BY <1>0, <1>5 DEF ReadHeader, Ring!Peek, OneOwnsTheBuffer
  <2>2. Len(q) > 0 /\ Len(q[1]) = 3 /\ 1 \in 1..Header
    <3>1. Header <= Len(q) /\ 1 \in 1..Header
      BY <1>0, <2>1 DEF Readable
    <3> QED BY <1>0, <2>1, <3>1 DEF Readable
  <2>3. waiting # <<>> /\ 1 \in 1..Len(waiting)
    BY <1>0, <1>1, <1>2, <2>2 DEF Laid
  <2>4. at[1] = 0
    BY <1>1, <2>1, <2>3 DEF Stage
  <2>5. /\ waiting[1].id \in Producers /\ waiting[1].size \in Nat /\ waiting[1].done \in BOOLEAN
        /\ 1 \in 1..Header + waiting[1].size
    <3>1. waiting[1].id \in Producers /\ waiting[1].size \in Nat /\ waiting[1].done \in BOOLEAN
      BY <1>2, <2>3, LaidTypes
    <3> QED BY <3>1
  <2>6. q[1] = Cell(waiting, 1, 1)
    <3>1. at[1] + 1 = 1
      BY <2>4
    <3> QED BY <1>1, <2>3, <2>5, <3>1 DEF Laid
  <2>7. waiting[1].done
    <3> SUFFICES ASSUME waiting[1].done = FALSE PROVE FALSE
      BY <2>5
    <3> DEFINE t == Mark(waiting[1].id)
    <3>1. q[1] = t /\ Len(t) = 1
      BY <2>6 DEF Cell, Mark
    <3> HIDE DEF t
    <3>2. Len(q[1]) = 1
      BY ONLY <3>1
    <3> QED BY ONLY <2>2, <3>2
  <2>8. q[1] = <<waiting[1].id, 1, Header + waiting[1].size>>
    BY <2>6, <2>7 DEF Cell
  <2>9. entry'.id = waiting[1].id /\ entry'.size = waiting[1].size
    <3>1. q[1][1] = waiting[1].id /\ q[1][3] = Header + waiting[1].size
      BY <2>8
    <3> QED BY <2>1, <2>5, <3>1
  <2>10. Stage(waiting', at, fpc', transfer', entry', flush_buf')
    <3>1. at[1] = 0 - 0
      BY <2>4
    <3>2. InHand(waiting, at, entry', 0)
      BY <2>3, <2>7, <2>9, <3>1 DEF InHand
    <3> QED BY <1>3, <2>1, <3>2 DEF Stage
  <2> QED BY <1>1, <1>3, <1>4, <2>1, <2>10 DEF JInv
<1>6. ASSUME NEW m \in Nat, m > 0, Ring!Drop, Len(out) = m, m <= Len(q),
             \A k \in 1..m : Len(q[k]) = 3,
             waiting # <<>>
      PROVE  \E b : Laid(waiting, b, q') /\ b[1] = at[1] - m
  <2>1. q' = SubSeq(q, m + 1, Len(q))
    BY <1>6 DEF Ring!Drop
  <2>2. GivesBack(q, q', m)
    BY <1>0, <1>6, <2>1, DropKeeps DEF GivesBack
  <2>3. Laid(waiting, [j \in 1..Len(at) |-> at[j] - m], q')
    BY <1>1, <2>2, LaidDrop
  <2>4. 1 \in 1..Len(at)
    BY <1>2, <1>6
  <2> QED BY <2>3, <2>4
<1>7. CASE ReleaseHeader
  <2>1. /\ fpc = "header" /\ fpc' = "payload" /\ Ring!Drop
        /\ entry' = entry /\ flush_buf' = flush_buf /\ ~transfer
    BY <1>0, <1>7 DEF ReleaseHeader, OneOwnsTheBuffer
  <2>2. Front(Header) /\ Len(out) = Header
    BY <1>0, <2>1 DEF FlusherIsInStep
  <2>3. InHand(waiting, at, entry, 0)
    BY <1>1, <2>1 DEF Stage
  <2>4. Header <= Len(q) /\ \A k \in 1..Header : Len(q[k]) = 3
    <3>1. Header <= Len(q)
      BY <1>0, <2>2 DEF Front
    <3>2. ASSUME NEW k \in 1..Header PROVE Len(q[k]) = 3
      <4>1. k \in 1..Header + entry.size
        BY <1>0
      <4>2. q[k] = <<entry.id, Header - Header + k, Header + entry.size>>
        BY <2>2, <4>1 DEF Front
      <4> QED BY <4>2
    <3> QED BY <3>1, <3>2
  <2>5. PICK b : Laid(waiting, b, q') /\ b[1] = at[1] - Header
    BY <1>6, <2>1, <2>2, <2>3, <2>4 DEF InHand
  <2>6. b[1] = 0 - Header
    BY <2>3, <2>5 DEF InHand
  <2>7. Stage(waiting', b, fpc', transfer', entry', flush_buf')
    BY <1>3, <2>1, <2>3, <2>6 DEF Stage, InHand
  <2> QED BY <1>3, <1>4, <2>5, <2>7 DEF JInv
<1>8. CASE ReadPayload
  <2>1. /\ fpc = "payload" /\ fpc' = "release" /\ q' = q
        /\ entry' = entry /\ flush_buf'.entry = entry /\ ~transfer
    BY <1>0, <1>8 DEF ReadPayload, Ring!Peek, OneOwnsTheBuffer
  <2>2. Stage(waiting', at, fpc', transfer', entry', flush_buf')
    BY <1>1, <1>3, <2>1 DEF Stage, InHand
  <2> QED BY <1>1, <1>3, <1>4, <2>1, <2>2 DEF JInv
<1>9. CASE ReleasePayload
  <2>1. /\ fpc = "release" /\ fpc' = "flush" /\ Ring!Drop
        /\ entry' = entry /\ flush_buf' = flush_buf /\ ~transfer
    BY <1>0, <1>9 DEF ReleasePayload, OneOwnsTheBuffer
  <2>2. Front(0) /\ Len(out) = entry.size
    BY <1>0, <2>1 DEF FlusherIsInStep
  <2>3. InHand(waiting, at, entry, Header) /\ flush_buf.entry = entry
    BY <1>1, <2>1 DEF Stage
  <2>4. entry.size <= Len(q) /\ entry.size > 0 /\ \A k \in 1..entry.size : Len(q[k]) = 3
    <3>1. entry.size <= Len(q) /\ entry.size > 0
      BY <1>0, <2>2 DEF Front
    <3>2. ASSUME NEW k \in 1..entry.size PROVE Len(q[k]) = 3
      <4>1. k \in 1..0 + entry.size
        BY <1>0
      <4>2. q[k] = <<entry.id, Header - 0 + k, Header + entry.size>>
        BY <2>2, <4>1 DEF Front
      <4> QED BY <4>2
    <3> QED BY <3>1, <3>2
  <2>5. PICK b : Laid(waiting, b, q') /\ b[1] = at[1] - entry.size
    BY <1>0, <1>6, <2>1, <2>2, <2>3, <2>4 DEF InHand
  <2>6. b[1] = 0 - (Header + entry.size)
    BY <1>0, <2>3, <2>5 DEF InHand
  <2>7. Stage(waiting', b, fpc', transfer', entry', flush_buf')
    BY <1>3, <2>1, <2>3, <2>6 DEF Stage, InHand
  <2> QED BY <1>3, <1>4, <2>5, <2>7 DEF JInv
<1> QED BY <1>3, <1>4, <1>5, <1>7, <1>8, <1>9

(* The first record arrives and the flusher begins the next one.           *)
LEMMA FirstArrives ==
  ASSUME IInv, JInv, fpc = "flush" \/ transfer,
         sink' = Append(sink, flush_buf), waiting' = Tail(waiting),
         fpc' \in {"idle", "loop", "busy"}, transfer' = FALSE, UNCHANGED <<ring, writers>>
  PROVE  JInv' /\ Printed!Deliver
<1> DEFINE n == Len(waiting)
<1>1. PICK at : Laid(waiting, at, q) /\ Stage(waiting, at, fpc, transfer, entry, flush_buf)
  BY DEF JInv
<1>2. /\ waiting \in Seq(Waiting) /\ at \in Seq(Int) /\ Len(at) = n /\ n \in Nat
      /\ q' = q /\ pc' = pc /\ size' = size
  BY <1>1 DEF Laid, ring, writers
<1>3. InHand(waiting, at, flush_buf.entry, Header + flush_buf.entry.size)
  BY <1>1 DEF Stage
<1>4. waiting # <<>> /\ EndOf(waiting, at, 1) = 0
  <2>1. waiting # <<>> /\ 1 \in 1..n
    BY <1>2, <1>3 DEF InHand
  <2>2. waiting[1].size \in Nat /\ Header \in Nat
    BY <1>2, <2>1, LaidTypes
  <2> QED BY <1>3, <2>1, <2>2 DEF InHand, EndOf
<1>5. /\ Laid(waiting', Tail(at), q')
      /\ waiting' # <<>> => Tail(at)[1] = 0
  <2>1. /\ Laid(Tail(waiting), Tail(at), q)
        /\ Tail(waiting) # <<>> => Tail(at)[1] = 0
    BY <1>1, <1>4, LaidArrives
  <2> QED BY <1>2, <2>1
<1>6. Stage(waiting', Tail(at), fpc', transfer', entry', flush_buf')
  BY <1>5 DEF Stage
<1>7. Filling(waiting', pc', size')
  <2>1. Len(waiting') = n - 1 /\ \A j \in 1..n - 1 : waiting'[j] = waiting[j + 1]
    BY <1>2, <1>4, HeadTailProperties
  <2>2. ASSUME NEW j \in 1..n - 1
        PROVE  j + 1 \in 1..n
    BY <1>2
  <2>3. Filling(waiting, pc, size)
    BY DEF JInv
  <2>4. ASSUME NEW j \in 1..n - 1, ~waiting'[j].done
        PROVE  pc'[waiting'[j].id] = "fill" /\ size'[waiting'[j].id] = waiting'[j].size
    BY <1>2, <2>1, <2>2, <2>3, <2>4 DEF Filling
  <2>5. ASSUME NEW j \in 1..n - 1, NEW k \in 1..n - 1,
               ~waiting'[j].done, ~waiting'[k].done, waiting'[j].id = waiting'[k].id
        PROVE  j = k
    <3>1. j + 1 = k + 1
      BY <2>1, <2>2, <2>3, <2>5 DEF Filling
    <3> QED BY <1>2, <3>1
  <2> QED BY <2>1, <2>4, <2>5 DEF Filling
<1>8. JInv'
  BY <1>5, <1>6, <1>7 DEF JInv
<1>9. Printed!Deliver
  BY <1>3, ArrivalDelivers DEF InHand
<1> QED BY <1>8, <1>9

(* Everything else leaves the records where they are.                      *)
LEMMA RestWaits ==
  ASSUME IInv, JInv,
         \/ \E p \in Producers : Drop(p) \/ \E n \in Payloads : WriteCall(p, n)
         \/ FlushCall \/ LoopBusy \/ LoopEmpty \/ SetBusy
         \/ Flush /\ mode # "SYNC"
  PROVE  JInv' /\ waiting' = waiting /\ Arrived' = Arrived
<1>0. /\ pc \in [Producers -> {"idle", "acquire", "fill"}] /\ size \in [Producers -> Nat]
      /\ OneOwnsTheBuffer
  BY DEF IInv, Types
<1>1. PICK at : Laid(waiting, at, q) /\ Stage(waiting, at, fpc, transfer, entry, flush_buf)
  BY DEF JInv
<1>2. UNCHANGED <<q, waiting, sink, flush_buf>>
  BY DEF Drop, WriteCall, FlushCall, LoopBusy, LoopEmpty, SetBusy, Flush, ring, flusher, history
<1>3. Filling(waiting', pc', size')
  <2>1. CASE UNCHANGED <<pc, size>>
    BY <1>2, <2>1 DEF JInv, Filling
  <2>2. ASSUME NEW p \in Producers, Drop(p) \/ \E n \in Payloads : WriteCall(p, n)
        PROVE  Filling(waiting', pc', size')
    <3>1. /\ pc[p] # "fill"
          /\ \A r \in Producers : r # p => pc'[r] = pc[r] /\ size'[r] = size[r]
      BY <1>0, <2>2 DEF Drop, WriteCall, Goto
    <3>2. waiting \in Seq(Waiting)
      BY <1>1 DEF Laid
    <3>3. ASSUME NEW j \in 1..Len(waiting), ~waiting[j].done
          PROVE  pc'[waiting[j].id] = "fill" /\ size'[waiting[j].id] = waiting[j].size
      <4>1. pc[waiting[j].id] = "fill" /\ size[waiting[j].id] = waiting[j].size
        BY <3>3 DEF JInv, Filling
      <4>2. waiting[j].id \in Producers /\ waiting[j].id # p
        BY <3>1, <3>2, <4>1, LaidTypes
      <4> QED BY <3>1, <4>1, <4>2
    <3> QED BY <1>2, <3>3 DEF JInv, Filling
  <2> QED BY <2>1, <2>2 DEF FlushCall, LoopBusy, LoopEmpty, SetBusy, Flush, writers
<1>4. Stage(waiting', at, fpc', transfer', entry', flush_buf')
  <2>1. CASE UNCHANGED flusher
    BY <1>1, <1>2, <2>1 DEF Stage, InHand, flusher
  <2>2. CASE FlushCall \/ LoopBusy \/ LoopEmpty
    <3>1. /\ fpc \in {"idle", "loop", "busy"} /\ fpc' \in {"idle", "loop", "busy"}
          /\ transfer' = transfer /\ entry' = entry
      BY <2>2 DEF FlushCall, LoopBusy, LoopEmpty
    <3> QED BY <1>1, <1>2, <3>1 DEF Stage, InHand
  <2>3. CASE SetBusy
    <3>1. fpc = "busy" /\ fpc' = "loop" /\ transfer' = transfer
      BY <2>3 DEF SetBusy
    <3> QED BY <1>1, <1>2, <3>1 DEF Stage, InHand
  <2>4. CASE Flush /\ mode # "SYNC"
    <3>1. fpc = "flush" /\ fpc' = "busy" /\ transfer' = TRUE /\ entry' = entry
      BY <2>4 DEF Flush
    <3> QED BY <1>1, <1>2, <3>1 DEF Stage, InHand
  <2> QED BY <2>1, <2>2, <2>3, <2>4 DEF Drop, WriteCall
<1>5. JInv'
  BY <1>1, <1>2, <1>3, <1>4 DEF JInv
<1> QED BY <1>2, <1>5 DEF Arrived

(* Every step of the log is one of the journal, or none.                   *)
LEMMA StepsOfTheJournal ==
  ASSUME IInv, JInv, [Next]_vars
  PROVE  JInv' /\ [Printed!Next]_(Printed!vars)
<1>1. CASE UNCHANGED vars
  <2>1. UNCHANGED <<q, waiting, sink, pc, size, fpc, transfer, entry, flush_buf>>
    BY <1>1 DEF vars, ring, writers, flusher, history
  <2>2. JInv'
    BY <2>1 DEF JInv
  <2>3. UNCHANGED <<waiting, Arrived>>
    BY <2>1 DEF Arrived
  <2> QED BY <2>2, <2>3 DEF Printed!vars
<1>2. ASSUME JInv', waiting' = waiting, Arrived' = Arrived
      PROVE  JInv' /\ [Printed!Next]_(Printed!vars)
  BY <1>2 DEF Printed!vars
<1>3. ASSUME NEW p \in Producers, Acquire(p)
      PROVE  JInv' /\ [Printed!Next]_(Printed!vars)
  BY <1>3, AcquireAccepts DEF Printed!Next
<1>4. ASSUME NEW p \in Producers, Push(p)
      PROVE  JInv' /\ [Printed!Next]_(Printed!vars)
  BY <1>4, PushCompletes DEF Printed!Next
<1>5. ASSUME NEW p \in Producers, Drop(p) \/ \E n \in Payloads : WriteCall(p, n)
      PROVE  JInv' /\ [Printed!Next]_(Printed!vars)
  BY <1>2, <1>5, RestWaits
<1>6. CASE FlushCall \/ LoopBusy \/ LoopEmpty \/ SetBusy \/ (Flush /\ mode # "SYNC")
  BY <1>2, <1>6, RestWaits
<1>7. CASE ReadHeader \/ ReleaseHeader \/ ReadPayload \/ ReleasePayload
  BY <1>2, <1>7, FlusherTakesFirst
<1>8. CASE Flush /\ mode = "SYNC"
  <2>1. fpc = "flush" /\ ~transfer /\ transfer \in BOOLEAN
    BY <1>8 DEF Flush, IInv, Types, OneOwnsTheBuffer
  <2>2. /\ sink' = Append(sink, flush_buf) /\ waiting' = Tail(waiting)
        /\ fpc' \in {"idle", "loop", "busy"} /\ transfer' = FALSE /\ UNCHANGED <<ring, writers>>
    BY <1>8, <2>1 DEF Flush
  <2> QED BY <2>1, <2>2, FirstArrives DEF Printed!Next
<1>9. CASE TransferDone
  <2>1. /\ transfer /\ fpc \in {"idle", "loop", "busy"}
    BY <1>9 DEF TransferDone, IInv, OneOwnsTheBuffer
  <2>2. /\ sink' = Append(sink, flush_buf) /\ waiting' = Tail(waiting)
        /\ fpc' = fpc /\ transfer' = FALSE /\ UNCHANGED <<ring, writers>>
    BY <1>9 DEF TransferDone
  <2> QED BY <2>1, <2>2, FirstArrives DEF Printed!Next
<1>10. CASE FlushStep
  BY <1>6, <1>7, <1>8, <1>10 DEF FlushStep
<1> QED BY <1>1, <1>3, <1>4, <1>5, <1>9, <1>10 DEF Next, WriterStep

(* The log implements the journal: each record it accepts is printed once, *)
(* whole, under its own header and in the order of the reservations, in    *)
(* both modes and for any number of writers.                               *)
THEOREM LogIsAJournal == Spec => ImplementsJournal
<1>1. Init => JInv /\ Printed!Init
  BY InitJournal
<1>2. IInv /\ JInv /\ [Next]_vars => JInv' /\ [Printed!Next]_(Printed!vars)
  BY StepsOfTheJournal
<1> QED BY <1>1, <1>2, LogInvariance, PTL DEF Spec, Printed!Spec, ImplementsJournal
=============================================================================
