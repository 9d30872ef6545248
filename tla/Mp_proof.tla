------------------------------ MODULE Mp_proof ------------------------------
(***************************************************************************)
(* Proofs about the memory pool of Mp for any number of threads, any size  *)
(* of pool, header and alignment and any requests: the blocks tile the     *)
(* pool, the free list stays sorted and linked both ways, grants fit, and  *)
(* the pool lends disjoint ranges.                                         *)
(***************************************************************************)
EXTENDS Mp, TLAPS

Ring == free \cup {Root}     \* the nodes of the free list, its head included

LinkTypes == [next : [Node -> Node \cup {NoBlock}], prev : [Node -> Node \cup {NoBlock}]]

TypeOK ==
  /\ list \in LinkTypes
  /\ size \in [Addr -> Int] /\ off \in 0..Size /\ lock \in BOOLEAN
  /\ pc \in [Threads -> {"idle", "lock", "scan", "place", "unlock"}]
  /\ w \in [Threads -> [op : {"none", "alloc", "free"}, n : Nat, need : Nat,
                        node : Node, blk : Addr \cup {NoBlock}]]
  /\ lent \subseteq [at : Addr, n : Caps] /\ free \subseteq Addr

(* The spin lock admits one thread.                                        *)
Inside(t) == pc[t] \in {"scan", "place", "unlock"}

OneInside ==
  /\ lock <=> \E t \in Threads : Inside(t)
  /\ \A t, u \in Threads : Inside(t) /\ Inside(u) => t = u

(* A list is a ring through the blocks S in the order of their addresses,  *)
(* both ways: next of a node is the least block of S above it.             *)
LinkedOver(l, S) ==
  \A x \in S \cup {Root} :
    /\ l.next[x] \in S \cup {Root} /\ l.prev[l.next[x]] = x
    /\ l.prev[x] \in S \cup {Root} /\ l.next[l.prev[x]] = x
    /\ l.next[x] # Root => x < l.next[x]
    /\ \A b \in S : x < b => l.next[x] # Root /\ l.next[x] <= b

(* The blocks lie side by side from 0 up to off.                           *)
Tiled ==
  /\ \A a \in Blocks : a \in Addr /\ size[a] > 0 /\ a + size[a] <= off /\ a % Align = 0
  /\ \A a, b \in Blocks : a < b => a + size[a] <= b
  /\ \A c \in 0..off-1 : \E a \in Blocks : a <= c /\ c < a + size[a]
  /\ off % Align = 0

(* A block is free, lent or in the hands of one thread.                    *)
Apart ==
  /\ \A b, c \in lent : b # c => b.at # c.at
  /\ free \cap Lent = {}
  /\ \A t \in Threads :
       /\ InHand(t) \cap (free \cup Lent) = {}
       /\ \A u \in Threads \ {t} : InHand(t) \cap InHand(u) = {}

(* What a call has found out so far: while it holds the lock its node is   *)
(* in the list, and what the walk has passed lies below the block it is    *)
(* about to place; the block it was given fits its request.                *)
CallIsSound(t) ==
  /\ pc[t] = "idle" => w[t].op = "none" /\ w[t].blk = NoBlock
  /\ pc[t] # "idle" => w[t].op \in {"alloc", "free"}
  /\ w[t].op = "alloc" => w[t].n \in Caps /\ w[t].need = BlockSize(w[t].n)
  /\ w[t].op = "free" => w[t].blk \in Addr /\ pc[t] # "scan"
  /\ w[t].op = "alloc" /\ pc[t] \in {"lock", "scan"} => w[t].blk = NoBlock
  /\ pc[t] = "scan" => w[t].node \in Ring
  /\ pc[t] = "place" => /\ w[t].blk \in Addr /\ w[t].node \in Ring
                        /\ list.prev[w[t].node] < Placed(t)
  /\ w[t].op = "alloc" /\ w[t].blk # NoBlock =>
       size[w[t].blk] >= w[t].need /\ size[w[t].blk] < w[t].need + Header + Align

IInv ==
  /\ TypeOK /\ OneInside /\ LinkedOver(list, free) /\ Tiled /\ Apart /\ GrantsFit
  /\ \A t \in Threads : CallIsSound(t)

-----------------------------------------------------------------------------
(* Alignment.                                                              *)

LEMMA Constants ==
  /\ Size \in Nat /\ Align \in Nat /\ Align > 0 /\ BlkSize \in Nat /\ BlkSize > 0
  /\ Caps \subseteq Nat /\ NoBlock \notin Int
BY MpAssumption

(* Addresses and the root of the list are told apart by their sign.        *)
LEMMA Nodes ==
  /\ \A a \in Addr : a \in Nat /\ a < Size /\ a # Root /\ a \in Node /\ Root < a /\ a # NoBlock
  /\ Root \in Node /\ Root \in Int /\ Root # NoBlock
  /\ \A x \in Node : x \in Int /\ x # NoBlock
BY Constants DEF Addr, Node, Root

(* Multiples of the alignment.                                             *)
LEMMA Multiples ==
  ASSUME NEW k \in Int
  PROVE  (k * Align) % Align = 0 /\ k * Align \in Int
BY Constants

LEMMA AlignedIsMultiple ==
  ASSUME NEW n \in Int, n % Align = 0
  PROVE  \E k \in Int : n = k * Align
<1>1. n = Align * (n \div Align) + (n % Align) /\ n \div Align \in Int
  BY Constants
<1>2. n = (n \div Align) * Align
  BY <1>1, Constants
<1> QED BY <1>1, <1>2

LEMMA AlignedSum ==
  ASSUME NEW m \in Int, NEW n \in Int, m % Align = 0, n % Align = 0
  PROVE  (m + n) % Align = 0
<1>1. PICK j \in Int : m = j * Align
  BY AlignedIsMultiple
<1>2. PICK k \in Int : n = k * Align
  BY AlignedIsMultiple
<1>3. m + n = (j + k) * Align
  BY <1>1, <1>2, Constants
<1>4. j + k \in Int
  OBVIOUS
<1> QED BY <1>3, <1>4, Multiples

(* ALIGN_UP rounds up to the next multiple.                                *)
LEMMA AlignUpRounds ==
  ASSUME NEW n \in Nat
  PROVE  /\ AlignUp(n) \in Nat /\ AlignUp(n) % Align = 0
         /\ AlignUp(n) >= n /\ AlignUp(n) < n + Align
<1> DEFINE m == n + Align - 1
           d == m \div Align
           r == m % Align
<1>1. m \in Nat /\ d \in Int /\ r \in 0..Align-1 /\ m = Align * d + r
  BY Constants
<1>2. AlignUp(n) = d * Align
  BY DEF AlignUp
<1> HIDE DEF m, d, r
<1>3. d * Align \in Int /\ (d * Align) % Align = 0
  BY <1>1, Multiples
<1>4. d * Align = m - r
  BY <1>1, <1>3, Constants
<1>5. m = n + Align - 1
  BY DEF m
<1> QED BY <1>1, <1>2, <1>3, <1>4, <1>5, Constants

(* The size of a block: aligned, and its header comes on top.              *)
LEMMA BlockSizes ==
  /\ Header \in Nat /\ Header > 0
  /\ \A n \in Nat : /\ BlockSize(n) \in Nat /\ BlockSize(n) % Align = 0
                    /\ BlockSize(n) >= Header + n /\ BlockSize(n) > 0
<1>1. Header \in Nat /\ Header > 0 /\ Header % Align = 0
  BY Constants, AlignUpRounds DEF Header
<1>2. ASSUME NEW n \in Nat
      PROVE  /\ BlockSize(n) \in Nat /\ BlockSize(n) % Align = 0
             /\ BlockSize(n) >= Header + n /\ BlockSize(n) > 0
  <2>1. AlignUp(n) \in Nat /\ AlignUp(n) % Align = 0 /\ AlignUp(n) >= n
    BY AlignUpRounds
  <2>2. (Header + AlignUp(n)) % Align = 0
    BY <1>1, <2>1, AlignedSum
  <2> QED BY <1>1, <2>1, <2>2 DEF BlockSize
<1> QED BY <1>1, <1>2

-----------------------------------------------------------------------------
(* The list.                                                               *)

(* list_del takes a block out and leaves the others in order.              *)
LEMMA DeleteLinks ==
  ASSUME NEW l \in LinkTypes, NEW S \in SUBSET Addr, LinkedOver(l, S), NEW e \in S
  PROVE  L!list_del(l, e) \in LinkTypes /\ LinkedOver(L!list_del(l, e), S \ {e})
<1> DEFINE a == l.next[e]
           b == l.prev[e]
           m == L!list_del(l, e)
           T == S \ {e}
<1>1. /\ l.next \in [Node -> Node \cup {NoBlock}] /\ l.prev \in [Node -> Node \cup {NoBlock}]
      /\ S \subseteq Node /\ Root \in Node /\ e \in Node /\ e # Root /\ e \in Int
  BY Nodes DEF LinkTypes
<1>2. /\ a \in S \cup {Root} /\ b \in S \cup {Root} /\ l.prev[a] = e /\ l.next[b] = e
      /\ a # Root => e < a
      /\ b < e
  <2>1. /\ a \in S \cup {Root} /\ b \in S \cup {Root} /\ l.prev[a] = e /\ l.next[b] = e
        /\ a # Root => e < a
    BY DEF LinkedOver
  <2>2. l.next[b] # Root => b < l.next[b]
    BY <2>1 DEF LinkedOver
  <2> QED BY <1>1, <2>1, <2>2
<1>3. a # e /\ b # e /\ a \in T \cup {Root} /\ b \in T \cup {Root} /\ a \in Node /\ b \in Node
  <2>1. a \in Int /\ b \in Int /\ a \in Node /\ b \in Node
    BY <1>1, <1>2, Nodes
  <2>2. a # e /\ b # e
    BY <1>1, <1>2, <2>1
  <2> QED BY <1>2, <2>1, <2>2
<1>4. /\ m.next = [[l.next EXCEPT ![b] = a] EXCEPT ![e] = NoBlock]
      /\ m.prev = [[l.prev EXCEPT ![a] = b] EXCEPT ![e] = NoBlock]
  BY DEF L!list_del, L!ListUnlink
<1>5. m = [next |-> [[l.next EXCEPT ![b] = a] EXCEPT ![e] = NoBlock],
           prev |-> [[l.prev EXCEPT ![a] = b] EXCEPT ![e] = NoBlock]]
  BY DEF L!list_del, L!ListUnlink
<1>6. m \in LinkTypes
  BY <1>1, <1>3, <1>5 DEF LinkTypes
<1>7. /\ \A x \in T \cup {Root} : m.next[x] = IF x = b THEN a ELSE l.next[x]
      /\ \A x \in T \cup {Root} : m.prev[x] = IF x = a THEN b ELSE l.prev[x]
  BY <1>1, <1>3, <1>4
<1> HIDE DEF a, b, m, T
<1>8. T \subseteq S /\ e \notin T /\ \A x \in S \cup {Root} : x \in T \cup {Root} \/ x = e
  BY DEF T
<1>9. \A x \in S \cup {Root} : x \in Int
  BY <1>1, Nodes
<1>10. ASSUME NEW x \in T \cup {Root}
       PROVE  /\ m.next[x] \in T \cup {Root} /\ m.prev[m.next[x]] = x
              /\ m.prev[x] \in T \cup {Root} /\ m.next[m.prev[x]] = x
              /\ m.next[x] # Root => x < m.next[x]
              /\ \A c \in T : x < c => m.next[x] # Root /\ m.next[x] <= c
  <2>1. /\ x \in S \cup {Root} /\ x # e
        /\ l.next[x] \in S \cup {Root} /\ l.prev[l.next[x]] = x
        /\ l.prev[x] \in S \cup {Root} /\ l.next[l.prev[x]] = x
        /\ l.next[x] # Root => x < l.next[x]
        /\ \A c \in S : x < c => l.next[x] # Root /\ l.next[x] <= c
    BY <1>1, <1>8 DEF LinkedOver
  <2>2. m.next[x] \in T \cup {Root} /\ m.prev[m.next[x]] = x
    <3>1. CASE x = b
      BY <1>3, <1>7, <3>1
    <3>2. CASE x # b
      <4>1. l.next[x] # e
        BY <2>1, <3>2 DEF b
      <4>2. l.next[x] # a
        BY <1>2, <2>1
      <4> QED BY <1>7, <1>8, <2>1, <3>2, <4>1, <4>2
    <3> QED BY <3>1, <3>2
  <2>3. m.prev[x] \in T \cup {Root} /\ m.next[m.prev[x]] = x
    <3>1. CASE x = a
      BY <1>3, <1>7, <3>1
    <3>2. CASE x # a
      <4>1. l.prev[x] # e
        BY <2>1, <3>2 DEF a
      <4>2. l.prev[x] # b
        BY <1>2, <2>1
      <4> QED BY <1>7, <1>8, <2>1, <3>2, <4>1, <4>2
    <3> QED BY <3>1, <3>2
  <2>4. m.next[x] # Root => x < m.next[x]
    <3>1. CASE x = b
      BY <1>1, <1>2, <1>7, <1>9, <3>1
    <3>2. CASE x # b
      BY <1>7, <2>1, <3>2
    <3> QED BY <3>1, <3>2
  <2>5. ASSUME NEW c \in T, x < c
        PROVE  m.next[x] # Root /\ m.next[x] <= c
    <3>1. CASE x = b
      <4>1. c \in S /\ c # e /\ c \in Int
        BY <1>8, <1>9
      <4>2. e <= c
        BY <1>2, <2>1, <2>5, <3>1, <4>1
      <4>3. e < c
        BY <1>1, <4>1, <4>2
      <4>4. a # Root /\ a <= c
        BY <4>1, <4>3 DEF LinkedOver, a
      <4> QED BY <1>7, <3>1, <4>4
    <3>2. CASE x # b
      BY <1>7, <1>8, <2>1, <2>5, <3>2
    <3> QED BY <3>1, <3>2
  <2> QED BY <2>2, <2>3, <2>4, <2>5
<1>11. LinkedOver(m, T)
  BY <1>10 DEF LinkedOver
<1> QED BY <1>6, <1>11 DEF m, T

(* list_add_tail puts a block in front of the first one above it.          *)
LEMMA AddLinks ==
  ASSUME NEW l \in LinkTypes, NEW S \in SUBSET Addr, LinkedOver(l, S),
         NEW e \in Addr \ S, NEW a \in S \cup {Root},
         l.prev[a] < e, a # Root => e < a
  PROVE  /\ L!ListAdd(l, e, l.prev[a], a) \in LinkTypes
         /\ LinkedOver(L!ListAdd(l, e, l.prev[a], a), S \cup {e})
<1> DEFINE b == l.prev[a]
           m == L!ListAdd(l, e, b, a)
           T == S \cup {e}
<1>1. /\ l.next \in [Node -> Node \cup {NoBlock}] /\ l.prev \in [Node -> Node \cup {NoBlock}]
      /\ S \subseteq Node /\ Root \in Node /\ e \in Node /\ e # Root /\ e \in Int /\ e \notin S
      /\ Root < e
  BY Nodes DEF LinkTypes
<1>2. /\ b \in S \cup {Root} /\ l.next[b] = a /\ b < e /\ a \in Node /\ b \in Node
  BY <1>1 DEF LinkedOver
<1>3. a # e /\ b # e
  BY <1>1, <1>2
<1>4. m = [next |-> [l.next EXCEPT ![e] = a, ![b] = e],
           prev |-> [l.prev EXCEPT ![a] = e, ![e] = b]]
  BY DEF L!ListAdd
<1>5. m \in LinkTypes
  BY <1>1, <1>2, <1>4 DEF LinkTypes
<1>6. /\ \A x \in T \cup {Root} :
           m.next[x] = IF x = b THEN e ELSE IF x = e THEN a ELSE l.next[x]
      /\ \A x \in T \cup {Root} :
           m.prev[x] = IF x = e THEN b ELSE IF x = a THEN e ELSE l.prev[x]
  BY <1>1, <1>2, <1>3, <1>4
<1>b. l.prev[a] = b /\ \A x \in S \cup {Root} : l.prev[x] = b => x = a
  BY <1>1, <1>2 DEF LinkedOver
<1> HIDE DEF b, m, T
<1>7. /\ S \subseteq T /\ e \in T /\ \A x \in T \cup {Root} : x \in S \cup {Root} \/ x = e
      /\ \A x \in T : x \in S \/ x = e
  BY DEF T
<1>8. \A x \in T \cup {Root} : x \in Int
  BY <1>1, <1>7, Nodes
<1>9. ASSUME NEW x \in T \cup {Root}
      PROVE  /\ m.next[x] \in T \cup {Root} /\ m.prev[m.next[x]] = x
             /\ m.prev[x] \in T \cup {Root} /\ m.next[m.prev[x]] = x
             /\ m.next[x] # Root => x < m.next[x]
             /\ \A c \in T : x < c => m.next[x] # Root /\ m.next[x] <= c
  <2>1. CASE x = e
    <3>1. m.next[e] = a /\ m.prev[e] = b /\ m.prev[a] = e /\ m.next[b] = e
      BY <1>2, <1>3, <1>6, <1>7
    <3>2. a # Root => e < a
      OBVIOUS
    <3>3. ASSUME NEW c \in T, e < c
          PROVE  a # Root /\ a <= c
      <4>1. c \in S /\ c \in Int /\ b \in Int
        BY <1>1, <1>2, <1>7, <1>8, <3>3
      <4>2. b < c
        BY <1>1, <1>2, <3>3, <4>1
      <4>3. l.next[b] # Root /\ l.next[b] <= c
        BY <1>2, <4>1, <4>2 DEF LinkedOver
      <4> QED BY <1>2, <4>3
    <3> QED BY <1>2, <1>7, <2>1, <3>1, <3>2, <3>3
  <2>2. CASE x # e
    <3>1. /\ x \in S \cup {Root} /\ x \in Int
          /\ l.next[x] \in S \cup {Root} /\ l.prev[l.next[x]] = x
          /\ l.prev[x] \in S \cup {Root} /\ l.next[l.prev[x]] = x
          /\ l.next[x] # Root => x < l.next[x]
          /\ \A c \in S : x < c => l.next[x] # Root /\ l.next[x] <= c
      BY <1>7, <1>8, <2>2 DEF LinkedOver
    <3>2. m.next[x] \in T \cup {Root} /\ m.prev[m.next[x]] = x
      <4>1. CASE x = b
        BY <1>6, <1>7, <4>1
      <4>2. CASE x # b
        <5>1. l.next[x] # a
          BY <1>b, <3>1, <4>2
        <5>2. l.next[x] # e
          BY <1>1, <3>1
        <5> QED BY <1>6, <1>7, <2>2, <3>1, <4>2, <5>1, <5>2
      <4> QED BY <4>1, <4>2
    <3>3. m.prev[x] \in T \cup {Root} /\ m.next[m.prev[x]] = x
      <4>1. CASE x = a
        BY <1>2, <1>3, <1>6, <1>7, <4>1
      <4>2. CASE x # a
        <5>1. l.prev[x] # b
          BY <1>b, <3>1, <4>2
        <5>2. l.prev[x] # e
          BY <1>1, <3>1
        <5> QED BY <1>6, <1>7, <2>2, <3>1, <4>2, <5>1, <5>2
      <4> QED BY <4>1, <4>2
    <3>4. m.next[x] # Root => x < m.next[x]
      <4>1. CASE x = b
        BY <1>2, <1>6, <4>1
      <4>2. CASE x # b
        BY <1>6, <2>2, <3>1, <4>2
      <4> QED BY <4>1, <4>2
    <3>5. ASSUME NEW c \in T, x < c
          PROVE  m.next[x] # Root /\ m.next[x] <= c
      <4>1. CASE x = b
        <5>1. m.next[x] = e
          BY <1>6, <4>1
        <5>2. e <= c
          <6>1. CASE c = e
            BY <1>1, <6>1
          <6>2. CASE c # e
            <7>1. c \in S /\ c \in Int /\ b < c
              BY <1>7, <1>8, <3>5, <4>1, <6>2
            <7>2. a # Root /\ a <= c
              BY <1>2, <7>1 DEF LinkedOver
            <7>3. e < a /\ a \in Int
              BY <1>7, <1>8, <7>2
            <7> QED BY <1>1, <7>1, <7>2, <7>3
          <6> QED BY <6>1, <6>2
        <5> QED BY <1>1, <5>1, <5>2
      <4>2. CASE x # b
        <5>1. m.next[x] = l.next[x]
          BY <1>6, <2>2, <4>2
        <5>2. CASE c = e
          <6>1. l.next[x] # e /\ l.next[x] \in Int /\ b \in Int
            BY <1>1, <1>2, <1>7, <1>8, <3>1
          <6>2. CASE x < b
            <7>1. b \in S
              BY <1>1, <1>2, <3>1, <6>2, Nodes
            <7>2. l.next[x] # Root /\ l.next[x] <= b
              BY <3>1, <6>2, <7>1
            <7> QED BY <1>1, <1>2, <5>1, <5>2, <6>1, <7>2
          <6>3. CASE ~(x < b)
            <7>1. b < x
              BY <3>1, <4>2, <6>1, <6>3
            <7>2. x \in S
              BY <1>1, <1>2, <3>1, <7>1, Nodes
            <7>3. a # Root /\ a <= x
              BY <1>2, <7>1, <7>2 DEF LinkedOver
            <7>4. e < a /\ a \in Int
              BY <1>7, <1>8, <7>3
            <7> QED BY <1>1, <3>1, <3>5, <5>2, <7>3, <7>4
          <6> QED BY <6>2, <6>3
        <5>3. CASE c # e
          BY <1>7, <3>1, <3>5, <5>1, <5>3
        <5> QED BY <5>2, <5>3
      <4> QED BY <4>1, <4>2
    <3> QED BY <3>2, <3>3, <3>4, <3>5
  <2> QED BY <2>1, <2>2
<1>10. LinkedOver(m, T)
  BY <1>9 DEF LinkedOver
<1> QED BY <1>5, <1>10 DEF m, T, b

-----------------------------------------------------------------------------
(* What a step of one thread leaves alone.                                 *)

PcTypes == [Threads -> {"idle", "lock", "scan", "place", "unlock"}]
CallTypes == [op : {"none", "alloc", "free"}, n : Nat, need : Nat,
              node : Node, blk : Addr \cup {NoBlock}]

(* A thread's move keeps what the other threads have in hand.              *)
LEMMA OthersInHand ==
  ASSUME NEW t \in Threads, pc \in PcTypes, w \in [Threads -> CallTypes],
         NEW to, pc' = [pc EXCEPT ![t] = to],
         NEW r, w' = [w EXCEPT ![t] = r]
  PROVE  /\ pc'[t] = to /\ w'[t] = r
         /\ \A u \in Threads \ {t} :
              /\ pc'[u] = pc[u] /\ w'[u] = w[u]
              /\ InHand(u)' = InHand(u) /\ (Inside(u)' <=> Inside(u))
<1>1. pc'[t] = to /\ w'[t] = r
  BY DEF PcTypes
<1>2. ASSUME NEW u \in Threads \ {t}
      PROVE  /\ pc'[u] = pc[u] /\ w'[u] = w[u]
             /\ InHand(u)' = InHand(u) /\ (Inside(u)' <=> Inside(u))
  <2>1. pc'[u] = pc[u] /\ w'[u] = w[u]
    BY DEF PcTypes
  <2> QED BY <2>1 DEF InHand, Placed, Inside
<1> QED BY <1>1, <1>2

(* A step that neither takes nor gives up the lock keeps it exclusive.     *)
LEMMA SameInside ==
  ASSUME OneInside, NEW t \in Threads, lock' = lock, Inside(t)' <=> Inside(t),
         \A u \in Threads \ {t} : Inside(u)' <=> Inside(u)
  PROVE  OneInside'
<1>1. \A u \in Threads : Inside(u)' <=> Inside(u)
  OBVIOUS
<1>2. (\E u \in Threads : Inside(u))' <=> \E u \in Threads : Inside(u)
  BY <1>1
<1>3. \A u, v \in Threads : Inside(u)' /\ Inside(v)' => u = v
  BY <1>1 DEF OneInside
<1> QED BY <1>2, <1>3 DEF OneInside

(* The blocks, seen from one thread.                                       *)
Others(t) == UNION {InHand(u) : u \in Threads \ {t}}

LEMMA BlocksOf ==
  ASSUME NEW t \in Threads
  PROVE  Blocks = free \cup Lent \cup InHand(t) \cup Others(t)
BY DEF Blocks, Others

(* Blocks that change hands keep the pool tiled.                           *)
LEMMA SameTiles ==
  ASSUME Tiled, Blocks' = Blocks, size' = size, off' = off
  PROVE  Tiled'
BY DEF Tiled

(* Blocks stay apart when a thread, the list and the users redistribute    *)
(* what they had, and new blocks that nobody had.                          *)
LEMMA StayApart ==
  ASSUME Apart, NEW t \in Threads, NEW fresh, fresh \cap Blocks = {},
         \A u \in Threads \ {t} : InHand(u)' = InHand(u),
         free' \cup Lent' \cup InHand(t)' \subseteq free \cup Lent \cup InHand(t) \cup fresh,
         free' \cap Lent' = {}, InHand(t)' \cap (free' \cup Lent') = {},
         \A b, c \in lent' : b # c => b.at # c.at
  PROVE  Apart' /\ Others(t)' = Others(t)
<1>1. ASSUME NEW u \in Threads \ {t}
      PROVE  /\ InHand(u) \cap (free \cup Lent \cup InHand(t) \cup fresh) = {}
             /\ InHand(u) \subseteq Blocks
  <2>1. InHand(u) \subseteq Blocks
    BY DEF Blocks
  <2>2. InHand(u) \cap (free \cup Lent) = {} /\ InHand(u) \cap InHand(t) = {}
    BY DEF Apart
  <2> QED BY <2>1, <2>2
<1>2. Others(t)' = Others(t)
  BY DEF Others
<1>3. ASSUME NEW u \in Threads, NEW v \in Threads \ {u}
      PROVE  InHand(u)' \cap InHand(v)' = {}
  <2>1. CASE u = t
    BY <1>1, <2>1
  <2>2. CASE v = t
    BY <1>1, <2>2
  <2>3. CASE u # t /\ v # t
    BY <2>3 DEF Apart
  <2> QED BY <2>1, <2>2, <2>3
<1>4. ASSUME NEW u \in Threads
      PROVE  InHand(u)' \cap (free' \cup Lent') = {}
  BY <1>1
<1> QED BY <1>2, <1>3, <1>4 DEF Apart

(* A call is none the worse for what happens outside the lock it holds,    *)
(* or to blocks that are not in its hands.                                 *)
LEMMA OtherCalls ==
  ASSUME NEW u \in Threads, CallIsSound(u), pc'[u] = pc[u], w'[u] = w[u],
         pc[u] \in {"scan", "place"} => list' = list /\ free' = free,
         w[u].blk # NoBlock => size'[w[u].blk] = size[w[u].blk]
  PROVE  CallIsSound(u)'
<1>1. Placed(u)' = Placed(u)
  BY DEF Placed
<1>2. pc[u] \in {"scan", "place"} => Ring' = Ring /\ list' = list
  BY DEF Ring
<1> QED BY <1>1, <1>2 DEF CallIsSound

-----------------------------------------------------------------------------
(* The actions, one by one.                                                *)

Moves(t, to, r) == pc' = [pc EXCEPT ![t] = to] /\ w' = [w EXCEPT ![t] = r]

(* What the invariant says of pc and w in terms of the sets above.         *)
LEMMA CallsTyped == TypeOK <=>
  /\ list \in LinkTypes
  /\ size \in [Addr -> Int] /\ off \in 0..Size /\ lock \in BOOLEAN
  /\ pc \in PcTypes /\ w \in [Threads -> CallTypes]
  /\ lent \subseteq [at : Addr, n : Caps] /\ free \subseteq Addr
BY DEF TypeOK, PcTypes, CallTypes

(* A thread that only walks or waits disturbs no block and no other call.  *)
LEMMA QuietStep ==
  ASSUME IInv, NEW t \in Threads, NEW r \in CallTypes,
         NEW to \in {"idle", "lock", "scan", "place", "unlock"}, Moves(t, to, r),
         UNCHANGED <<list, size, off, lent, free>>, lock' \in BOOLEAN,
         InHand(t)' = InHand(t), OneInside', CallIsSound(t)'
  PROVE  IInv'
<1>1. TypeOK'
  <2>1. pc' \in PcTypes /\ w' \in [Threads -> CallTypes]
    BY CallsTyped DEF IInv, Moves, PcTypes
  <2>2. /\ list' \in LinkTypes /\ size' \in [Addr -> Int] /\ off' \in 0..Size
        /\ lent' \subseteq [at : Addr, n : Caps] /\ free' \subseteq Addr
    BY DEF IInv, TypeOK
  <2> QED BY <2>1, <2>2 DEF TypeOK, PcTypes, CallTypes
<1>2. \A u \in Threads \ {t} : pc'[u] = pc[u] /\ w'[u] = w[u] /\ InHand(u)' = InHand(u)
  BY OthersInHand, CallsTyped DEF IInv, Moves
<1>3. \A u \in Threads : InHand(u)' = InHand(u)
  BY <1>2
<1>4. Lent' = Lent /\ Blocks' = Blocks
  BY <1>3 DEF Lent, Blocks
<1>5. LinkedOver(list, free)'
  BY DEF IInv, LinkedOver
<1>6. Tiled'
  BY <1>4, SameTiles DEF IInv
<1>7. Apart'
  BY <1>3, <1>4 DEF IInv, Apart
<1>8. GrantsFit'
  BY DEF IInv, GrantsFit
<1>9. \A u \in Threads \ {t} : CallIsSound(u)'
  BY <1>2, OtherCalls DEF IInv
<1> QED BY <1>1, <1>5, <1>6, <1>7, <1>8, <1>9 DEF IInv

LEMMA AllocCallKeeps ==
  ASSUME IInv, NEW t \in Threads, NEW n \in Caps, AllocCall(t, n)
  PROVE  IInv'
<1> DEFINE r == [NoCall EXCEPT !.op = "alloc", !.n = n, !.need = BlockSize(n)]
<1>1. n \in Nat /\ BlockSize(n) \in Nat
  BY Constants, BlockSizes
<1>2. r.op = "alloc" /\ r.n = n /\ r.need = BlockSize(n) /\ r.blk = NoBlock
  BY DEF NoCall
<1>3. r \in CallTypes
  BY <1>1, Nodes DEF NoCall, CallTypes
<1>4. Moves(t, "lock", r) /\ pc[t] = "idle" /\ UNCHANGED <<list, size, off, lent, free, lock>>
  BY DEF AllocCall, Goto, Set, Moves
<1> HIDE DEF r
<1>5. /\ pc'[t] = "lock" /\ w'[t] = r
      /\ \A u \in Threads \ {t} : Inside(u)' <=> Inside(u)
  BY <1>4, OthersInHand, CallsTyped DEF IInv, Moves
<1>6. InHand(t)' = InHand(t)
  <2>1. InHand(t) = {}
    BY <1>4 DEF IInv, CallIsSound, InHand
  <2>2. InHand(t)' = {}
    BY <1>2, <1>5 DEF InHand
  <2> QED BY <2>1, <2>2
<1>7. OneInside'
  <2>1. Inside(t)' <=> Inside(t)
    BY <1>4, <1>5 DEF Inside
  <2> QED BY <1>4, <1>5, <2>1, SameInside DEF IInv
<1>8. CallIsSound(t)'
  BY <1>2, <1>5 DEF CallIsSound
<1> QED BY <1>3, <1>4, <1>6, <1>7, <1>8, QuietStep DEF IInv, TypeOK

LEMMA LockKeeps ==
  ASSUME IInv, NEW t \in Threads, Lock(t)
  PROVE  IInv'
<1> DEFINE r == [w[t] EXCEPT !.node = list.next[Root]]
           to == IF w[t].op = "alloc" THEN "scan" ELSE "place"
<1>1. w[t] \in CallTypes /\ CallIsSound(t) /\ pc[t] = "lock" /\ ~lock /\ lock' = TRUE
  BY CallsTyped DEF IInv, Lock, Goto
<1>2. list.next[Root] \in Ring /\ list.prev[list.next[Root]] = Root /\ list.next[Root] \in Node
  BY Nodes DEF IInv, LinkedOver, Ring, TypeOK
<1>3. r \in CallTypes
  BY <1>1, <1>2 DEF CallTypes
<1>4. Moves(t, to, r) /\ UNCHANGED <<list, size, off, lent, free>>
  BY DEF Lock, Goto, Set, Moves
<1>5. r.op = w[t].op /\ r.n = w[t].n /\ r.need = w[t].need /\ r.blk = w[t].blk
      /\ r.node = list.next[Root]
  BY <1>1 DEF CallTypes
<1>a. to \in {"scan", "place"} /\ (to = "scan" <=> w[t].op = "alloc")
  OBVIOUS
<1> HIDE DEF r, to
<1>6. /\ pc'[t] = to /\ w'[t] = r
      /\ \A u \in Threads \ {t} : Inside(u)' <=> Inside(u)
  BY <1>4, OthersInHand, CallsTyped DEF IInv, Moves
<1>7. InHand(t)' = InHand(t)
  BY <1>1, <1>5, <1>6, <1>a DEF InHand
<1>8. OneInside'
  <2>1. \A u \in Threads : ~Inside(u)
    BY <1>1 DEF IInv, OneInside
  <2>2. Inside(t)' /\ \A u \in Threads \ {t} : ~Inside(u)'
    BY <1>6, <1>a, <2>1 DEF Inside
  <2>3. (\E u \in Threads : Inside(u))' /\ \A u, v \in Threads : Inside(u)' /\ Inside(v)' => u = v
    BY <2>2
  <2> QED BY <1>1, <2>3 DEF OneInside
<1>9. CallIsSound(t)'
  <2>1. CASE w[t].op = "alloc"
    BY <1>1, <1>2, <1>4, <1>5, <1>6, <1>a, <2>1 DEF CallIsSound, Ring
  <2>2. CASE w[t].op = "free"
    <3>1. to = "place"
      BY <1>a, <2>2
    <3>2. Placed(t)' = w[t].blk /\ w[t].blk \in Addr
      BY <1>1, <1>5, <1>6, <2>2 DEF Placed, CallIsSound
    <3>3. (list.prev[w[t].node])' = Root
      BY <1>2, <1>4, <1>5, <1>6
    <3>4. (list.prev[w[t].node])' < Placed(t)'
      BY <3>2, <3>3, Nodes
    <3>5. Ring' = Ring
      BY <1>4 DEF Ring
    <3> QED BY <1>1, <1>2, <1>5, <1>6, <2>2, <3>1, <3>2, <3>4, <3>5 DEF CallIsSound
  <2> QED BY <1>1, <2>1, <2>2 DEF CallIsSound
<1> QED BY <1>1, <1>3, <1>4, <1>7, <1>8, <1>9, <1>a, QuietStep

(* A step inside the lock leaves it to the thread that has it.             *)
LEMMA StaysInside ==
  ASSUME IInv, NEW t \in Threads, NEW r, NEW to \in {"scan", "place", "unlock"},
         Inside(t), Moves(t, to, r), lock' = lock
  PROVE  /\ OneInside'
         /\ pc'[t] = to /\ w'[t] = r
         /\ \A u \in Threads \ {t} :
              pc'[u] = pc[u] /\ w'[u] = w[u] /\ InHand(u)' = InHand(u) /\ ~Inside(u)
<1>1. /\ pc'[t] = to /\ w'[t] = r
      /\ \A u \in Threads \ {t} :
           /\ pc'[u] = pc[u] /\ w'[u] = w[u] /\ InHand(u)' = InHand(u)
           /\ Inside(u)' <=> Inside(u)
  BY OthersInHand, CallsTyped DEF IInv, Moves
<1>2. Inside(t)' <=> Inside(t)
  BY <1>1 DEF Inside
<1>3. OneInside'
  BY <1>1, <1>2, SameInside DEF IInv
<1>4. \A u \in Threads \ {t} : ~Inside(u)
  BY DEF IInv, OneInside
<1> QED BY <1>1, <1>3, <1>4

(* A walk's next node is again in the list.                                *)
LEMMA WalksOn ==
  ASSUME IInv, NEW t \in Threads, w[t].node \in Ring
  PROVE  LET x == list.next[w[t].node]
             r == [w[t] EXCEPT !.node = x]
         IN  /\ x \in Ring /\ list.prev[x] = w[t].node
             /\ r \in CallTypes /\ r.node = x
             /\ r.op = w[t].op /\ r.n = w[t].n /\ r.need = w[t].need /\ r.blk = w[t].blk
<1> DEFINE x == list.next[w[t].node]
           r == [w[t] EXCEPT !.node = x]
<1>1. x \in Ring /\ list.prev[x] = w[t].node
  BY DEF IInv, LinkedOver, Ring
<1>2. x \in Node /\ w[t] \in CallTypes
  BY <1>1, Nodes, CallsTyped DEF IInv, TypeOK, Ring
<1> QED BY <1>1, <1>2 DEF CallTypes

LEMMA ScanNextKeeps ==
  ASSUME IInv, NEW t \in Threads, ScanNext(t)
  PROVE  IInv'
<1> DEFINE r == [w[t] EXCEPT !.node = list.next[w[t].node]]
<1>1. /\ Moves(t, "scan", r) /\ pc[t] = "scan" /\ Inside(t)
      /\ UNCHANGED <<list, size, off, lock, lent, free>>
  BY DEF ScanNext, Goto, Set, Moves, Inside
<1>2. CallIsSound(t) /\ w[t].node \in Ring
  BY <1>1 DEF IInv, CallIsSound
<1>3. /\ r \in CallTypes /\ r.node \in Ring
      /\ r.op = w[t].op /\ r.n = w[t].n /\ r.need = w[t].need /\ r.blk = w[t].blk
  BY <1>2, WalksOn
<1> HIDE DEF r
<1>4. OneInside' /\ pc'[t] = "scan" /\ w'[t] = r
  BY <1>1, StaysInside
<1>5. InHand(t)' = InHand(t)
  BY <1>1, <1>3, <1>4 DEF InHand
<1>6. CallIsSound(t)'
  BY <1>1, <1>2, <1>3, <1>4 DEF CallIsSound, Ring
<1> QED BY <1>1, <1>3, <1>4, <1>5, <1>6, QuietStep DEF IInv, TypeOK

LEMMA PlaceNextKeeps ==
  ASSUME IInv, NEW t \in Threads, PlaceNext(t)
  PROVE  IInv'
<1> DEFINE r == [w[t] EXCEPT !.node = list.next[w[t].node]]
<1>1. /\ Moves(t, "place", r) /\ pc[t] = "place" /\ Inside(t) /\ Behind(t)
      /\ UNCHANGED <<list, size, off, lock, lent, free>>
  BY DEF PlaceNext, Goto, Set, Moves, Inside
<1>2. CallIsSound(t) /\ w[t].node \in Ring
  BY <1>1 DEF IInv, CallIsSound
<1>3. /\ r \in CallTypes /\ r.node \in Ring /\ list.prev[r.node] = w[t].node
      /\ r.op = w[t].op /\ r.n = w[t].n /\ r.need = w[t].need /\ r.blk = w[t].blk
  BY <1>2, WalksOn
<1> HIDE DEF r
<1>4. OneInside' /\ pc'[t] = "place" /\ w'[t] = r
  BY <1>1, StaysInside
<1>5. Placed(t)' = Placed(t) /\ InHand(t)' = InHand(t)
  BY <1>1, <1>3, <1>4 DEF InHand, Placed
<1>6. (list.prev[w[t].node])' < Placed(t)'
  <2>1. (list.prev[w[t].node])' = w[t].node
    BY <1>1, <1>3, <1>4
  <2> QED BY <1>1, <1>5, <2>1 DEF Behind
<1>7. CallIsSound(t)'
  BY <1>1, <1>2, <1>3, <1>4, <1>6 DEF CallIsSound, Ring
<1> QED BY <1>1, <1>3, <1>4, <1>5, <1>7, QuietStep DEF IInv, TypeOK

LEMMA ExhaustedKeeps ==
  ASSUME IInv, NEW t \in Threads, Exhausted(t)
  PROVE  IInv'
<1>1. w[t] \in CallTypes /\ w \in [Threads -> CallTypes] /\ pc[t] = "scan" /\ Inside(t)
      /\ UNCHANGED <<list, size, off, lock, w, lent, free>>
  BY CallsTyped DEF Exhausted, Goto, IInv, Inside
<1>2. Moves(t, "unlock", w[t])
  BY <1>1 DEF Exhausted, Goto, Moves
<1>3. CallIsSound(t) /\ w[t].op = "alloc" /\ w[t].blk = NoBlock
  BY <1>1 DEF IInv, CallIsSound
<1>4. OneInside' /\ pc'[t] = "unlock" /\ w'[t] = w[t]
  BY <1>1, <1>2, StaysInside
<1>5. InHand(t)' = InHand(t)
  BY <1>1, <1>3, <1>4 DEF InHand
<1>6. CallIsSound(t)'
  BY <1>1, <1>3, <1>4 DEF CallIsSound
<1> QED BY <1>1, <1>2, <1>4, <1>5, <1>6, QuietStep DEF IInv, TypeOK

(* A step that only moves blocks between the list, the users and one       *)
(* thread.                                                                 *)
LEMMA HandsChange ==
  ASSUME IInv, NEW t \in Threads, NEW r \in CallTypes,
         NEW to \in {"idle", "lock", "scan", "place", "unlock"}, Moves(t, to, r),
         size' = size, off' = off, lock' \in BOOLEAN,
         list' \in LinkTypes, free' \subseteq Addr, lent' \subseteq [at : Addr, n : Caps],
         LinkedOver(list, free)', (list' = list /\ free' = free) \/ Inside(t),
         free' \cup Lent' \cup InHand(t)' = free \cup Lent \cup InHand(t),
         free' \cap Lent' = {}, InHand(t)' \cap (free' \cup Lent') = {},
         \A b, c \in lent' : b # c => b.at # c.at,
         OneInside', CallIsSound(t)', GrantsFit'
  PROVE  IInv'
<1>1. TypeOK'
  <2>1. pc' \in PcTypes /\ w' \in [Threads -> CallTypes]
    BY CallsTyped DEF IInv, Moves, PcTypes
  <2>2. size' \in [Addr -> Int] /\ off' \in 0..Size
    BY DEF IInv, TypeOK
  <2> QED BY <2>1, <2>2 DEF TypeOK, PcTypes, CallTypes
<1>2. \A u \in Threads \ {t} : pc'[u] = pc[u] /\ w'[u] = w[u] /\ InHand(u)' = InHand(u)
  BY OthersInHand, CallsTyped DEF IInv, Moves
<1>3. Apart' /\ Others(t)' = Others(t)
  <2>1. {} \cap Blocks = {}
    OBVIOUS
  <2>2. free' \cup Lent' \cup InHand(t)' \subseteq free \cup Lent \cup InHand(t) \cup {}
    OBVIOUS
  <2> QED BY <1>2, <2>1, <2>2, StayApart DEF IInv
<1>4. Blocks' = Blocks
  <2>1. Blocks' = free' \cup Lent' \cup InHand(t)' \cup Others(t)'
    BY DEF Blocks, Others
  <2>2. Blocks = free \cup Lent \cup InHand(t) \cup Others(t)
    BY BlocksOf
  <2> QED BY <1>3, <2>1, <2>2
<1>5. Tiled'
  BY <1>4, SameTiles DEF IInv
<1>6. ASSUME NEW u \in Threads \ {t}
      PROVE  CallIsSound(u)'
  <2>1. CallIsSound(u)
    BY DEF IInv
  <2>2. pc[u] \in {"scan", "place"} => list' = list /\ free' = free
    BY DEF IInv, OneInside, Inside
  <2> QED BY <1>2, <2>1, <2>2, OtherCalls
<1> QED BY <1>1, <1>3, <1>5, <1>6 DEF IInv

LEMMA FreeCallKeeps ==
  ASSUME IInv, NEW t \in Threads, NEW b \in lent, FreeCall(t, b)
  PROVE  IInv'
<1> DEFINE r == [NoCall EXCEPT !.op = "free", !.blk = b.at]
<1>1. b.at \in Addr /\ b.at \in Lent
  BY DEF IInv, TypeOK, Lent
<1>2. r.op = "free" /\ r.blk = b.at
  BY DEF NoCall
<1>3. r \in CallTypes
  BY <1>1, Nodes DEF NoCall, CallTypes
<1>4. /\ Moves(t, "lock", r) /\ pc[t] = "idle"
      /\ UNCHANGED <<list, size, off, lock, free>> /\ lent' = lent \ {b}
  BY DEF FreeCall, Goto, Set, Moves
<1> HIDE DEF r
<1>5. /\ pc'[t] = "lock" /\ w'[t] = r
      /\ \A u \in Threads \ {t} : Inside(u)' <=> Inside(u)
  BY <1>4, OthersInHand, CallsTyped DEF IInv, Moves
<1>6. InHand(t) = {} /\ InHand(t)' = {b.at}
  <2>1. w[t].op = "none" /\ w[t].blk = NoBlock
    BY <1>4 DEF IInv, CallIsSound
  <2>2. InHand(t) = {}
    BY <2>1, <1>4 DEF InHand
  <2>3. r.blk # NoBlock
    BY <1>1, <1>2, Nodes
  <2>4. InHand(t)' = {r.blk}
    BY <1>2, <1>5, <2>3 DEF InHand
  <2> QED BY <1>2, <2>2, <2>4
<1>7. Lent' = Lent \ {b.at}
  <2>1. \A c \in lent : c # b => c.at # b.at
    BY DEF IInv, Apart
  <2> QED BY <1>4, <2>1 DEF Lent
<1>8. OneInside'
  <2>1. Inside(t)' <=> Inside(t)
    BY <1>4, <1>5 DEF Inside
  <2> QED BY <1>4, <1>5, <2>1, SameInside DEF IInv
<1>9. CallIsSound(t)'
  BY <1>1, <1>2, <1>5 DEF CallIsSound
<1>10. GrantsFit'
  BY <1>4 DEF IInv, GrantsFit
<1>11. free \cap Lent = {} /\ \A c, d \in lent : c # d => c.at # d.at
  BY DEF IInv, Apart
<1>12. LinkedOver(list, free)'
  BY <1>4 DEF IInv, LinkedOver
<1>13. /\ free' \cup Lent' \cup InHand(t)' = free \cup Lent \cup InHand(t)
       /\ free' \cap Lent' = {} /\ InHand(t)' \cap (free' \cup Lent') = {}
       /\ \A c, d \in lent' : c # d => c.at # d.at
  BY <1>1, <1>4, <1>6, <1>7, <1>11
<1>14. /\ size' = size /\ off' = off /\ lock' \in BOOLEAN /\ list' = list /\ free' = free
       /\ list' \in LinkTypes /\ free' \subseteq Addr /\ lent' \subseteq [at : Addr, n : Caps]
  BY <1>4 DEF IInv, TypeOK
<1> QED BY <1>3, <1>4, <1>8, <1>9, <1>10, <1>12, <1>13, <1>14, HandsChange

LEMMA TakeWholeKeeps ==
  ASSUME IInv, NEW t \in Threads, TakeWhole(t)
  PROVE  IInv'
<1> DEFINE x == w[t].node
           r == [w[t] EXCEPT !.blk = x, !.node = Root]
<1>1. /\ Moves(t, "unlock", r) /\ pc[t] = "scan" /\ Inside(t) /\ Fits(t) /\ ~Divisible(t)
      /\ UNCHANGED <<size, off, lock, lent>>
      /\ list' = L!list_del(list, x) /\ free' = free \ {x}
  BY DEF TakeWhole, Goto, Set, Moves, Inside
<1>2. /\ CallIsSound(t) /\ w[t].op = "alloc" /\ w[t].blk = NoBlock
      /\ w[t].need = BlockSize(w[t].n) /\ w[t].n \in Caps
      /\ x \in free
  BY <1>1 DEF IInv, CallIsSound, Ring, Fits
<1>3. x \in Addr /\ x # NoBlock /\ w[t] \in CallTypes
  BY <1>2, Nodes, CallsTyped DEF IInv, TypeOK
<1>4. /\ r \in CallTypes /\ r.blk = x /\ r.op = "alloc" /\ r.need = w[t].need /\ r.n = w[t].n
  BY <1>2, <1>3, Nodes DEF CallTypes
<1>5. size[x] >= w[t].need /\ size[x] < w[t].need + Header + Align
  <2>1. size[x] \in Int /\ w[t].need \in Nat
    BY <1>3 DEF IInv, TypeOK, CallTypes
  <2> QED BY <1>1, <2>1, Constants, BlockSizes DEF Fits, Divisible
<1>6. list' \in LinkTypes /\ LinkedOver(list, free)'
  <2>1. list \in LinkTypes /\ free \in SUBSET Addr /\ LinkedOver(list, free)
    BY DEF IInv, TypeOK
  <2>2. L!list_del(list, x) \in LinkTypes /\ LinkedOver(L!list_del(list, x), free \ {x})
    BY <1>2, <2>1, DeleteLinks
  <2> QED BY <1>1, <2>2 DEF LinkedOver
<1> HIDE DEF x, r
<1>7. OneInside' /\ pc'[t] = "unlock" /\ w'[t] = r
  BY <1>1, StaysInside
<1>8. InHand(t) = {} /\ InHand(t)' = {x}
  BY <1>1, <1>2, <1>3, <1>4, <1>7 DEF InHand
<1>9. CallIsSound(t)'
  BY <1>1, <1>2, <1>3, <1>4, <1>5, <1>7 DEF CallIsSound
<1>10. GrantsFit'
  BY <1>1 DEF IInv, GrantsFit
<1>11. free \cap Lent = {} /\ \A c, d \in lent : c # d => c.at # d.at
  BY DEF IInv, Apart
<1>12. Lent' = Lent
  BY <1>1 DEF Lent
<1>13. /\ free' \cup Lent' \cup InHand(t)' = free \cup Lent \cup InHand(t)
       /\ free' \cap Lent' = {} /\ InHand(t)' \cap (free' \cup Lent') = {}
       /\ \A c, d \in lent' : c # d => c.at # d.at
  BY <1>1, <1>2, <1>8, <1>11, <1>12
<1>14. /\ size' = size /\ off' = off /\ lock' \in BOOLEAN
       /\ free' \subseteq Addr /\ lent' \subseteq [at : Addr, n : Caps]
  BY <1>1 DEF IInv, TypeOK
<1> QED BY <1>1, <1>4, <1>6, <1>7, <1>9, <1>10, <1>13, <1>14, HandsChange

LEMMA PlaceKeeps ==
  ASSUME IInv, NEW t \in Threads, Place(t)
  PROVE  IInv'
<1> DEFINE e == Placed(t)
           x == w[t].node
           r == [w[t] EXCEPT !.node = Root]
<1>1. /\ Moves(t, "unlock", r) /\ pc[t] = "place" /\ Inside(t) /\ ~Behind(t)
      /\ UNCHANGED <<size, off, lock, lent>>
      /\ list' = L!ListAdd(list, e, list.prev[x], x) /\ free' = free \cup {e}
  BY DEF Place, Goto, Set, Moves, Inside
<1>2. /\ CallIsSound(t) /\ w[t].op \in {"alloc", "free"} /\ w[t].blk \in Addr
      /\ x \in Ring /\ list.prev[x] < e
  BY <1>1 DEF IInv, CallIsSound
<1>3. w[t] \in CallTypes /\ w[t].blk # NoBlock
  BY <1>2, Nodes, CallsTyped DEF IInv
<1>4. /\ r \in CallTypes /\ r.blk = w[t].blk /\ r.op = w[t].op /\ r.need = w[t].need
      /\ r.n = w[t].n
  BY <1>3, Nodes DEF CallTypes
<1>5. /\ InHand(t) = {w[t].blk, e}
      /\ w[t].op = "free" => e = w[t].blk
      /\ w[t].op = "alloc" => e # w[t].blk
  <2>1. CASE w[t].op = "free"
    BY <1>1, <1>3, <2>1 DEF InHand, Placed
  <2>2. CASE w[t].op = "alloc"
    <3>1. InHand(t) = {w[t].blk, e}
      BY <1>1, <1>3, <2>2 DEF InHand
    <3>2. w[t].need \in Nat /\ w[t].need > 0
      BY <1>2, <2>2, Constants, BlockSizes DEF CallIsSound
    <3>3. w[t].blk \in Int /\ e = w[t].blk + w[t].need
      BY <1>2, <2>2, Nodes DEF Placed
    <3>4. e # w[t].blk
      BY <3>2, <3>3
    <3> QED BY <2>2, <3>1, <3>4
  <2> QED BY <1>2, <2>1, <2>2
<1>6. /\ free \cap Lent = {} /\ \A c, d \in lent : c # d => c.at # d.at
      /\ InHand(t) \cap (free \cup Lent) = {}
      /\ e \in Addr
  <2>1. InHand(t) \subseteq Blocks
    BY DEF Blocks
  <2> QED BY <1>5, <2>1 DEF IInv, Apart, Tiled
<1>7. list' \in LinkTypes /\ LinkedOver(list, free)'
  <2>1. list \in LinkTypes /\ free \in SUBSET Addr /\ LinkedOver(list, free)
    BY DEF IInv, TypeOK
  <2>2. e \in Addr \ free /\ x \in free \cup {Root}
    BY <1>2, <1>5, <1>6 DEF Ring
  <2>3. x # Root => e < x
    <3>1. x \in Int /\ e \in Int
      BY <2>1, <2>2, Nodes
    <3>2. x # Root => x # e
      BY <2>2
    <3> QED BY <1>1, <3>1, <3>2 DEF Behind
  <2> HIDE DEF e, x
  <2>4. /\ L!ListAdd(list, e, list.prev[x], x) \in LinkTypes
        /\ LinkedOver(L!ListAdd(list, e, list.prev[x], x), free \cup {e})
    BY <1>2, <2>1, <2>2, <2>3, AddLinks
  <2> QED BY <1>1, <2>4 DEF LinkedOver
<1> HIDE DEF x, r, e
<1>8. OneInside' /\ pc'[t] = "unlock" /\ w'[t] = r
  BY <1>1, StaysInside
<1>9. InHand(t)' = IF w[t].op = "free" THEN {} ELSE {w[t].blk}
  BY <1>3, <1>4, <1>8 DEF InHand
<1>10. CallIsSound(t)'
  BY <1>1, <1>2, <1>4, <1>8 DEF CallIsSound
<1>11. GrantsFit'
  BY <1>1 DEF IInv, GrantsFit
<1>12. Lent' = Lent
  BY <1>1 DEF Lent
<1>13. /\ free' \cup Lent' \cup InHand(t)' = free \cup Lent \cup InHand(t)
       /\ free' \cap Lent' = {} /\ InHand(t)' \cap (free' \cup Lent') = {}
       /\ \A c, d \in lent' : c # d => c.at # d.at
  <2>1. CASE w[t].op = "free"
    BY <1>1, <1>5, <1>6, <1>9, <1>12, <2>1
  <2>2. CASE w[t].op = "alloc"
    BY <1>1, <1>5, <1>6, <1>9, <1>12, <2>2
  <2> QED BY <1>2, <2>1, <2>2
<1>14. /\ size' = size /\ off' = off /\ lock' \in BOOLEAN
       /\ free' \subseteq Addr /\ lent' \subseteq [at : Addr, n : Caps]
  BY <1>1, <1>6 DEF IInv, TypeOK
<1> QED BY <1>1, <1>4, <1>7, <1>8, <1>10, <1>11, <1>13, <1>14, HandsChange

LEMMA UnlockKeeps ==
  ASSUME IInv, NEW t \in Threads, Unlock(t)
  PROVE  IInv'
<1> DEFINE g == [at |-> w[t].blk, n |-> w[t].n]
<1>1. /\ Moves(t, "idle", NoCall) /\ pc[t] = "unlock" /\ Inside(t) /\ lock' = FALSE
      /\ UNCHANGED <<size, off, list, free>>
      /\ lent' = IF Granted(t) THEN lent \cup {g} ELSE lent
  BY DEF Unlock, Goto, Set, Moves, Inside
<1>2. /\ CallIsSound(t) /\ w[t].op \in {"alloc", "free"}
      /\ w[t] \in CallTypes /\ NoCall \in CallTypes
  BY <1>1, Nodes, CallsTyped DEF IInv, CallIsSound, NoCall, CallTypes
<1>3. /\ pc'[t] = "idle" /\ w'[t] = NoCall
      /\ \A u \in Threads \ {t} : Inside(u)' <=> Inside(u)
  BY <1>1, <1>2, OthersInHand, CallsTyped DEF IInv, Moves
<1>4. OneInside'
  <2>1. \A u \in Threads \ {t} : ~Inside(u)
    BY <1>1 DEF IInv, OneInside
  <2>2. \A u \in Threads : ~Inside(u)'
    BY <1>3, <2>1 DEF Inside
  <2>3. ~(\E u \in Threads : Inside(u))' /\ \A u, v \in Threads : Inside(u)' /\ Inside(v)' => u = v
    BY <2>2
  <2> QED BY <1>1, <2>3 DEF OneInside
<1>5. InHand(t)' = {} /\ CallIsSound(t)'
  <2>1. w'[t].op = "none" /\ w'[t].blk = NoBlock
    BY <1>3 DEF NoCall
  <2>2. InHand(t)' = {}
    BY <2>1 DEF InHand
  <2>3. CallIsSound(t)'
    BY <1>3, <2>1 DEF CallIsSound
  <2> QED BY <2>2, <2>3
<1>6. InHand(t) = IF Granted(t) THEN {w[t].blk} ELSE {}
  BY <1>1, <1>2 DEF InHand, Granted
<1>7. /\ free \cap Lent = {} /\ \A c, d \in lent : c # d => c.at # d.at
      /\ InHand(t) \cap (free \cup Lent) = {}
  BY DEF IInv, Apart
<1>8. Lent' = Lent \cup InHand(t)
  <2>1. CASE Granted(t)
    <3>1. Lent' = {b.at : b \in lent \cup {g}}
      BY <1>1, <2>1 DEF Lent
    <3>2. g.at = w[t].blk
      OBVIOUS
    <3> HIDE DEF g
    <3>3. Lent' = Lent \cup {g.at}
      BY <3>1 DEF Lent
    <3> QED BY <1>6, <2>1, <3>2, <3>3
  <2>2. CASE ~Granted(t)
    BY <1>1, <1>6, <2>2 DEF Lent
  <2> QED BY <2>1, <2>2
<1>9. ASSUME Granted(t)
      PROVE  /\ g \in [at : Addr, n : Caps] /\ g.at % Align = 0
             /\ size[g.at] >= BlockSize(g.n) /\ size[g.at] < BlockSize(g.n) + Header + Align
  <2>1. w[t].op = "alloc" /\ w[t].blk \in Addr /\ w[t].n \in Caps
    BY <1>2, <1>9 DEF Granted, CallTypes, CallIsSound
  <2>2. w[t].blk \in Blocks
    BY <1>6, <1>9 DEF Blocks
  <2>3. w[t].blk % Align = 0
    BY <2>2 DEF IInv, Tiled
  <2>4. /\ size[w[t].blk] >= BlockSize(w[t].n)
        /\ size[w[t].blk] < BlockSize(w[t].n) + Header + Align
    BY <1>2, <1>9, <2>1 DEF CallIsSound, Granted
  <2> QED BY <2>1, <2>3, <2>4
<1>10. \A c \in lent' : c \in lent \/ (Granted(t) /\ c = g)
  BY <1>1
<1>11. GrantsFit'
  BY <1>1, <1>9, <1>10 DEF IInv, GrantsFit
<1>12. \A c, d \in lent' : c # d => c.at # d.at
  <2>1. Granted(t) => g.at \notin Lent
    BY <1>6, <1>7
  <2>2. \A c \in lent : c.at \in Lent
    BY DEF Lent
  <2> QED BY <1>7, <1>10, <2>1, <2>2
<1>13. /\ free' \cup Lent' \cup InHand(t)' = free \cup Lent \cup InHand(t)
       /\ free' \cap Lent' = {} /\ InHand(t)' \cap (free' \cup Lent') = {}
  BY <1>1, <1>5, <1>7, <1>8
<1>14. /\ size' = size /\ off' = off /\ lock' \in BOOLEAN /\ list' \in LinkTypes
       /\ free' \subseteq Addr /\ lent' \subseteq [at : Addr, n : Caps]
  BY <1>1, <1>9, <1>10 DEF IInv, TypeOK
<1>15. LinkedOver(list, free)'
  BY <1>1 DEF IInv, LinkedOver
<1> QED BY <1>1, <1>2, <1>4, <1>5, <1>11, <1>12, <1>13, <1>14, <1>15, HandsChange

(* A step that makes a block: nobody has it, and no size of another        *)
(* thread's or user's block changes.                                       *)
LEMMA BlocksGrow ==
  ASSUME IInv, NEW t \in Threads, NEW x, x \notin Blocks,
         \A u \in Threads \ {t} : InHand(u)' = InHand(u), lent' = lent,
         free' \cup InHand(t)' = free \cup InHand(t) \cup {x},
         free' \cap InHand(t)' = {}
  PROVE  Apart' /\ Blocks' = Blocks \cup {x}
<1>1. {x} \cap Blocks = {} /\ Lent \subseteq Blocks
  BY DEF Blocks
<1>2. Lent' = Lent
  BY DEF Lent
<1>3. /\ free \cap Lent = {} /\ InHand(t) \cap Lent = {}
      /\ \A b, c \in lent : b # c => b.at # c.at
  BY DEF IInv, Apart
<1>4. free' \cap Lent' = {} /\ InHand(t)' \cap (free' \cup Lent') = {}
  BY <1>1, <1>2, <1>3
<1>5. free' \cup Lent' \cup InHand(t)' \subseteq free \cup Lent \cup InHand(t) \cup {x}
  BY <1>2
<1>6. Apart' /\ Others(t)' = Others(t)
  BY <1>1, <1>3, <1>4, <1>5, StayApart DEF IInv
<1>7. Blocks' = free' \cup Lent' \cup InHand(t)' \cup Others(t)'
  BY DEF Blocks, Others
<1>8. Blocks = free \cup Lent \cup InHand(t) \cup Others(t)
  BY BlocksOf
<1> QED BY <1>2, <1>6, <1>7, <1>8

LEMMA GrowKeeps ==
  ASSUME IInv, NEW t \in Threads, NEW r \in CallTypes, NEW to \in {"scan", "place", "unlock"},
         Inside(t), Moves(t, to, r), lock' = lock, lent' = lent,
         \A a \in Lent \cup Others(t) : size'[a] = size[a],
         list' \in LinkTypes, free' \subseteq Addr, size' \in [Addr -> Int], off' \in 0..Size,
         LinkedOver(list, free)', Tiled', Apart', CallIsSound(t)'
  PROVE  IInv'
<1>1. TypeOK'
  <2>1. pc' \in PcTypes /\ w' \in [Threads -> CallTypes]
    BY CallsTyped DEF IInv, Moves, PcTypes
  <2>2. lock' \in BOOLEAN /\ lent' \subseteq [at : Addr, n : Caps]
    BY DEF IInv, TypeOK
  <2> QED BY <2>1, <2>2 DEF TypeOK, PcTypes, CallTypes
<1>2. /\ OneInside'
      /\ \A u \in Threads \ {t} : pc'[u] = pc[u] /\ w'[u] = w[u] /\ ~Inside(u)
  BY StaysInside
<1>3. GrantsFit'
  <2>1. \A b \in lent : size'[b.at] = size[b.at]
    BY DEF Lent
  <2> QED BY <2>1 DEF IInv, GrantsFit
<1>4. ASSUME NEW u \in Threads \ {t}
      PROVE  CallIsSound(u)'
  <2>1. CallIsSound(u)
    BY DEF IInv
  <2>2. pc[u] \notin {"scan", "place", "unlock"}
    BY <1>2 DEF Inside
  <2>3. w[u].blk # NoBlock => w[u].blk \in Others(t)
    BY <2>2 DEF InHand, Others
  <2> QED BY <1>2, <2>1, <2>2, <2>3, OtherCalls
<1> QED BY <1>1, <1>2, <1>3, <1>4 DEF IInv

(* Blocks in Lent or in other hands are blocks, and not this thread's.     *)
LEMMA NotOurs ==
  ASSUME IInv, NEW t \in Threads, NEW a \in Lent \cup Others(t)
  PROVE  a \in Blocks /\ a \notin free /\ a \notin InHand(t)
<1>1. a \in Blocks
  BY BlocksOf
<1>2. CASE a \in Lent
  BY <1>1, <1>2 DEF IInv, Apart
<1>3. CASE a \in Others(t)
  <2>1. PICK u \in Threads \ {t} : a \in InHand(u)
    BY <1>3 DEF Others
  <2>2. InHand(u) \cap (free \cup Lent) = {} /\ InHand(u) \cap InHand(t) = {}
    BY DEF IInv, Apart
  <2> QED BY <1>1, <2>1, <2>2
<1> QED BY <1>2, <1>3

LEMMA FreshKeeps ==
  ASSUME IInv, NEW t \in Threads, Fresh(t)
  PROVE  IInv'
<1> DEFINE r == [w[t] EXCEPT !.blk = off]
           need == w[t].need
<1>1. /\ Moves(t, "unlock", r) /\ pc[t] = "scan" /\ Inside(t) /\ off + need <= Size
      /\ UNCHANGED <<list, lock, lent, free>>
      /\ size' = [size EXCEPT ![off] = need] /\ off' = off + need
  BY DEF Fresh, Goto, Set, Moves, Inside
<1>2. /\ CallIsSound(t) /\ w[t].op = "alloc" /\ w[t].blk = NoBlock
      /\ w[t].n \in Caps /\ need = BlockSize(w[t].n) /\ w[t] \in CallTypes
  BY <1>1, CallsTyped DEF IInv, CallIsSound
<1>3. need \in Nat /\ need > 0 /\ need % Align = 0
  BY <1>2, BlockSizes, Constants
<1>4. off \in Nat /\ off \in Addr /\ off # NoBlock /\ off' \in 0..Size /\ size \in [Addr -> Int]
  <2>1. off \in 0..Size /\ size \in [Addr -> Int]
    BY DEF IInv, TypeOK
  <2>2. off \in Nat /\ off \in 0..Size-1 /\ off + need \in 0..Size
    BY <1>1, <1>3, <2>1, Constants
  <2> QED BY <1>1, <2>1, <2>2, Nodes DEF Addr
<1>5. /\ r \in CallTypes /\ r.blk = off /\ r.op = "alloc" /\ r.need = need /\ r.n = w[t].n
  BY <1>2, <1>4 DEF CallTypes
<1> HIDE DEF r, need
<1>6. pc'[t] = "unlock" /\ w'[t] = r /\ \A u \in Threads \ {t} : InHand(u)' = InHand(u)
  BY <1>1, StaysInside
<1>7. InHand(t) = {} /\ InHand(t)' = {off}
  BY <1>1, <1>2, <1>4, <1>5, <1>6 DEF InHand
<1>8. /\ \A a \in Blocks : a \in Addr /\ a \in Int /\ size[a] \in Int
           /\ size[a] > 0 /\ a + size[a] <= off /\ a % Align = 0
      /\ \A a, b \in Blocks : a < b => a + size[a] <= b
      /\ \A c \in 0..off-1 : \E a \in Blocks : a <= c /\ c < a + size[a]
      /\ off % Align = 0
  BY <1>4, Nodes DEF IInv, Tiled
<1>9. off \notin Blocks
  BY <1>4, <1>8
<1>10. Apart' /\ Blocks' = Blocks \cup {off}
  <2>1. free \subseteq Blocks
    BY DEF Blocks
  <2> QED BY <1>1, <1>6, <1>7, <1>9, <2>1, BlocksGrow
<1>11. size'[off] = need /\ \A a \in Blocks : size'[a] = size[a]
  BY <1>1, <1>4, <1>8, <1>9
<1>12. Tiled'
  <2>1. ASSUME NEW a \in Blocks'
        PROVE  a \in Addr /\ size'[a] > 0 /\ a + size'[a] <= off' /\ a % Align = 0
    <3>1. CASE a = off
      BY <1>1, <1>3, <1>4, <1>8, <1>11, <3>1
    <3>2. CASE a \in Blocks
      <4>1. /\ a \in Addr /\ a \in Int /\ size'[a] \in Int /\ size'[a] > 0
            /\ a + size'[a] <= off /\ a % Align = 0
        BY <1>8, <1>11, <3>2
      <4>2. off' = off + need
        BY <1>1
      <4> QED BY <1>3, <1>4, <4>1, <4>2
    <3> QED BY <1>10, <3>1, <3>2
  <2>2. ASSUME NEW a \in Blocks', NEW b \in Blocks', a < b
        PROVE  a + size'[a] <= b
    <3>1. CASE a \in Blocks /\ b \in Blocks
      BY <1>8, <1>11, <2>2, <3>1
    <3>2. CASE a \in Blocks /\ b = off
      BY <1>8, <1>11, <3>2
    <3>3. CASE a = off /\ b \in Blocks
      <4>1. b \in Int /\ size[b] \in Int /\ size[b] > 0 /\ b + size[b] <= off
        BY <1>8, <3>3
      <4> QED BY <1>4, <2>2, <3>3, <4>1
    <3>4. CASE a = off /\ b = off
      BY <1>4, <2>2, <3>4
    <3> QED BY <1>10, <3>1, <3>2, <3>3, <3>4
  <2>3. ASSUME NEW c \in 0..off'-1
        PROVE  \E a \in Blocks' : a <= c /\ c < a + size'[a]
    <3>1. CASE c < off
      <4>1. c \in 0..off-1
        BY <1>1, <1>3, <1>4, <2>3, <3>1
      <4>2. PICK a \in Blocks : a <= c /\ c < a + size[a]
        BY <1>8, <4>1
      <4> QED BY <1>10, <1>11, <4>2
    <3>2. CASE ~(c < off)
      <4>1. off <= c /\ c < off + size'[off]
        BY <1>1, <1>3, <1>4, <1>11, <2>3, <3>2
      <4> QED BY <1>10, <4>1
    <3> QED BY <3>1, <3>2
  <2>4. off' % Align = 0
    BY <1>1, <1>3, <1>4, <1>8, AlignedSum
  <2> QED BY <2>1, <2>2, <2>3, <2>4 DEF Tiled
<1>13. CallIsSound(t)'
  <2>1. size'[off] >= need /\ size'[off] < need + Header + Align
    BY <1>3, <1>11, BlockSizes, Constants
  <2>2. need = BlockSize(w[t].n)
    BY <1>2
  <2> QED BY <1>2, <1>4, <1>5, <1>6, <2>1, <2>2 DEF CallIsSound
<1>14. \A a \in Lent \cup Others(t) : size'[a] = size[a]
  BY <1>11, NotOurs
<1>15. /\ list' \in LinkTypes /\ free' \subseteq Addr /\ LinkedOver(list, free)'
       /\ size' \in [Addr -> Int]
  <2>1. list' \in LinkTypes /\ free' \subseteq Addr
    BY <1>1 DEF IInv, TypeOK
  <2>2. LinkedOver(list, free)'
    BY <1>1 DEF IInv, LinkedOver
  <2>3. size' \in [Addr -> Int]
    BY <1>1, <1>3, <1>4
  <2> QED BY <2>1, <2>2, <2>3
<1> QED BY <1>1, <1>4, <1>5, <1>10, <1>12, <1>13, <1>14, <1>15, GrowKeeps

LEMMA SplitKeeps ==
  ASSUME IInv, NEW t \in Threads, Split(t)
  PROVE  IInv'
<1> DEFINE x == w[t].node
           need == w[t].need
           y == x + need
           s == size[x]
           r == [w[t] EXCEPT !.blk = x, !.node = list'.next[Root]]
<1>1. /\ Moves(t, "place", r) /\ pc[t] = "scan" /\ Inside(t)
      /\ Fits(t) /\ Divisible(t)
      /\ UNCHANGED <<off, lock, lent>>
      /\ list' = L!list_del(list, x) /\ free' = free \ {x}
      /\ size' = [size EXCEPT ![x] = need, ![y] = s - need]
  BY DEF Split, Goto, Set, Moves, Inside
<1>2. /\ CallIsSound(t) /\ w[t].op = "alloc" /\ w[t].blk = NoBlock
      /\ w[t].n \in Caps /\ need = BlockSize(w[t].n) /\ w[t] \in CallTypes
      /\ x \in free
  BY <1>1, CallsTyped DEF IInv, CallIsSound, Ring, Fits
<1>3. need \in Nat /\ need > 0 /\ need % Align = 0
  BY <1>2, BlockSizes, Constants
<1>4. x \in Addr /\ x \in Nat /\ x # NoBlock /\ size \in [Addr -> Int] /\ s \in Int
      /\ off \in 0..Size
  BY <1>2, Nodes DEF IInv, TypeOK
<1>5. s >= need + Header + Align /\ s > need
  BY <1>1, <1>3, <1>4, Constants, BlockSizes DEF Divisible
<1>6. list' \in LinkTypes /\ LinkedOver(list, free)'
  <2>1. list \in LinkTypes /\ free \in SUBSET Addr /\ LinkedOver(list, free)
    BY DEF IInv, TypeOK
  <2>2. L!list_del(list, x) \in LinkTypes /\ LinkedOver(L!list_del(list, x), free \ {x})
    BY <1>2, <2>1, DeleteLinks
  <2> QED BY <1>1, <2>2 DEF LinkedOver
<1>7. /\ list'.next[Root] \in Ring' /\ list'.next[Root] \in Node
      /\ list'.prev[list'.next[Root]] = Root
  <2>1. list'.next[Root] \in Ring' /\ list'.prev[list'.next[Root]] = Root
    BY <1>6 DEF LinkedOver, Ring
  <2>2. Ring' \subseteq Node
    BY <1>1, Nodes DEF Ring, IInv, TypeOK
  <2> QED BY <2>1, <2>2
<1>8. /\ r \in CallTypes /\ r.blk = x /\ r.op = "alloc" /\ r.need = need /\ r.n = w[t].n
      /\ r.node = list'.next[Root]
  BY <1>2, <1>4, <1>7 DEF CallTypes
<1>y. y = x + need
  OBVIOUS
<1>s. s = size[x]
  OBVIOUS
<1> HIDE DEF r, need, x, y, s
<1>9. pc'[t] = "place" /\ w'[t] = r /\ \A u \in Threads \ {t} : InHand(u)' = InHand(u)
  BY <1>1, StaysInside
<1>10. Placed(t)' = y /\ InHand(t) = {} /\ InHand(t)' = {x, y}
  BY <1>1, <1>2, <1>4, <1>8, <1>9, <1>y DEF InHand, Placed
<1>11. /\ \A a \in Blocks : a \in Addr /\ a \in Int /\ size[a] \in Int
            /\ size[a] > 0 /\ a + size[a] <= off /\ a % Align = 0
       /\ \A a, b \in Blocks : a < b => a + size[a] <= b
       /\ \A c \in 0..off-1 : \E a \in Blocks : a <= c /\ c < a + size[a]
       /\ off % Align = 0
  BY <1>4, Nodes DEF IInv, Tiled
<1>12. x \in Blocks /\ x + s <= off /\ x % Align = 0
  <2>1. x \in Blocks
    BY <1>2 DEF Blocks
  <2> QED BY <2>1, <1>11, <1>s
<1>13. y \in Nat /\ x < y /\ y < x + s /\ y % Align = 0
  <2>1. (x + need) % Align = 0
    BY <1>3, <1>4, <1>12, AlignedSum
  <2> QED BY <1>3, <1>4, <1>5, <1>y, <2>1
<1>14. y \in Addr
  BY <1>4, <1>12, <1>13, Constants DEF Addr
<1>15. y \notin Blocks
  <2>1. SUFFICES ASSUME y \in Blocks PROVE FALSE
    OBVIOUS
  <2>2. x + s <= y
    BY <1>11, <1>12, <1>13, <1>s, <2>1
  <2> QED BY <1>4, <1>13, <2>2
<1>16. Apart' /\ Blocks' = Blocks \cup {y}
  <2>1. free \subseteq Blocks
    BY DEF Blocks
  <2>2. free' \cup InHand(t)' = free \cup InHand(t) \cup {y} /\ free' \cap InHand(t)' = {}
    BY <1>1, <1>2, <1>10, <1>15, <2>1
  <2> QED BY <1>1, <1>9, <1>15, <2>2, BlocksGrow
<1>17. size'[x] = need /\ size'[y] = s - need /\ \A a \in Blocks \ {x} : size'[a] = size[a]
  <2>1. x # y
    BY <1>4, <1>13
  <2>2. \A a \in Blocks \ {x} : a \in Addr /\ a # y
    BY <1>11, <1>15
  <2> QED BY <1>1, <1>4, <1>14, <2>1, <2>2
<1>18. /\ size'[x] \in Int /\ size'[x] > 0 /\ x + size'[x] = y
       /\ size'[y] \in Int /\ size'[y] > 0 /\ y + size'[y] = x + s
  BY <1>3, <1>4, <1>5, <1>y, <1>17
<1>19. Tiled'
  <2>1. ASSUME NEW a \in Blocks'
        PROVE  a \in Addr /\ size'[a] > 0 /\ a + size'[a] <= off' /\ a % Align = 0
    <3>1. CASE a = y
      BY <1>1, <1>12, <1>13, <1>14, <1>18, <3>1
    <3>2. CASE a = x
      <4>1. y <= off
        BY <1>4, <1>12, <1>13
      <4> QED BY <1>1, <1>4, <1>12, <1>18, <3>2, <4>1
    <3>3. CASE a \in Blocks \ {x}
      BY <1>1, <1>11, <1>17, <3>3
    <3> QED BY <1>16, <3>1, <3>2, <3>3
  <2>2. ASSUME NEW a \in Blocks', NEW b \in Blocks', a < b
        PROVE  a + size'[a] <= b
    <3>a. a \in Int /\ b \in Int
      BY <1>11, <1>13, <1>16
    <3>1. CASE a = x
      <4>1. CASE b = y
        BY <1>13, <1>18, <3>1, <4>1
      <4>2. CASE b \in Blocks
        <5>1. x + s <= b
          BY <1>11, <1>12, <1>s, <2>2, <3>1, <4>2
        <5> QED BY <1>4, <1>13, <1>18, <3>1, <3>a, <5>1
      <4> QED BY <1>16, <4>1, <4>2
    <3>2. CASE a = y
      <4>1. b \in Blocks /\ x < b
        BY <1>4, <1>13, <1>16, <2>2, <3>2, <3>a
      <4>2. x + s <= b
        BY <1>11, <1>12, <1>s, <4>1
      <4> QED BY <1>18, <3>2, <4>2
    <3>3. CASE a \in Blocks \ {x}
      <4>1. size'[a] = size[a] /\ size[a] \in Int
        BY <1>11, <1>17, <3>3
      <4>2. CASE b \in Blocks
        BY <1>11, <2>2, <3>3, <4>1, <4>2
      <4>3. CASE b = y
        <5>1. CASE a < x
          <6>1. a + size[a] <= x
            BY <1>11, <1>12, <3>3, <5>1
          <6> QED BY <1>4, <1>13, <3>a, <4>1, <4>3, <6>1
        <5>2. CASE ~(a < x)
          <6>1. x < a
            BY <1>4, <3>3, <3>a, <5>2
          <6>2. x + s <= a
            BY <1>11, <1>12, <1>s, <3>3, <6>1
          <6> QED BY <1>4, <1>13, <2>2, <3>a, <4>3, <6>2
        <5> QED BY <5>1, <5>2
      <4> QED BY <1>16, <4>2, <4>3
    <3> QED BY <1>16, <3>1, <3>2, <3>3
  <2>3. ASSUME NEW c \in 0..off'-1
        PROVE  \E a \in Blocks' : a <= c /\ c < a + size'[a]
    <3>1. c \in Int /\ c \in 0..off-1
      BY <1>1
    <3>2. PICK a \in Blocks : a <= c /\ c < a + size[a]
      BY <1>11, <3>1
    <3>3. CASE a = x
      <4>1. CASE c < y
        BY <1>16, <1>18, <3>2, <3>3, <4>1
      <4>2. CASE ~(c < y)
        <5>1. y <= c /\ c < y + size'[y]
          BY <1>13, <1>18, <1>s, <3>1, <3>2, <3>3, <4>2
        <5> QED BY <1>16, <5>1
      <4> QED BY <4>1, <4>2
    <3>4. CASE a # x
      BY <1>16, <1>17, <3>2, <3>4
    <3> QED BY <3>3, <3>4
  <2>4. off' % Align = 0
    BY <1>1, <1>11
  <2> QED BY <2>1, <2>2, <2>3, <2>4 DEF Tiled
<1>20. CallIsSound(t)'
  <2>1. size'[x] >= need /\ size'[x] < need + Header + Align
    BY <1>3, <1>17, BlockSizes, Constants
  <2>2. (list.prev[w[t].node])' = Root /\ Root < Placed(t)'
    <3>1. Root < y
      BY <1>14, Nodes
    <3>2. w'[t].node = list'.next[Root]
      BY <1>8, <1>9
    <3>3. list'.prev[w'[t].node] = Root
      BY <1>7, <3>2
    <3> QED BY <1>10, <3>1, <3>3
  <2>3. need = BlockSize(w[t].n)
    BY <1>2
  <2>4. (list.prev[w[t].node])' < Placed(t)'
    BY <2>2
  <2> QED BY <1>2, <1>4, <1>7, <1>8, <1>9, <2>1, <2>3, <2>4 DEF CallIsSound
<1>21. \A a \in Lent \cup Others(t) : size'[a] = size[a]
  BY <1>2, <1>17, NotOurs
<1>22. /\ free' \subseteq Addr /\ size' \in [Addr -> Int] /\ off' \in 0..Size
  <2>1. free' \subseteq Addr
    BY <1>1 DEF IInv, TypeOK
  <2>2. size' \in [Addr -> Int]
    <3>1. need \in Int /\ s - need \in Int
      BY <1>3, <1>4
    <3>2. [size EXCEPT ![x] = need] \in [Addr -> Int]
      BY <1>4, <3>1
    <3> QED BY <1>1, <3>1, <3>2
  <2> QED BY <1>1, <1>4, <2>1, <2>2
<1> QED BY <1>1, <1>6, <1>8, <1>16, <1>19, <1>20, <1>21, <1>22, GrowKeeps

(* A list that list_init has just made is empty.                           *)
LEMMA EmptyList ==
  ASSUME NEW l, l = L!list_init(NoLinks, Root)
  PROVE  l \in LinkTypes /\ LinkedOver(l, {})
<1>1. /\ NoLinks.next \in [Node -> Node \cup {NoBlock}]
      /\ NoLinks.prev \in [Node -> Node \cup {NoBlock}]
  BY DEF NoLinks
<1>2. l = [next |-> [NoLinks.next EXCEPT ![Root] = Root],
           prev |-> [NoLinks.prev EXCEPT ![Root] = Root]]
  BY DEF L!list_init
<1>3. l.next[Root] = Root /\ l.prev[Root] = Root
  BY <1>1, <1>2, Nodes
<1>4. l \in LinkTypes
  BY <1>1, <1>2, Nodes DEF LinkTypes
<1> QED BY <1>3, <1>4 DEF LinkedOver

LEMMA ResetKeeps ==
  ASSUME IInv, NEW t \in Threads, Reset(t)
  PROVE  IInv'
<1>1. /\ ~lock /\ \A u \in Threads : w[u].op # "free"
      /\ off' = 0 /\ list' = L!list_init(NoLinks, Root) /\ size' = [a \in Addr |-> 0]
      /\ lent' = {} /\ free' = {} /\ UNCHANGED <<lock, pc, w>>
  BY DEF Reset
<1>2. ASSUME NEW u \in Threads
      PROVE  /\ ~Inside(u) /\ pc[u] \in {"idle", "lock"}
             /\ w[u].blk = NoBlock /\ w[u].op # "free"
  <2>1. ~Inside(u) /\ pc[u] \in {"idle", "lock", "scan", "place", "unlock"}
    BY <1>1 DEF IInv, OneInside, TypeOK
  <2>2. pc[u] \in {"idle", "lock"}
    BY <2>1 DEF Inside
  <2>3. CallIsSound(u) /\ w[u].op # "free"
    BY <1>1 DEF IInv
  <2> QED BY <2>1, <2>2, <2>3 DEF CallIsSound
<1>3. \A u \in Threads : InHand(u)' = {}
  BY <1>1, <1>2 DEF InHand
<1>4. Lent' = {}
  BY <1>1 DEF Lent
<1>5. Blocks' = {}
  BY <1>1, <1>3, <1>4 DEF Blocks
<1>6. TypeOK'
  <2>1. list' \in LinkTypes
    BY <1>1, EmptyList
  <2>2. size' \in [Addr -> Int] /\ off' \in 0..Size
    BY <1>1, Constants
  <2>3. lock' \in BOOLEAN /\ pc' \in PcTypes /\ w' \in [Threads -> CallTypes]
    BY <1>1, CallsTyped DEF IInv
  <2>4. lent' \subseteq [at : Addr, n : Caps] /\ free' \subseteq Addr
    BY <1>1
  <2> QED BY <2>1, <2>2, <2>3, <2>4 DEF TypeOK, PcTypes, CallTypes
<1>7. OneInside'
  <2>1. \A u \in Threads : Inside(u)' <=> Inside(u)
    BY <1>1 DEF Inside
  <2>2. (\E u \in Threads : Inside(u))' <=> \E u \in Threads : Inside(u)
    BY <2>1
  <2>3. \A u, v \in Threads : Inside(u)' /\ Inside(v)' => u = v
    BY <2>1 DEF IInv, OneInside
  <2> QED BY <1>1, <2>2, <2>3 DEF IInv, OneInside
<1>8. LinkedOver(list, free)'
  <2>1. LinkedOver(list', {})
    BY <1>1, EmptyList
  <2> QED BY <1>1, <2>1 DEF LinkedOver
<1>9. Tiled'
  <2>1. 0 % Align = 0 /\ 0..off'-1 = {}
    BY <1>1, Constants
  <2> QED BY <1>1, <1>5, <2>1 DEF Tiled
<1>10. Apart'
  BY <1>1, <1>3, <1>4 DEF Apart
<1>11. GrantsFit'
  BY <1>1 DEF GrantsFit
<1>12. ASSUME NEW u \in Threads
       PROVE  CallIsSound(u)'
  <2>1. CallIsSound(u)
    BY DEF IInv
  <2> QED BY <1>1, <1>2, <2>1, OtherCalls
<1> QED BY <1>6, <1>7, <1>8, <1>9, <1>10, <1>11, <1>12 DEF IInv

LEMMA InitIInv == Init => IInv
<1> SUFFICES ASSUME Init PROVE IInv
  OBVIOUS
<1>1. /\ list = L!list_init(NoLinks, Root) /\ size = [a \in Addr |-> 0] /\ off = 0
      /\ lock = FALSE /\ lent = {} /\ free = {}
      /\ pc = [t \in Threads |-> "idle"] /\ w = [t \in Threads |-> NoCall]
  BY DEF Init
<1>2. \A t \in Threads : pc[t] = "idle" /\ w[t].op = "none" /\ w[t].blk = NoBlock
  BY <1>1 DEF NoCall
<1>3. Lent = {} /\ Blocks = {} /\ \A t \in Threads : InHand(t) = {} /\ ~Inside(t)
  <2>1. \A t \in Threads : InHand(t) = {} /\ ~Inside(t)
    BY <1>2 DEF InHand, Inside
  <2>2. Lent = {}
    BY <1>1 DEF Lent
  <2> QED BY <1>1, <2>1, <2>2 DEF Blocks
<1>4. TypeOK
  <2>1. list \in LinkTypes
    BY <1>1, EmptyList
  <2>2. size \in [Addr -> Int] /\ off \in 0..Size
    BY <1>1, Constants
  <2>3. NoCall \in CallTypes
    BY Nodes DEF NoCall, CallTypes
  <2>4. pc \in PcTypes /\ w \in [Threads -> CallTypes]
    BY <1>1, <2>3 DEF PcTypes
  <2> QED BY <1>1, <2>1, <2>2, <2>4 DEF TypeOK, PcTypes, CallTypes
<1>5. OneInside
  BY <1>1, <1>3 DEF OneInside
<1>6. LinkedOver(list, free)
  <2>1. LinkedOver(list, {})
    BY <1>1, EmptyList
  <2> QED BY <1>1, <2>1
<1>7. Tiled
  <2>1. 0 % Align = 0 /\ 0..off-1 = {}
    BY <1>1, Constants
  <2> QED BY <1>1, <1>3, <2>1 DEF Tiled
<1>8. Apart /\ GrantsFit
  BY <1>1, <1>3 DEF Apart, GrantsFit
<1>9. \A t \in Threads : CallIsSound(t)
  BY <1>2 DEF CallIsSound
<1> QED BY <1>4, <1>5, <1>6, <1>7, <1>8, <1>9 DEF IInv

LEMMA NextIInv == IInv /\ [Next]_vars => IInv'
<1> SUFFICES ASSUME IInv, [Next]_vars PROVE IInv'
  OBVIOUS
<1>1. CASE UNCHANGED vars
  <2>1. Lent' = Lent /\ \A t \in Threads : InHand(t)' = InHand(t)
    BY <1>1 DEF vars, Lent, InHand, Placed
  <2>2. Blocks' = Blocks
    BY <1>1, <2>1 DEF Blocks, vars
  <2>3. TypeOK' /\ OneInside' /\ LinkedOver(list, free)' /\ GrantsFit'
    BY <1>1 DEF IInv, vars, TypeOK, OneInside, Inside, LinkedOver, GrantsFit
  <2>4. Tiled' /\ Apart'
    BY <1>1, <2>1, <2>2, SameTiles DEF IInv, vars, Apart
  <2>5. \A t \in Threads : CallIsSound(t)'
    BY <1>1, OtherCalls DEF IInv, vars
  <2> QED BY <2>3, <2>4, <2>5 DEF IInv
<1>2. CASE Next
  BY <1>2, AllocCallKeeps, FreeCallKeeps, ResetKeeps, LockKeeps, ScanNextKeeps,
     TakeWholeKeeps, SplitKeeps, FreshKeeps, ExhaustedKeeps, PlaceNextKeeps, PlaceKeeps,
     UnlockKeeps DEF Next, Step
<1> QED BY <1>1, <1>2

(* The pool is sound whatever the calls and their order (mp_alloc,         *)
(* mp_free, mp_reset of ds/mp.h): the invariant that the theorems below    *)
(* rest on.                                                                *)
THEOREM MpInvariance == Spec => []IInv
<1>1. Init => IInv
  BY InitIInv
<1>2. IInv /\ [Next]_vars => IInv'
  BY NextIInv
<1> QED BY <1>1, <1>2, PTL DEF Spec

(* The blocks cover the used part of buf without a gap and without sharing *)
(* a byte, and each is free, lent or in the hands of one thread: the       *)
(* bookkeeping of mp_alloc's splits and mp_free's returns.                 *)
THEOREM PoolIsTiled == Spec => []BlocksTileThePool
<1>1. IInv => BlocksTileThePool
  <2> SUFFICES ASSUME IInv PROVE BlocksTileThePool
    OBVIOUS
  <2>1. /\ \A a \in Blocks : a \in Int /\ a >= 0 /\ size[a] \in Int /\ size[a] > 0 /\ a + size[a] <= off
        /\ \A a, b \in Blocks : a < b => a + size[a] <= b
        /\ \A c \in 0..off-1 : \E a \in Blocks : a <= c /\ c < a + size[a]
        /\ off \in Int
    BY Nodes DEF IInv, Tiled, TypeOK
  <2>2. ASSUME NEW a \in Blocks, NEW c
        PROVE  c \in Cells(a) <=> c \in Int /\ a <= c /\ c < a + size[a]
    BY <2>1 DEF Cells
  <2>3. UNION {Cells(a) : a \in Blocks} = 0..off-1
    <3>1. ASSUME NEW a \in Blocks, NEW c \in Cells(a)
          PROVE  c \in 0..off-1
      BY <2>1, <2>2
    <3>2. ASSUME NEW c \in 0..off-1
          PROVE  \E a \in Blocks : c \in Cells(a)
      BY <2>1, <2>2
    <3> QED BY <3>1, <3>2
  <2>4. ASSUME NEW a \in Blocks, NEW b \in Blocks, a # b
        PROVE  Cells(a) \cap Cells(b) = {}
    <3>1. SUFFICES ASSUME NEW c \in Cells(a), c \in Cells(b) PROVE FALSE
      OBVIOUS
    <3>2. /\ c \in Int /\ a <= c /\ c < a + size[a] /\ b <= c /\ c < b + size[b]
      BY <2>2, <3>1
    <3>3. a + size[a] <= b \/ b + size[b] <= a
      BY <2>1, <2>4
    <3>4. a \in Int /\ b \in Int /\ size[a] \in Int /\ size[b] \in Int
      BY <2>1
    <3> QED BY <3>2, <3>3, <3>4
  <2> QED BY <2>3, <2>4 DEF BlocksTileThePool, IInv, Apart
<1> QED BY <1>1, MpInvariance, PTL

(* The list is exactly the free blocks in the order of their addresses,    *)
(* linked both ways: what list_del and list_add_tail do to it inside       *)
(* mp_alloc and mp_free.                                                   *)
THEOREM FreeListIsSorted == Spec => []ListIsSorted
<1>1. IInv => ListIsSorted
  BY DEF IInv, LinkedOver, ListIsSorted
<1> QED BY <1>1, MpInvariance, PTL

(* What mp_alloc returns is aligned and large enough, and never so large   *)
(* that the rest could have been kept.                                     *)
THEOREM EveryGrantFits == Spec => []GrantsFit
<1>1. IInv => GrantsFit
  BY DEF IInv
<1> QED BY <1>1, MpInvariance, PTL

-----------------------------------------------------------------------------
(* The pool lends disjoint ranges.                                         *)

(* What the user who was lent block b sees of it.                          *)
Range(b) == [at |-> b.at + Header, n |-> b.n]
Ranges   == {Range(b) : b \in lent}

(* The bytes behind the header of a block large enough lie in the block.   *)
LEMMA BytesInBlock ==
  ASSUME IInv, NEW at \in Blocks, NEW n \in Caps, size[at] >= BlockSize(n)
  PROVE  /\ at + Header \in 0..Size
         /\ \A c \in Users!Bytes([at |-> at + Header, n |-> n]) :
              c \in 0..Size-1 /\ at <= c /\ c < at + size[at]
<1>1. /\ at \in Nat /\ size[at] \in Int /\ at + size[at] <= off /\ off \in 0..Size
      /\ Size \in Nat
  BY Nodes, Constants DEF IInv, Tiled, TypeOK
<1>2. n \in Nat /\ Header \in Nat /\ BlockSize(n) \in Nat /\ BlockSize(n) >= Header + n
  BY BlockSizes, Constants
<1>3. Users!Bytes([at |-> at + Header, n |-> n]) = at + Header..at + Header + n - 1
  BY DEF Users!Bytes
<1>4. at + Header + n <= at + size[at] /\ at + size[at] <= Size
  BY <1>1, <1>2
<1> QED BY <1>1, <1>2, <1>3, <1>4

(* When mp_alloc returns a block, nobody else has any of its bytes.        *)
LEMMA UnlockGrabs ==
  ASSUME IInv, NEW t \in Threads, Unlock(t), Granted(t)
  PROVE  \E r \in [at : 0..Size, n : Caps] :
           /\ Users!Bytes(r) \subseteq 0..Size-1
           /\ \A other \in Ranges : other.at # r.at /\ Users!Bytes(other) \cap Users!Bytes(r) = {}
           /\ Ranges' = Ranges \cup {r}
<1> DEFINE at == w[t].blk
           n == w[t].n
           g == [at |-> at, n |-> n]
           r == [at |-> at + Header, n |-> n]
<1>1. /\ pc[t] = "unlock" /\ lent' = lent \cup {g}
      /\ w[t].op = "alloc" /\ at # NoBlock /\ CallIsSound(t)
  BY DEF Unlock, Goto, Granted, IInv
<1>2. n \in Caps /\ size[at] >= BlockSize(n)
  BY <1>1 DEF CallIsSound
<1>3. at \in InHand(t)
  BY <1>1 DEF InHand
<1>4. at \in Blocks /\ at \notin Lent
  BY <1>3 DEF Blocks, IInv, Apart
<1>5. /\ g.at = at /\ g.n = n /\ r = Range(g) /\ r.at = at + Header
  BY DEF Range
<1> HIDE DEF at, n, g
<1>6. /\ at + Header \in 0..Size
      /\ \A c \in Users!Bytes(r) : c \in 0..Size-1 /\ at <= c /\ c < at + size[at]
  BY <1>2, <1>4, BytesInBlock
<1>7. r \in [at : 0..Size, n : Caps]
  BY <1>2, <1>6
<1> HIDE DEF r
<1>8. Ranges' = Ranges \cup {r}
  BY <1>1, <1>5 DEF Ranges
<1>9. ASSUME NEW b \in lent
      PROVE  Range(b).at # r.at /\ Users!Bytes(Range(b)) \cap Users!Bytes(r) = {}
  <2>1. b.at \in Lent /\ b.at \in Blocks /\ b.n \in Caps /\ size[b.at] >= BlockSize(b.n)
    BY DEF Lent, Blocks, IInv, GrantsFit, TypeOK
  <2>2. \A c \in Users!Bytes(Range(b)) : c \in 0..Size-1 /\ b.at <= c /\ c < b.at + size[b.at]
    BY <2>1, BytesInBlock DEF Range
  <2>3. /\ at \in Int /\ b.at \in Int /\ at # b.at /\ size[at] \in Int /\ size[b.at] \in Int
        /\ at + size[at] <= b.at \/ b.at + size[b.at] <= at
    <3>1. /\ at \in Addr /\ b.at \in Addr /\ at # b.at
          /\ at < b.at => at + size[at] <= b.at
          /\ b.at < at => b.at + size[b.at] <= at
      BY <1>4, <2>1 DEF IInv, Tiled
    <3>2. size[at] \in Int /\ size[b.at] \in Int /\ at \in Int /\ b.at \in Int
      BY <3>1, Nodes DEF IInv, TypeOK
    <3> QED BY <3>1, <3>2
  <2>4. Range(b).at # r.at
    BY <1>5, <2>3, BlockSizes DEF Range
  <2>5. SUFFICES ASSUME NEW c \in Users!Bytes(r), c \in Users!Bytes(Range(b)) PROVE FALSE
    BY <2>4
  <2>6. c \in Int /\ at <= c /\ c < at + size[at] /\ b.at <= c /\ c < b.at + size[b.at]
    BY <1>6, <2>2, <2>5
  <2> QED BY <2>3, <2>6
<1>10. \A other \in Ranges : other.at # r.at /\ Users!Bytes(other) \cap Users!Bytes(r) = {}
  BY <1>9 DEF Ranges
<1> QED BY <1>6, <1>7, <1>8, <1>10

(* mp_free takes back one range and no other.                              *)
LEMMA FreeGivesBack ==
  ASSUME IInv, NEW t \in Threads, NEW b \in lent, FreeCall(t, b)
  PROVE  Range(b) \in Ranges /\ Ranges' = Ranges \ {Range(b)}
<1>1. lent' = lent \ {b}
  BY DEF FreeCall
<1>2. ASSUME NEW c \in lent, c # b
      PROVE  Range(c) # Range(b)
  <2>1. c.at # b.at /\ c.at \in Int /\ b.at \in Int
    BY <1>2, Nodes DEF IInv, Apart, TypeOK
  <2>2. Range(c).at # Range(b).at
    BY <2>1, BlockSizes DEF Range
  <2> QED BY <2>2
<1> QED BY <1>1, <1>2 DEF Ranges

(* Each step of the pool is one of the abstract pool or hidden from it.    *)
LEMMA NextLends == IInv /\ [Next]_vars => [Users!Next]_Ranges
<1> SUFFICES ASSUME IInv, [Next]_vars PROVE [Users!Next]_Ranges
  OBVIOUS
<1>1. ASSUME lent' = lent PROVE Ranges' = Ranges
  BY <1>1 DEF Ranges
<1>2. CASE UNCHANGED vars
  BY <1>1, <1>2 DEF vars
<1>3. ASSUME NEW t \in Threads, NEW n \in Caps, AllocCall(t, n)
      PROVE  [Users!Next]_Ranges
  BY <1>1, <1>3 DEF AllocCall
<1>4. ASSUME NEW t \in Threads, NEW b \in lent, FreeCall(t, b)
      PROVE  [Users!Next]_Ranges
  <2>1. Range(b) \in Ranges /\ Ranges' = Ranges \ {Range(b)}
    BY <1>4, FreeGivesBack
  <2> QED BY <2>1 DEF Users!Next, Users!GiveBack, Ranges, Range
<1>5. ASSUME NEW t \in Threads, Reset(t)
      PROVE  [Users!Next]_Ranges
  <2>1. Ranges' = {}
    BY <1>5 DEF Reset, Ranges
  <2> QED BY <2>1 DEF Users!Next, Users!Clear, Ranges, Range
<1>6. ASSUME NEW t \in Threads, Step(t)
      PROVE  [Users!Next]_Ranges
  <2>1. CASE Unlock(t) /\ Granted(t)
    BY <2>1, UnlockGrabs DEF Users!Next, Users!Grab, Ranges, Range
  <2>2. CASE ~(Unlock(t) /\ Granted(t))
    <3>1. lent' = lent
      BY <1>6, <2>2 DEF Step, Lock, ScanNext, TakeWhole, Split, Fresh, Exhausted,
         PlaceNext, Place, Unlock
    <3> QED BY <1>1, <3>1
  <2> QED BY <2>1, <2>2
<1> QED BY <1>2, <1>3, <1>4, <1>5, <1>6 DEF Next

(* For its users the pool lends ranges of bytes inside buf that nobody     *)
(* else has until they come back: mp_alloc, mp_free and mp_reset refine    *)
(* Grab, GiveBack and Clear of the abstract pool.                          *)
THEOREM PoolLendsRanges == Spec => ImplementsPool
<1>1. Init => Users!Init
  BY DEF Init, Users!Init
<1>2. IInv /\ [Next]_vars
        => [Users!Next]_({[at |-> b.at + Header, n |-> b.n] : b \in lent})
  BY NextLends DEF Ranges, Range
<1> QED BY <1>1, <1>2, MpInvariance, PTL DEF ImplementsPool, Users!Spec, Spec
=============================================================================
