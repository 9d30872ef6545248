--------------------------------- MODULE Mp ---------------------------------
(***************************************************************************)
(* The memory pool of ds/mp.h: blocks with a header, handed out first fit  *)
(* from a free list in address order, else from the end of what was used   *)
(* so far, under a spin lock.  One iteration of a walk over the list is a  *)
(* step, so is the update that ends it.  A block is named by the offset of *)
(* its header in buf; the header holds its size and its links.             *)
(***************************************************************************)
EXTENDS Integers

CONSTANTS
  Threads,
  Size,       \* MP_SIZE
  Align,      \* MP_ALIGN
  BlkSize,    \* sizeof(mp_blk_t)
  Caps,       \* the sizes users ask for
  NoBlock     \* what the caller of a failed mp_alloc gets, NULL

ASSUME MpAssumption ==
  /\ Size \in Nat /\ Align \in Nat \ {0} /\ BlkSize \in Nat \ {0}
  /\ Caps \subseteq Nat
  /\ NoBlock \notin Int

VARIABLES
  list,   \* next and prev of every header and of blk_root
  size,   \* per header: the size of the block, header included
  off,    \* where the part of buf never handed out begins
  lock,
  pc,     \* per thread: where its call is
  w,      \* per thread: the locals of its call
  lent,   \* the blocks users have, as [at, n]: n bytes were asked for
  free    \* the blocks in the list; auxiliary, read by properties only

vars == <<list, size, off, lock, pc, w, lent, free>>

Root == -1     \* blk_root, in front of every block
Addr == 0..Size-1
Node == Addr \cup {Root}

L == INSTANCE List WITH Null <- NoBlock

AlignUp(n)   == ((n + Align - 1) \div Align) * Align
Header       == AlignUp(BlkSize)
BlockSize(n) == Header + AlignUp(n)

(* op: the call; n: asked for; need: block_size; node: where the walk is;  *)
(* blk: the block found or given back.                                     *)
NoCall == [op |-> "none", n |-> 0, need |-> 0, node |-> Root, blk |-> NoBlock]

NoLinks == [next |-> [x \in Node |-> NoBlock], prev |-> [x \in Node |-> NoBlock]]

(* mp_init on a zeroed mp_t.                                               *)
Init ==
  /\ list = L!list_init(NoLinks, Root)
  /\ size = [a \in Addr |-> 0] /\ off = 0 /\ lock = FALSE
  /\ pc = [t \in Threads |-> "idle"] /\ w = [t \in Threads |-> NoCall]
  /\ lent = {} /\ free = {}

Goto(t, from, to) == pc[t] = from /\ pc' = [pc EXCEPT ![t] = to]
Set(t, r)         == w' = [w EXCEPT ![t] = r]

-----------------------------------------------------------------------------
AllocCall(t, n) ==
  /\ Goto(t, "idle", "lock")
  /\ Set(t, [NoCall EXCEPT !.op = "alloc", !.n = n, !.need = BlockSize(n)])
  /\ UNCHANGED <<list, size, off, lock, lent, free>>

(* Any thread may give back what any thread was lent, once.                *)
FreeCall(t, b) ==
  /\ b \in lent
  /\ Goto(t, "idle", "lock")
  /\ Set(t, [NoCall EXCEPT !.op = "free", !.blk = b.at])
  /\ lent' = lent \ {b}
  /\ UNCHANGED <<list, size, off, lock, free>>

(* A mistake: the lock is taken without being free.                        *)
LockUnchecked(t) ==
  /\ Goto(t, "lock", IF w[t].op = "alloc" THEN "scan" ELSE "place")
  /\ lock' = TRUE
  /\ Set(t, [w[t] EXCEPT !.node = list.next[Root]])
  /\ UNCHANGED <<list, size, off, lent, free>>

(* SPIN_LOCK, and the first node of the walk.  A swap that fails changes   *)
(* nothing and tries again.                                                *)
Lock(t) ==
  /\ Goto(t, "lock", IF w[t].op = "alloc" THEN "scan" ELSE "place")
  /\ ~lock /\ lock' = TRUE
  /\ Set(t, [w[t] EXCEPT !.node = list.next[Root]])
  /\ UNCHANGED <<list, size, off, lent, free>>

(* A mistake: only the payload is compared.                                *)
FitsPayload(t) == w[t].node # Root /\ size[w[t].node] >= w[t].need - Header

Fits(t)      == w[t].node # Root /\ size[w[t].node] >= w[t].need
Divisible(t) == size[w[t].node] >= w[t].need + Header + Align

ScanNext(t) ==
  /\ Goto(t, "scan", "scan")
  /\ w[t].node # Root /\ ~Fits(t)
  /\ Set(t, [w[t] EXCEPT !.node = list.next[w[t].node]])
  /\ UNCHANGED <<list, size, off, lock, lent, free>>

TakeWhole(t) ==
  /\ Goto(t, "scan", "unlock")
  /\ Fits(t) /\ ~Divisible(t)
  /\ list' = L!list_del(list, w[t].node)
  /\ free' = free \ {w[t].node}
  /\ Set(t, [w[t] EXCEPT !.blk = w[t].node, !.node = Root])
  /\ UNCHANGED <<size, off, lock, lent>>

(* A mistake: the block taken keeps its old size.                          *)
SplitUnshrunk(t) ==
  /\ Goto(t, "scan", "place")
  /\ Fits(t) /\ Divisible(t)
  /\ list' = L!list_del(list, w[t].node)
  /\ free' = free \ {w[t].node}
  /\ size' = [size EXCEPT ![w[t].node + w[t].need] = size[w[t].node] - w[t].need]
  /\ Set(t, [w[t] EXCEPT !.blk = w[t].node, !.node = list'.next[Root]])
  /\ UNCHANGED <<off, lock, lent>>

(* The front of the block is taken, the rest is put in its place.          *)
Split(t) ==
  /\ Goto(t, "scan", "place")
  /\ Fits(t) /\ Divisible(t)
  /\ list' = L!list_del(list, w[t].node)
  /\ free' = free \ {w[t].node}
  /\ size' = [size EXCEPT ![w[t].node] = w[t].need,
                          ![w[t].node + w[t].need] = size[w[t].node] - w[t].need]
  /\ Set(t, [w[t] EXCEPT !.blk = w[t].node, !.node = list'.next[Root]])
  /\ UNCHANGED <<off, lock, lent>>

(* No block of the list will do: the unused part of buf.                   *)
Fresh(t) ==
  /\ Goto(t, "scan", "unlock")
  /\ w[t].node = Root /\ off + w[t].need <= Size
  /\ size' = [size EXCEPT ![off] = w[t].need]
  /\ off' = off + w[t].need
  /\ Set(t, [w[t] EXCEPT !.blk = off])
  /\ UNCHANGED <<list, lock, lent, free>>

(* A mistake: mp_alloc returns NULL with the lock held.                    *)
ExhaustedLocked(t) ==
  /\ Goto(t, "scan", "idle")
  /\ w[t].node = Root /\ off + w[t].need > Size
  /\ Set(t, NoCall)
  /\ UNCHANGED <<list, size, off, lock, lent, free>>

Exhausted(t) ==
  /\ Goto(t, "scan", "unlock")
  /\ w[t].node = Root /\ off + w[t].need > Size
  /\ UNCHANGED <<list, size, off, lock, w, lent, free>>

-----------------------------------------------------------------------------
(* The block to put into the list: the rest of a split, or the one freed.  *)
Placed(t) == IF w[t].op = "alloc" THEN w[t].blk + w[t].need ELSE w[t].blk

Behind(t) == w[t].node # Root /\ w[t].node < Placed(t)

PlaceNext(t) ==
  /\ Goto(t, "place", "place")
  /\ Behind(t)
  /\ Set(t, [w[t] EXCEPT !.node = list.next[w[t].node]])
  /\ UNCHANGED <<list, size, off, lock, lent, free>>

(* A mistake: it goes to the front of the list.                            *)
PlaceFront(t) ==
  /\ Goto(t, "place", "unlock")
  /\ ~Behind(t)
  /\ list' = L!ListAdd(list, Placed(t), Root, list.next[Root])
  /\ free' = free \cup {Placed(t)}
  /\ Set(t, [w[t] EXCEPT !.node = Root])
  /\ UNCHANGED <<size, off, lock, lent>>

Place(t) ==
  /\ Goto(t, "place", "unlock")
  /\ ~Behind(t)
  /\ list' = L!ListAdd(list, Placed(t), list.prev[w[t].node], w[t].node)
  /\ free' = free \cup {Placed(t)}
  /\ Set(t, [w[t] EXCEPT !.node = Root])
  /\ UNCHANGED <<size, off, lock, lent>>

(* SPIN_UNLOCK, and the return: NoBlock grants nothing.                    *)
Granted(t) == w[t].op = "alloc" /\ w[t].blk # NoBlock

Unlock(t) ==
  /\ Goto(t, "unlock", "idle")
  /\ lock' = FALSE
  /\ lent' = IF Granted(t) THEN lent \cup {[at |-> w[t].blk, n |-> w[t].n]} ELSE lent
  /\ Set(t, NoCall)
  /\ UNCHANGED <<list, size, off, free>>

(* mp_reset.  It takes back every block, so its caller sees to it that no  *)
(* mp_free is on its way.  The headers in buf are garbage from here on:    *)
(* the model forgets them, which keeps their many values apart from the    *)
(* states that matter.                                                     *)
Reset(t) ==
  /\ pc[t] = "idle" /\ ~lock
  /\ \A u \in Threads : w[u].op # "free"
  /\ off' = 0
  /\ list' = L!list_init(NoLinks, Root)
  /\ size' = [a \in Addr |-> 0]
  /\ lent' = {} /\ free' = {}
  /\ UNCHANGED <<lock, pc, w>>

-----------------------------------------------------------------------------
Step(t) ==
  \/ Lock(t) \/ ScanNext(t) \/ TakeWhole(t) \/ Split(t) \/ Fresh(t)
  \/ Exhausted(t) \/ PlaceNext(t) \/ Place(t) \/ Unlock(t)

Next ==
  \E t \in Threads :
    \/ \E n \in Caps : AllocCall(t, n)
    \/ \E b \in lent : FreeCall(t, b)
    \/ Reset(t)
    \/ Step(t)

Spec == Init /\ [][Next]_vars

(* A thread inside a call keeps running, and its swap at last meets a free *)
(* lock: the lock itself favours nobody.                                   *)
Fairness == \A t \in Threads : WF_vars(Step(t)) /\ SF_vars(Lock(t))

FairSpec == Spec /\ Fairness

-----------------------------------------------------------------------------
Cells(a) == a..a + size[a] - 1

(* The blocks on their way between the list and the users.                 *)
InHand(t) ==
  (IF w[t].blk # NoBlock /\ ~(w[t].op = "free" /\ pc[t] = "unlock")
     THEN {w[t].blk} ELSE {})
  \cup (IF w[t].op = "alloc" /\ pc[t] = "place" THEN {Placed(t)} ELSE {})

Lent   == {b.at : b \in lent}
Blocks == free \cup Lent \cup UNION {InHand(t) : t \in Threads}

(* Whatever the order of calls, splits and returns: the blocks cover the   *)
(* used part of buf without a gap and without sharing a byte, and a block  *)
(* is free, lent or in the hands of one thread.                            *)
BlocksTileThePool ==
  /\ UNION {Cells(a) : a \in Blocks} = 0..off-1
  /\ \A a, b \in Blocks : a # b => Cells(a) \cap Cells(b) = {}
  /\ \A b, c \in lent : b # c => b.at # c.at
  /\ free \cap Lent = {}
  /\ \A t \in Threads :
       /\ InHand(t) \cap (free \cup Lent) = {}
       /\ \A u \in Threads \ {t} : InHand(t) \cap InHand(u) = {}

(* The list runs through exactly the free blocks in the order of their     *)
(* addresses, and backwards the same way.                                  *)
ListIsSorted ==
  \A x \in free \cup {Root} :
    LET y == list.next[x]
    IN  /\ y \in free \cup {Root} /\ list.prev[y] = x
        /\ y # Root => x < y
        /\ \A b \in free : x < b => y # Root /\ y <= b

(* A user gets all he asked for behind the header, at an aligned address,  *)
(* and no block is so large that a part of it could have been kept.        *)
GrantsFit ==
  \A b \in lent :
    /\ b.at % Align = 0
    /\ size[b.at] >= BlockSize(b.n)
    /\ size[b.at] < BlockSize(b.n) + Header + Align

Users == INSTANCE Pool WITH lent <- {[at |-> b.at + Header, n |-> b.n] : b \in lent}

(* For its users the pool is one that lends disjoint ranges of bytes.      *)
ImplementsPool == Users!Spec

(* Every call returns: the walks come to an end and the lock is given up.  *)
CallsReturn == \A t \in Threads : pc[t] # "idle" ~> pc[t] = "idle"

(* mp_alloc's comment: NULL means that the pool is exhausted.  But blocks  *)
(* are never joined again: with all of them free, a request the whole pool *)
(* could serve is refused.                                                 *)
NullMeansExhausted ==
  [][\A t \in Threads : Exhausted(t) /\ w[t].need <= Size => Blocks # free]_vars
=============================================================================
