----------------------------- MODULE Shm_proof ------------------------------
(***************************************************************************)
(* For any capacity and any number of starts, objects and records: what    *)
(* was accepted into a shared object is not lost, repeated or reordered by *)
(* processes that die and come back, but for the exception that            *)
(* RecordsSurvive names.                                                   *)
(***************************************************************************)
EXTENDS Shm, SequenceTheorems, TLAPS

Cells  == 0..ShmCap-1
Rings  == [sized : BOOLEAN, cap : {0, ShmCap}, wp : Nat, rp : Nat, buf : [Cells -> Nat]]
Points == {"out", "create", "size", "map", "policy", "rp", "wp", "ready", "store"}
States == [pc : Points, obj : Objects \cup {NoObject}, creator : BOOLEAN,
           next : Nat, item : Nat]

TypeOK ==
  /\ keeps \in BOOLEAN /\ name \in Objects \cup {NoObject} /\ objects \in Nat
  /\ ring \in [Objects -> Rings] /\ proc \in [Procs -> States] /\ starts \in Nat
  /\ accepted \in [Objects -> Seq(Nat)] /\ taken \in [Objects -> Seq(Nat)]

(* A process inside of an object has one, and only creators initialise.    *)
ProcsAreSound ==
  \A p \in Procs :
    /\ proc[p].pc \notin {"out", "create"} => proc[p].obj \in Objects
    /\ proc[p].pc \in {"policy", "rp", "wp"} => proc[p].creator

Storing(p, o) == proc[p].pc = "store" /\ proc[p].obj = o

(* Nothing is written to or read from a ring whose capacity is not set.    *)
CapIsFirst ==
  \A o \in Objects : ring[o].cap = 0 =>
    ring[o].wp = 0 /\ ring[o].rp = 0 /\ \A p \in Procs : ~Storing(p, o)

(* The records accepted are those taken and, behind them, those between    *)
(* the indices.                                                            *)
Carried(o) ==
  /\ Len(accepted[o]) = Len(taken[o]) + (ring[o].wp - ring[o].rp)
  /\ \A i \in 1..Len(taken[o]) : accepted[o][i] = taken[o][i]
  /\ \A i \in 1..ring[o].wp - ring[o].rp :
       accepted[o][Len(taken[o]) + i] = ring[o].buf[(ring[o].rp + i - 1) % ShmCap]

(* The indices are at most the capacity apart, and 0 before the first      *)
(* record; the capacity is set before it.                                  *)
IndicesHold(o) ==
  /\ ring[o].rp <= ring[o].wp /\ ring[o].wp <= ring[o].rp + ShmCap
  /\ accepted[o] = <<>> => ring[o].wp = 0
  /\ InUse(o) => ring[o].cap = ShmCap

(* What a process is about to store: the index behind a record that is in  *)
(* its cell, the index behind the record it copied.                        *)
StoresHold(o) ==
  /\ Storing("writer", o) =>
       /\ proc["writer"].next = ring[o].wp + 1 /\ ring[o].wp < ring[o].rp + ShmCap
       /\ ring[o].buf[ring[o].wp % ShmCap] = Len(accepted[o]) + 1
  /\ Storing("reader", o) =>
       /\ proc["reader"].next = ring[o].rp + 1 /\ ring[o].rp < ring[o].wp
       /\ proc["reader"].item = ring[o].buf[ring[o].rp % ShmCap]

Sound(o) ==
  /\ ~(Unfinished(o) /\ InUse(o))
  /\ Carried(o) /\ IndicesHold(o) /\ StoresHold(o)

IInv == TypeOK /\ ProcsAreSound /\ CapIsFirst /\ \A o \in Objects \ early : Sound(o)

-----------------------------------------------------------------------------
LEMMA Constants ==
  /\ ShmCap \in Nat /\ ShmCap > 0 /\ Objects \subseteq Nat /\ NoObject \notin Objects
  /\ NoObject \in Nat
BY ShmAssumption DEF Objects, NoObject

LEMMA CellRange == \A x \in Nat : x % ShmCap \in Cells
BY Constants DEF Cells

(* Indices less than the capacity apart have different cells.              *)
LEMMA CellsDiffer ==
  ASSUME NEW a \in Nat, NEW b \in Nat, a < b, b < a + ShmCap
  PROVE  a % ShmCap # b % ShmCap
<1> SUFFICES ASSUME a % ShmCap = b % ShmCap PROVE FALSE
  OBVIOUS
<1> DEFINE d == a \div ShmCap
           e == b \div ShmCap
           r == a % ShmCap
<1>1. /\ d \in Int /\ e \in Int /\ r \in Int
      /\ a = ShmCap * d + r /\ b = ShmCap * e + r
  BY Constants
<1> HIDE DEF d, e, r
<1>2. e - d \in Int /\ b - a = ShmCap * (e - d) /\ 0 < b - a /\ b - a < ShmCap
  BY <1>1, Constants
<1>3. e - d >= 1 \/ e - d <= 0
  BY <1>1
<1>4. CASE e - d >= 1
  <2>1. ShmCap * (e - d) >= ShmCap
    BY <1>2, <1>4, Constants
  <2> QED BY <1>2, <2>1, Constants
<1>5. CASE e - d <= 0
  <2>1. ShmCap * (e - d) <= 0
    BY <1>2, <1>5, Constants
  <2> QED BY <1>2, <2>1, Constants
<1> QED BY <1>3, <1>4, <1>5

LEMMA Numbers ==
  ASSUME TypeOK, NEW o \in Objects
  PROVE  /\ ring[o] \in Rings /\ ring[o].wp \in Nat /\ ring[o].rp \in Nat
         /\ ring[o].cap \in {0, ShmCap} /\ ring[o].buf \in [Cells -> Nat]
         /\ accepted[o] \in Seq(Nat) /\ taken[o] \in Seq(Nat)
         /\ Len(accepted[o]) \in Nat /\ Len(taken[o]) \in Nat
         /\ accepted[o] = <<>> <=> Len(accepted[o]) = 0
<1>1. ring[o] \in Rings /\ accepted[o] \in Seq(Nat) /\ taken[o] \in Seq(Nat)
  BY DEF TypeOK
<1>2. accepted[o] = <<>> <=> Len(accepted[o]) = 0
  BY <1>1, EmptySeq
<1>3. Len(accepted[o]) \in Nat /\ Len(taken[o]) \in Nat
  BY <1>1
<1> QED BY <1>1, <1>2, <1>3 DEF Rings

(* A step of process p that leaves the objects alone but for their sizes.  *)
LEMMA Updates ==
  ASSUME TypeOK, NEW p \in Procs, NEW r \in States, Goto(p, r)
  PROVE  /\ proc' \in [Procs -> States] /\ keeps' = keeps /\ proc'[p] = r
         /\ \A q \in Procs \ {p} : proc'[q] = proc[q]
BY DEF TypeOK, Goto

LEMMA OutIsState == Out \in States
BY Constants DEF Out, States, Points

LEMMA RingUpdate ==
  ASSUME TypeOK, NEW o \in Objects, NEW r \in Rings, ring' = [ring EXCEPT ![o] = r]
  PROVE  /\ ring' \in [Objects -> Rings] /\ ring'[o] = r
         /\ \A x \in Objects \ {o} : ring'[x] = ring[x]
BY DEF TypeOK

-----------------------------------------------------------------------------
(* The types, and who initialises.                                         *)

(* The same indices, capacity and records.                                 *)
SameRing(o) == /\ ring'[o].wp = ring[o].wp /\ ring'[o].rp = ring[o].rp
               /\ ring'[o].cap = ring[o].cap /\ ring'[o].buf = ring[o].buf

(* No process comes to store.                                              *)
NoStore == \A q \in Procs : proc'[q].pc = "store" => proc'[q] = proc[q]

LEMMA LeaveTypes ==
  ASSUME TypeOK, ProcsAreSound, NEW p \in Procs, Leave(p)
  PROVE  TypeOK' /\ ProcsAreSound' /\ NoStore /\ \A o \in Objects : SameRing(o)
<1>1. /\ Goto(p, Out) /\ name' = IF Gone(p) THEN NoObject ELSE name
      /\ UNCHANGED <<objects, ring, starts, accepted, taken>>
  BY DEF Leave
<1>2. /\ proc' \in [Procs -> States] /\ keeps' = keeps /\ proc'[p] = Out
      /\ \A q \in Procs \ {p} : proc'[q] = proc[q]
  BY <1>1, OutIsState, Updates
<1>3. name' \in Objects \cup {NoObject}
  BY <1>1 DEF TypeOK
<1>4. Out.pc = "out"
  BY DEF Out
<1> QED BY <1>1, <1>2, <1>3, <1>4 DEF TypeOK, ProcsAreSound, NoStore, SameRing

(* A process moves to r; r is in an object where it has to be.             *)
LEMMA MoveTypes ==
  ASSUME TypeOK, ProcsAreSound, NEW p \in Procs, NEW r \in States, Goto(p, r),
         r.pc \notin {"out", "create"} => r.obj \in Objects,
         r.pc \in {"policy", "rp", "wp"} => r.creator
  PROVE  /\ proc' \in [Procs -> States] /\ keeps' \in BOOLEAN /\ ProcsAreSound'
         /\ r.pc # "store" => NoStore
<1>1. /\ proc' \in [Procs -> States] /\ keeps' = keeps /\ proc'[p] = r
      /\ \A q \in Procs \ {p} : proc'[q] = proc[q]
  BY Updates
<1> QED BY <1>1 DEF TypeOK, ProcsAreSound, NoStore

LEMMA OpenTypes ==
  ASSUME TypeOK, ProcsAreSound, NEW p \in Procs, Open(p)
  PROVE  TypeOK' /\ ProcsAreSound' /\ NoStore /\ \A o \in Objects : SameRing(o)
<1> DEFINE r == IF name = NoObject THEN [Out EXCEPT !.pc = "create"]
                ELSE [Out EXCEPT !.pc = "map", !.obj = name]
<1>1. /\ Goto(p, r) /\ starts' = starts + 1
      /\ UNCHANGED <<name, objects, ring, accepted, taken>>
  BY DEF Open
<1>2. /\ r \in States /\ r.pc \in {"create", "map"} /\ (r.pc = "map" => r.obj \in Objects)
  <2>1. name \in Objects \cup {NoObject}
    BY DEF TypeOK
  <2> QED BY <2>1, OutIsState DEF Out, States, Points
<1> HIDE DEF r
<1>3. proc' \in [Procs -> States] /\ keeps' \in BOOLEAN /\ ProcsAreSound' /\ NoStore
  BY <1>1, <1>2, MoveTypes
<1> QED BY <1>1, <1>3 DEF TypeOK, SameRing

LEMMA CreateTypes ==
  ASSUME TypeOK, ProcsAreSound, NEW p \in Procs, Create(p)
  PROVE  /\ TypeOK' /\ ProcsAreSound' /\ NoStore
         /\ \A o \in Objects : SameRing(o)
<1> DEFINE r == [proc[p] EXCEPT !.pc = IF keeps THEN "size" ELSE "map", !.obj = name',
                                !.creator = TRUE]
<1>1. /\ proc[p].pc = "create" /\ Goto(p, r) /\ UNCHANGED <<starts, accepted, taken>>
      /\ \/ name # NoObject /\ UNCHANGED <<name, objects, ring>>
         \/ /\ objects < MaxObjects /\ objects' = objects + 1 /\ name' = objects'
            /\ ring' = [ring EXCEPT ![objects'].sized = ~keeps]
  BY DEF Create
<1>2. /\ name' \in Objects /\ objects' \in Nat /\ ring' \in [Objects -> Rings]
      /\ \A o \in Objects : SameRing(o)
  <2>1. CASE name # NoObject /\ UNCHANGED <<name, objects, ring>>
    BY <2>1 DEF TypeOK, SameRing
  <2>2. CASE /\ objects < MaxObjects /\ objects' = objects + 1 /\ name' = objects'
             /\ ring' = [ring EXCEPT ![objects'].sized = ~keeps]
    <3>1. objects' \in Objects /\ objects' \in Nat
      BY <2>2, ShmAssumption DEF TypeOK, Objects
    <3> DEFINE new == objects'
               sized == ~keeps
    <3>2. /\ new \in Objects /\ ring' = [ring EXCEPT ![new].sized = sized] /\ sized \in BOOLEAN
          /\ ring \in [Objects -> Rings] /\ ring[new] \in Rings
      BY <2>2, <3>1 DEF TypeOK
    <3> HIDE DEF new, sized
    <3>3. [ring[new] EXCEPT !.sized = sized] \in Rings
      BY <3>2 DEF Rings
    <3>4. ring' = [ring EXCEPT ![new] = [ring[new] EXCEPT !.sized = sized]]
      BY <3>2
    <3>5. /\ ring' \in [Objects -> Rings]
          /\ ring'[new] = [ring[new] EXCEPT !.sized = sized]
          /\ \A x \in Objects \ {new} : ring'[x] = ring[x]
      BY <3>2, <3>3, <3>4, RingUpdate
    <3>6. SameRing(new)
      BY <3>2, <3>5 DEF Rings, SameRing
    <3>7. \A x \in Objects \ {new} : SameRing(x)
      BY <3>5 DEF SameRing
    <3> QED BY <2>2, <3>1, <3>5, <3>6, <3>7
  <2> QED BY <1>1, <2>1, <2>2
<1>3. r \in States /\ r.pc \in {"size", "map"} /\ r.obj \in Objects /\ r.creator
  <2>1. proc[p] \in States /\ name' \in Objects
    BY <1>2 DEF TypeOK
  <2> QED BY <2>1 DEF States, Points
<1> HIDE DEF r
<1>4. proc' \in [Procs -> States] /\ keeps' \in BOOLEAN /\ ProcsAreSound' /\ NoStore
  BY <1>1, <1>3, MoveTypes
<1> QED BY <1>1, <1>2, <1>4 DEF TypeOK

LEMMA SizeTypes ==
  ASSUME TypeOK, ProcsAreSound, NEW p \in Procs, Size(p)
  PROVE  TypeOK' /\ ProcsAreSound' /\ NoStore /\ \A o \in Objects : SameRing(o)
<1> DEFINE r == [proc[p] EXCEPT !.pc = "map"]
           o == proc[p].obj
<1>1. CASE Leave(p)
  BY <1>1, LeaveTypes
<1>2. CASE /\ Goto(p, r) /\ ring' = [ring EXCEPT ![o].sized = TRUE]
           /\ UNCHANGED <<name, objects, starts, accepted, taken>>
  <2>1. proc[p].pc = "size" /\ o \in Objects /\ ring[o] \in Rings
    BY DEF Size, TypeOK, ProcsAreSound
  <2>2. r \in States /\ r.pc = "map" /\ r.obj \in Objects
    BY <2>1 DEF TypeOK, States, Points
  <2> DEFINE x == [ring[o] EXCEPT !.sized = TRUE]
  <2>3. x \in Rings /\ ring' = [ring EXCEPT ![o] = x]
    BY <1>2, <2>1 DEF Rings
  <2> HIDE DEF r, o
  <2>4. /\ ring' \in [Objects -> Rings] /\ ring'[o] = x
        /\ \A y \in Objects \ {o} : ring'[y] = ring[y]
    BY <2>1, <2>3, RingUpdate
  <2>5. SameRing(o)
    BY <2>1, <2>4 DEF Rings, SameRing
  <2>6. \A y \in Objects : SameRing(y)
    BY <2>4, <2>5 DEF SameRing
  <2>7. proc' \in [Procs -> States] /\ keeps' \in BOOLEAN /\ ProcsAreSound' /\ NoStore
    BY <1>2, <2>2, MoveTypes
  <2> QED BY <1>2, <2>4, <2>6, <2>7 DEF TypeOK
<1> QED BY <1>1, <1>2 DEF Size

LEMMA MapTypes ==
  ASSUME TypeOK, ProcsAreSound, NEW p \in Procs, Map(p)
  PROVE  TypeOK' /\ ProcsAreSound' /\ NoStore /\ \A o \in Objects : SameRing(o)
<1> DEFINE r == [proc[p] EXCEPT !.pc = IF proc[p].creator THEN "policy" ELSE "ready"]
<1>1. /\ proc[p].pc = "map" /\ Goto(p, r)
      /\ UNCHANGED <<name, objects, ring, starts, accepted, taken>>
  BY DEF Map, Rest
<1>2. /\ r \in States /\ r.pc \in {"policy", "ready"} /\ r.obj \in Objects
      /\ r.pc = "policy" => r.creator
  <2>1. proc[p] \in States /\ proc[p].obj \in Objects
    BY <1>1 DEF TypeOK, ProcsAreSound
  <2> QED BY <2>1 DEF States, Points
<1> HIDE DEF r
<1>3. proc' \in [Procs -> States] /\ keeps' \in BOOLEAN /\ ProcsAreSound' /\ NoStore
  BY <1>1, <1>2, MoveTypes
<1> QED BY <1>1, <1>3 DEF TypeOK, SameRing

LEMMA MapFailsTypes ==
  ASSUME TypeOK, ProcsAreSound, NEW p \in Procs, MapFails(p)
  PROVE  TypeOK' /\ ProcsAreSound' /\ NoStore /\ \A o \in Objects : SameRing(o)
<1>1. CASE Leave(p)
  BY <1>1, LeaveTypes
<1>2. CASE /\ Goto(p, Out) /\ name' = NoObject
           /\ UNCHANGED <<objects, ring, starts, accepted, taken>>
  <2>1. Out \in States /\ Out.pc = "out"
    BY OutIsState DEF Out
  <2>2. proc' \in [Procs -> States] /\ keeps' \in BOOLEAN /\ ProcsAreSound' /\ NoStore
    BY <1>2, <2>1, MoveTypes
  <2> QED BY <1>2, <2>2 DEF TypeOK, SameRing
<1> QED BY <1>1, <1>2 DEF MapFails

-----------------------------------------------------------------------------
(* Steps that leave the records alone.                                     *)

Quiet(p) == Open(p) \/ Create(p) \/ Size(p) \/ Map(p) \/ MapFails(p) \/ Die(p)

LEMMA QuietTypes ==
  ASSUME TypeOK, ProcsAreSound, NEW p \in Procs, Quiet(p)
  PROVE  /\ TypeOK' /\ ProcsAreSound' /\ NoStore /\ \A o \in Objects : SameRing(o)
         /\ UNCHANGED <<accepted, taken>>
<1>1. UNCHANGED <<accepted, taken>>
  BY DEF Quiet, Open, Create, Size, Map, MapFails, Die, Leave, Rest
<1> QED BY <1>1, LeaveTypes, OpenTypes, CreateTypes, SizeTypes, MapTypes, MapFailsTypes
        DEF Quiet, Die

LEMMA StaysSound ==
  ASSUME TypeOK, NEW o \in Objects, Sound(o), SameRing(o),
         accepted'[o] = accepted[o], taken'[o] = taken[o],
         \A q \in Procs : Storing(q, o)' => Storing(q, o) /\ proc'[q] = proc[q],
         ~(Unfinished(o) /\ InUse(o))'
  PROVE  Sound(o)'
<1>1. "writer" \in Procs /\ "reader" \in Procs
  BY DEF Procs
<1>2. Carried(o)'
  BY DEF Sound, Carried, SameRing
<1>3. InUse(o)' => InUse(o)
  BY <1>1 DEF InUse, Storing
<1>4. IndicesHold(o)'
  BY <1>3 DEF Sound, IndicesHold, SameRing
<1>5. StoresHold(o)'
  BY <1>1 DEF Sound, StoresHold, SameRing
<1> QED BY <1>2, <1>4, <1>5 DEF Sound

LEMMA QuietKeeps ==
  ASSUME IInv, NEW p \in Procs, Quiet(p)
  PROVE  /\ TypeOK' /\ ProcsAreSound' /\ CapIsFirst'
         /\ \A o \in Objects \ early : ~(Unfinished(o) /\ InUse(o))' => Sound(o)'
<1>1. /\ TypeOK' /\ ProcsAreSound' /\ NoStore /\ \A o \in Objects : SameRing(o)
      /\ UNCHANGED <<accepted, taken>>
  BY QuietTypes DEF IInv
<1>2. \A q \in Procs, o \in Objects : Storing(q, o)' => Storing(q, o) /\ proc'[q] = proc[q]
  BY <1>1 DEF NoStore, Storing
<1>3. CapIsFirst'
  BY <1>1, <1>2 DEF IInv, CapIsFirst, SameRing
<1>4. \A o \in Objects \ early : ~(Unfinished(o) /\ InUse(o))' => Sound(o)'
  BY <1>1, <1>2, StaysSound DEF IInv
<1> QED BY <1>1, <1>3, <1>4

(* spsc_init_buf stores what is there already, as long as nobody has used  *)
(* the object.                                                             *)
LEMMA InitRingKeeps ==
  ASSUME IInv, NEW p \in Procs, InitRing(p)
  PROVE  /\ TypeOK' /\ ProcsAreSound' /\ CapIsFirst'
         /\ \A o \in Objects \ early : ~(Unfinished(o) /\ InUse(o))' => Sound(o)'
<1> DEFINE o == proc[p].obj
<1>1. PICK at, to, x :
        /\ <<at, to, x>> \in {<<"policy", "rp", [ring[o] EXCEPT !.cap = ShmCap]>>,
                              <<"rp", "wp", [ring[o] EXCEPT !.rp = 0]>>,
                              <<"wp", "ready", [ring[o] EXCEPT !.wp = 0]>>}
        /\ InitStep(p, at, to, x)
  BY DEF InitRing, Points
<1> DEFINE r == [proc[p] EXCEPT !.pc = to]
<1>2. /\ proc[p].pc = at /\ ring' = [ring EXCEPT ![o] = x] /\ Goto(p, r)
      /\ UNCHANGED <<name, objects, starts, accepted, taken>>
  BY <1>1 DEF InitStep
<1>3. /\ at \in {"policy", "rp", "wp"} /\ to \in {"rp", "wp", "ready"}
      /\ \/ x = [ring[o] EXCEPT !.cap = ShmCap] \/ x = [ring[o] EXCEPT !.rp = 0]
         \/ x = [ring[o] EXCEPT !.wp = 0]
  BY <1>1
<1>4. o \in Objects /\ proc[p].creator /\ proc[p] \in States /\ ring[o] \in Rings
  BY <1>2, <1>3 DEF IInv, TypeOK, ProcsAreSound
<1>5. /\ x \in Rings /\ x.buf = ring[o].buf /\ x.cap \in {ring[o].cap, ShmCap}
      /\ x.rp \in {ring[o].rp, 0} /\ x.wp \in {ring[o].wp, 0}
  <2>1. CASE x = [ring[o] EXCEPT !.cap = ShmCap]
    BY <1>4, <2>1 DEF Rings
  <2>2. CASE x = [ring[o] EXCEPT !.rp = 0]
    BY <1>4, <2>2 DEF Rings
  <2>3. CASE x = [ring[o] EXCEPT !.wp = 0]
    BY <1>4, <2>3 DEF Rings
  <2> QED BY <1>3, <2>1, <2>2, <2>3
<1>6. r \in States /\ r.pc \in {"rp", "wp", "ready"} /\ r.obj = o /\ r.creator
  BY <1>3, <1>4 DEF States, Points
<1> HIDE DEF r
<1>7. proc' \in [Procs -> States] /\ keeps' \in BOOLEAN /\ ProcsAreSound' /\ NoStore
  BY <1>2, <1>4, <1>6, MoveTypes DEF IInv
<1>8. /\ ring' \in [Objects -> Rings] /\ ring'[o] = x
      /\ \A y \in Objects \ {o} : ring'[y] = ring[y]
  BY <1>2, <1>4, <1>5, RingUpdate DEF IInv
<1>9. TypeOK'
  BY <1>2, <1>7, <1>8 DEF IInv, TypeOK
<1>10. \A q \in Procs, y \in Objects : Storing(q, y)' => Storing(q, y) /\ proc'[q] = proc[q]
  BY <1>7 DEF NoStore, Storing
<1>11. CapIsFirst'
  <2>1. x.cap = 0 => x.wp = 0 /\ x.rp = 0 /\ \A q \in Procs : ~Storing(q, o)
    <3>1. ring[o].cap = 0 => ring[o].wp = 0 /\ ring[o].rp = 0 /\ \A q \in Procs : ~Storing(q, o)
      BY <1>4 DEF IInv, CapIsFirst
    <3>2. x.cap = 0 => ring[o].cap = 0
      BY <1>5, Constants
    <3> QED BY <1>5, <3>1, <3>2
  <2>2. \A y \in Objects \ {o} : ring'[y].cap = 0 =>
          ring'[y].wp = 0 /\ ring'[y].rp = 0 /\ \A q \in Procs : ~Storing(q, y)
    BY <1>8 DEF IInv, CapIsFirst
  <2>3. ASSUME NEW y \in Objects, ring'[y].cap = 0
        PROVE  /\ ring'[y].wp = 0 /\ ring'[y].rp = 0
               /\ \A q \in Procs : ~Storing(q, y)
    BY <1>8, <2>1, <2>2, <2>3
  <2>4. \A y \in Objects : (\A q \in Procs : ~Storing(q, y)) => \A q \in Procs : ~Storing(q, y)'
    BY <1>10
  <2> HIDE DEF o
  <2> QED BY <2>3, <2>4 DEF CapIsFirst
<1>12. ASSUME NEW y \in Objects \ early, ~(Unfinished(y) /\ InUse(y))'
       PROVE  Sound(y)'
  <2>1. CASE y # o
    <3>1. SameRing(y)
      BY <1>8, <2>1 DEF SameRing
    <3> QED BY <1>2, <1>10, <1>12, <3>1, StaysSound DEF IInv
  <2>2. CASE y = o
    <3>1. Sound(y) /\ Unfinished(y) /\ ~InUse(y)
      BY <1>2, <1>3, <1>4, <2>2 DEF IInv, Sound, Unfinished
    <3>2. accepted[y] = <<>> /\ ring[y].wp = 0 /\ ring[y].rp = 0
      <4>1. ring[y].wp \in Nat /\ ring[y].rp \in Nat
        BY <1>4, <2>2 DEF Rings
      <4> QED BY <3>1, <4>1 DEF InUse, Sound, IndicesHold
    <3>3. ring'[y].wp = 0 /\ ring'[y].rp = 0 /\ ring'[y].buf = ring[y].buf
      BY <1>5, <1>8, <2>2, <3>2
    <3>4. "writer" \in Procs /\ "reader" \in Procs
      BY DEF Procs
    <3>5. ~Storing("writer", y) /\ ~Storing("reader", y)
      BY <3>1, <3>2 DEF InUse, Storing, Sound, StoresHold
    <3>6. ~Storing("writer", y)' /\ ~Storing("reader", y)'
      BY <1>10, <3>4, <3>5
    <3>7. ~InUse(y)'
      BY <1>2, <3>2, <3>6 DEF InUse, Storing
    <3> HIDE DEF o
    <3>8. Carried(y)'
      BY <1>2, <3>1, <3>2, <3>3 DEF Sound, Carried
    <3>9. IndicesHold(y)'
      BY <3>3, <3>7, Constants DEF IndicesHold
    <3>10. StoresHold(y)'
      BY <3>6 DEF StoresHold
    <3> QED BY <3>7, <3>8, <3>9, <3>10 DEF Sound
  <2> QED BY <2>1, <2>2
<1> QED BY <1>7, <1>9, <1>11, <1>12

-----------------------------------------------------------------------------
(* The ring.                                                               *)

(* Whoever reaches the copy has a ring with its capacity.                  *)
LEMMA CapIsSet ==
  ASSUME IInv, NEW o \in Objects,
         \/ ring[o].wp - ring[o].rp # ring[o].cap
         \/ ring[o].wp # ring[o].rp
         \/ \E q \in Procs : Storing(q, o)
  PROVE  ring[o].cap = ShmCap
<1>1. ring[o].cap \in {0, ShmCap} /\ ring[o].wp \in Nat /\ ring[o].rp \in Nat
  BY Numbers DEF IInv
<1>2. ring[o].cap = 0 => ring[o].wp = 0 /\ ring[o].rp = 0 /\ \A q \in Procs : ~Storing(q, o)
  BY DEF IInv, CapIsFirst
<1>3. ring[o].cap # 0
  BY <1>2
<1> QED BY <1>1, <1>3

(* A step on object o of a process that is there: what stays of the rest.  *)
LEMMA OtherObjects ==
  ASSUME IInv, NEW p \in Procs, NEW o \in Objects, NEW r \in States, Goto(p, r),
         proc[p].obj = o, proc[p].pc \in {"ready", "store"},
         r.pc \in {"ready", "store"}, r.obj = o, r.creator = proc[p].creator,
         ring' \in [Objects -> Rings], ring'[o].cap = ShmCap,
         \A y \in Objects \ {o} : ring'[y] = ring[y],
         \A y \in Objects \ {o} : accepted'[y] = accepted[y] /\ taken'[y] = taken[y],
         accepted' \in [Objects -> Seq(Nat)], taken' \in [Objects -> Seq(Nat)],
         UNCHANGED <<name, objects, starts>>
  PROVE  /\ TypeOK' /\ ProcsAreSound' /\ CapIsFirst'
         /\ \A y \in Objects \ early : ~(Unfinished(y) /\ InUse(y))' /\ y # o => Sound(y)'
         /\ \A q \in Procs \ {p} : proc'[q] = proc[q]
         /\ proc'[p] = r
<1>1. /\ proc' \in [Procs -> States] /\ keeps' \in BOOLEAN /\ ProcsAreSound'
  BY MoveTypes DEF IInv
<1>2. proc'[p] = r /\ \A q \in Procs \ {p} : proc'[q] = proc[q]
  BY Updates DEF IInv
<1>3. TypeOK'
  BY <1>1 DEF IInv, TypeOK
<1>4. \A y \in Objects \ {o} : \A q \in Procs :
        Storing(q, y)' => Storing(q, y) /\ proc'[q] = proc[q]
  BY <1>2 DEF Storing
<1>5. CapIsFirst'
  <2>1. ASSUME NEW y \in Objects, ring'[y].cap = 0
        PROVE  ring'[y].wp = 0 /\ ring'[y].rp = 0 /\ \A q \in Procs : ~Storing(q, y)'
    <3>1. y # o
      BY <2>1, Constants
    <3>2. ring[y].wp = 0 /\ ring[y].rp = 0 /\ \A q \in Procs : ~Storing(q, y)
      BY <2>1, <3>1 DEF IInv, CapIsFirst
    <3> QED BY <1>4, <3>1, <3>2
  <2> QED BY <2>1 DEF CapIsFirst
<1>6. ASSUME NEW y \in Objects \ early, ~(Unfinished(y) /\ InUse(y))', y # o
      PROVE  Sound(y)'
  <2>1. SameRing(y)
    BY <1>6 DEF SameRing
  <2> QED BY <1>4, <1>6, <2>1, StaysSound DEF IInv
<1> QED BY <1>1, <1>2, <1>3, <1>5, <1>6

LEMMA WriteKeeps ==
  ASSUME IInv, Write
  PROVE  /\ TypeOK' /\ ProcsAreSound' /\ CapIsFirst'
         /\ \A y \in Objects \ early : ~(Unfinished(y) /\ InUse(y))' => Sound(y)'
<1> DEFINE p == "writer"
           r == [proc[p] EXCEPT !.pc = "store", !.next = ring[proc[p].obj].wp + 1]
<1>1. PICK o \in Objects : o = proc[p].obj
  BY DEF Write, IInv, ProcsAreSound, Procs
<1>2. /\ proc[p].pc = "ready" /\ ring[o].wp - ring[o].rp # ring[o].cap
      /\ ring' = [ring EXCEPT ![o].buf[ring[o].wp % ring[o].cap] = Len(accepted[o]) + 1]
      /\ Goto(p, r) /\ UNCHANGED <<name, objects, starts, accepted, taken>>
  BY <1>1 DEF Write
<1>3. /\ ring[o] \in Rings /\ ring[o].wp \in Nat /\ ring[o].rp \in Nat /\ ring[o].cap = ShmCap
      /\ ring[o].buf \in [Cells -> Nat] /\ Len(accepted[o]) \in Nat /\ Len(taken[o]) \in Nat
      /\ ring[o].wp % ShmCap \in Cells
  BY <1>2, Numbers, CapIsSet, CellRange DEF IInv
<1> DEFINE x == [ring[o] EXCEPT !.buf = [ring[o].buf EXCEPT ![ring[o].wp % ShmCap] =
                                           Len(accepted[o]) + 1]]
<1>4. /\ x \in Rings /\ x.wp = ring[o].wp /\ x.rp = ring[o].rp /\ x.cap = ShmCap
      /\ x.buf[ring[o].wp % ShmCap] = Len(accepted[o]) + 1
      /\ \A c \in Cells : c # ring[o].wp % ShmCap => x.buf[c] = ring[o].buf[c]
  BY <1>3 DEF Rings
<1>5. ring' = [ring EXCEPT ![o] = x]
  BY <1>2, <1>3
<1> HIDE DEF x
<1>6. /\ ring' \in [Objects -> Rings] /\ ring'[o] = x
      /\ \A y \in Objects \ {o} : ring'[y] = ring[y]
  BY <1>4, <1>5, RingUpdate DEF IInv
<1>7. /\ p \in Procs /\ r \in States /\ r.pc = "store" /\ r.obj = o
      /\ r.creator = proc[p].creator /\ r.next = ring[o].wp + 1
  <2>1. p \in Procs /\ proc[p] \in States /\ o = proc[p].obj
    BY <1>1 DEF Procs, IInv, TypeOK
  <2> DEFINE n == ring[proc[p].obj].wp + 1
  <2>2. n \in Nat /\ n = ring[o].wp + 1 /\ r = [proc[p] EXCEPT !.pc = "store", !.next = n]
    BY <1>3, <2>1
  <2> HIDE DEF n, r, p
  <2> QED BY <2>1, <2>2 DEF States, Points
<1> HIDE DEF r
<1>8. accepted' \in [Objects -> Seq(Nat)] /\ taken' \in [Objects -> Seq(Nat)]
  BY <1>2 DEF IInv, TypeOK
<1>9. /\ TypeOK' /\ ProcsAreSound' /\ CapIsFirst'
      /\ \A y \in Objects \ early : ~(Unfinished(y) /\ InUse(y))' /\ y # o => Sound(y)'
      /\ \A q \in Procs \ {p} : proc'[q] = proc[q]
      /\ proc'[p] = r
  <2> HIDE DEF p
  <2>1. /\ proc[p].obj = o /\ proc[p].pc \in {"ready", "store"} /\ r.pc \in {"ready", "store"}
        /\ ring'[o].cap = ShmCap
    BY <1>1, <1>2, <1>4, <1>6, <1>7
  <2>2. /\ \A y \in Objects \ {o} : accepted'[y] = accepted[y] /\ taken'[y] = taken[y]
        /\ UNCHANGED <<name, objects, starts>> /\ Goto(p, r)
    BY <1>2
  <2> QED BY <1>6, <1>7, <1>8, <2>1, <2>2, OtherObjects
<1>10. ASSUME o \notin early, ~(Unfinished(o) /\ InUse(o))'
       PROVE  Sound(o)'
  <2>1. Carried(o) /\ IndicesHold(o) /\ StoresHold(o)
    BY <1>10 DEF IInv, Sound
  <2>2. ring[o].rp <= ring[o].wp /\ ring[o].wp < ring[o].rp + ShmCap
    <3>1. ring[o].rp <= ring[o].wp /\ ring[o].wp <= ring[o].rp + ShmCap
      BY <2>1 DEF IndicesHold
    <3>2. ring[o].wp - ring[o].rp # ShmCap
      BY <1>2, <1>3
    <3>3. ring[o].wp \in Nat /\ ring[o].rp \in Nat /\ ShmCap \in Nat
      BY <1>3, Constants
    <3> QED BY <3>1, <3>2, <3>3
  <2>3. \A a \in Nat : ring[o].rp <= a /\ a < ring[o].wp =>
          x.buf[a % ShmCap] = ring[o].buf[a % ShmCap]
    <3>1. ASSUME NEW a \in Nat, ring[o].rp <= a, a < ring[o].wp
          PROVE  x.buf[a % ShmCap] = ring[o].buf[a % ShmCap]
      <4>1. ring[o].wp < a + ShmCap
        BY <1>3, <2>2, <3>1, Constants
      <4>2. a % ShmCap # ring[o].wp % ShmCap /\ a % ShmCap \in Cells
        BY <1>3, <3>1, <4>1, CellsDiffer, CellRange
      <4> QED BY <1>4, <4>2
    <3> QED BY <3>1
  <2>4. Carried(o)'
    <3>1. ASSUME NEW i \in 1..x.wp - x.rp
          PROVE  accepted[o][Len(taken[o]) + i] = x.buf[(x.rp + i - 1) % ShmCap]
      <4>1. i \in 1..ring[o].wp - ring[o].rp
        BY <1>4, <3>1
      <4> DEFINE a == ring[o].rp + i - 1
      <4>2. a \in Nat /\ ring[o].rp <= a /\ a < ring[o].wp /\ x.rp + i - 1 = a
        BY <1>3, <1>4, <4>1
      <4>3. accepted[o][Len(taken[o]) + i] = ring[o].buf[a % ShmCap]
        BY <2>1, <4>1 DEF Carried
      <4> HIDE DEF a
      <4> QED BY <2>3, <4>2, <4>3
    <3>2. /\ Len(accepted[o]) = Len(taken[o]) + (x.wp - x.rp)
          /\ \A i \in 1..Len(taken[o]) : accepted[o][i] = taken[o][i]
      BY <1>4, <2>1 DEF Carried
    <3>3. ring'[o] = x /\ accepted' = accepted /\ taken' = taken
      BY <1>2, <1>6
    <3> QED BY <3>1, <3>2, <3>3 DEF Carried
  <2>5. IndicesHold(o)'
    BY <1>2, <1>4, <1>6, <2>1 DEF IndicesHold
  <2>6. StoresHold(o)'
    <3>1. /\ proc'["writer"].next = x.wp + 1 /\ x.wp < x.rp + ShmCap
          /\ x.buf[x.wp % ShmCap] = Len(accepted[o]) + 1
      BY <1>4, <1>7, <1>9, <2>2
    <3>2. proc'["reader"] = proc["reader"]
      BY <1>9 DEF Procs
    <3>3. Storing("reader", o) =>
            /\ proc["reader"].next = x.rp + 1 /\ x.rp < x.wp
            /\ proc["reader"].item = x.buf[x.rp % ShmCap]
      <4>1. SUFFICES ASSUME Storing("reader", o)
                     PROVE  /\ proc["reader"].next = x.rp + 1 /\ x.rp < x.wp
                            /\ proc["reader"].item = x.buf[x.rp % ShmCap]
        OBVIOUS
      <4>2. /\ proc["reader"].next = ring[o].rp + 1 /\ ring[o].rp < ring[o].wp
            /\ proc["reader"].item = ring[o].buf[ring[o].rp % ShmCap]
        BY <2>1, <4>1 DEF StoresHold
      <4>3. x.buf[ring[o].rp % ShmCap] = ring[o].buf[ring[o].rp % ShmCap]
        BY <1>3, <2>3, <4>2
      <4> QED BY <1>4, <4>2, <4>3
    <3> QED BY <1>2, <1>6, <3>1, <3>2, <3>3 DEF StoresHold, Storing
  <2> QED BY <1>10, <2>4, <2>5, <2>6 DEF Sound
<1> QED BY <1>9, <1>10

LEMMA WriteStoreKeeps ==
  ASSUME IInv, WriteStore
  PROVE  /\ TypeOK' /\ ProcsAreSound' /\ CapIsFirst'
         /\ \A y \in Objects \ early : ~(Unfinished(y) /\ InUse(y))' => Sound(y)'
<1> DEFINE p == "writer"
           r == [proc[p] EXCEPT !.pc = "ready", !.next = 0]
           n == proc[p].next
<1>1. PICK o \in Objects : o = proc[p].obj
  BY DEF WriteStore, IInv, ProcsAreSound, Procs
<1>2. /\ proc[p].pc = "store"
      /\ ring' = [ring EXCEPT ![o].wp = n]
      /\ accepted' = [accepted EXCEPT ![o] = Append(@, Len(@) + 1)]
      /\ Goto(p, r) /\ UNCHANGED <<name, objects, starts, taken>>
  BY <1>1 DEF WriteStore
<1>3. Storing(p, o) /\ p \in Procs
  BY <1>1, <1>2 DEF Storing, Procs
<1>4. /\ ring[o] \in Rings /\ ring[o].wp \in Nat /\ ring[o].rp \in Nat /\ ring[o].cap = ShmCap
      /\ accepted[o] \in Seq(Nat) /\ Len(accepted[o]) \in Nat /\ Len(taken[o]) \in Nat
      /\ n \in Nat
  <2>1. ring[o].cap = ShmCap
    BY <1>3, CapIsSet
  <2>2. n \in Nat
    BY <1>3 DEF IInv, TypeOK, States
  <2> QED BY <2>1, <2>2, Numbers DEF IInv
<1> DEFINE x == [ring[o] EXCEPT !.wp = n]
           s == Append(accepted[o], Len(accepted[o]) + 1)
<1>5. /\ x \in Rings /\ x.wp = n /\ x.rp = ring[o].rp /\ x.cap = ShmCap
      /\ x.buf = ring[o].buf
  <2> HIDE DEF n
  <2> QED BY <1>4 DEF Rings
<1>6. /\ s \in Seq(Nat) /\ Len(s) = Len(accepted[o]) + 1
      /\ \A i \in 1..Len(accepted[o]) : s[i] = accepted[o][i]
      /\ s[Len(accepted[o]) + 1] = Len(accepted[o]) + 1
  BY <1>4
<1>7. ring' = [ring EXCEPT ![o] = x] /\ accepted' = [accepted EXCEPT ![o] = s]
  BY <1>2
<1>8. /\ p \in Procs /\ r \in States /\ r.pc = "ready" /\ r.obj = o
      /\ r.creator = proc[p].creator
  <2>1. p \in Procs /\ proc[p] \in States /\ o = proc[p].obj
    BY <1>1 DEF Procs, IInv, TypeOK
  <2> HIDE DEF p
  <2> QED BY <2>1 DEF States, Points
<1> HIDE DEF x, r, n, s
<1>9. /\ ring' \in [Objects -> Rings] /\ ring'[o] = x
      /\ \A y \in Objects \ {o} : ring'[y] = ring[y]
  BY <1>5, <1>7, RingUpdate DEF IInv
<1>10. /\ accepted' \in [Objects -> Seq(Nat)] /\ taken' \in [Objects -> Seq(Nat)]
       /\ accepted'[o] = s /\ \A y \in Objects \ {o} : accepted'[y] = accepted[y]
       /\ taken' = taken
  BY <1>2, <1>6, <1>7 DEF IInv, TypeOK
<1>11. /\ TypeOK' /\ ProcsAreSound' /\ CapIsFirst'
       /\ \A y \in Objects \ early : ~(Unfinished(y) /\ InUse(y))' /\ y # o => Sound(y)'
       /\ \A q \in Procs \ {p} : proc'[q] = proc[q]
       /\ proc'[p] = r
  <2> HIDE DEF p
  <2>1. /\ proc[p].obj = o /\ proc[p].pc \in {"ready", "store"} /\ r.pc \in {"ready", "store"}
        /\ ring'[o].cap = ShmCap
    BY <1>1, <1>2, <1>5, <1>8, <1>9
  <2>2. /\ \A y \in Objects \ {o} : accepted'[y] = accepted[y] /\ taken'[y] = taken[y]
        /\ UNCHANGED <<name, objects, starts>> /\ Goto(p, r)
    BY <1>2, <1>10
  <2> QED BY <1>8, <1>9, <1>10, <2>1, <2>2, OtherObjects
<1>12. ASSUME o \notin early, ~(Unfinished(o) /\ InUse(o))'
       PROVE  Sound(o)'
  <2>1. Carried(o) /\ IndicesHold(o) /\ StoresHold(o)
    BY <1>12 DEF IInv, Sound
  <2>2. /\ n = ring[o].wp + 1 /\ ring[o].wp < ring[o].rp + ShmCap /\ ring[o].rp <= ring[o].wp
        /\ ring[o].buf[ring[o].wp % ShmCap] = Len(accepted[o]) + 1
    BY <1>3, <2>1 DEF StoresHold, IndicesHold, n
  <2>3. /\ Len(accepted[o]) = Len(taken[o]) + (ring[o].wp - ring[o].rp)
        /\ \A i \in 1..Len(taken[o]) : accepted[o][i] = taken[o][i]
        /\ \A i \in 1..ring[o].wp - ring[o].rp :
             accepted[o][Len(taken[o]) + i] = ring[o].buf[(ring[o].rp + i - 1) % ShmCap]
    BY <2>1 DEF Carried
  <2>4. ring'[o] = x /\ accepted'[o] = s /\ taken'[o] = taken[o]
    BY <1>9, <1>10
  <2> DEFINE w == ring[o].wp
             d == ring[o].rp
             l == Len(accepted[o])
             m == Len(taken[o])
  <2>8. /\ w \in Nat /\ d \in Nat /\ l \in Nat /\ m \in Nat
        /\ x.wp = w + 1 /\ x.rp = d /\ d <= w /\ l = m + (w - d) /\ Len(s) = l + 1
    BY <1>4, <1>5, <1>6, <2>2, <2>3
  <2>5. Carried(o)'
    <3> HIDE DEF w, d, l, m
    <3>1. Len(s) = Len(taken[o]) + (x.wp - x.rp)
      <4> DEFINE k == Len(s)
                 v == x.wp
                 u == x.rp
      <4>1. k = l + 1 /\ v = w + 1 /\ u = d
        BY <2>8
      <4> HIDE DEF k, v, u
      <4>2. k = m + (v - u)
        BY <2>8, <4>1
      <4> QED BY <4>2 DEF k, v, u, m
    <3>2. \A i \in 1..Len(taken[o]) : s[i] = taken[o][i]
      <4>1. \A i \in 1..m : i \in 1..l
        BY <2>8
      <4> QED BY <1>6, <2>3, <4>1 DEF l, m
    <3>3. ASSUME NEW i \in 1..x.wp - x.rp
          PROVE  s[Len(taken[o]) + i] = x.buf[(x.rp + i - 1) % ShmCap]
      <4>1. i \in 1..ring[o].wp + 1 - ring[o].rp
        <5> DEFINE v == x.wp
                   u == x.rp
        <5>1. i \in 1..v - u /\ v = w + 1 /\ u = d
          BY <2>8, <3>3
        <5> HIDE DEF v, u
        <5>2. i \in 1..w + 1 - d
          BY <2>8, <5>1
        <5> QED BY <5>2 DEF w, d
      <4>2. CASE i <= ring[o].wp - ring[o].rp
        <5>1. i \in 1..ring[o].wp - ring[o].rp /\ Len(taken[o]) + i \in 1..Len(accepted[o])
          BY <1>4, <2>3, <4>1, <4>2
        <5> QED BY <1>5, <1>6, <2>3, <5>1
      <4>3. CASE i = ring[o].wp + 1 - ring[o].rp
        <5>1. Len(taken[o]) + i = Len(accepted[o]) + 1 /\ x.rp + i - 1 = ring[o].wp
          <6>1. i = w + 1 - d
            BY <4>3 DEF w, d
          <6>2. m + i = l + 1 /\ d + i - 1 = w
            BY <2>8, <6>1
          <6> QED BY <2>8, <6>2 DEF w, d, l, m
        <5> QED BY <1>5, <1>6, <2>2, <5>1
      <4>4. i \in 1..w + 1 - d => i <= w - d \/ i = w + 1 - d
        BY <2>8
      <4> QED BY <4>1, <4>2, <4>3, <4>4 DEF w, d
    <3> QED BY <2>4, <3>1, <3>2, <3>3 DEF Carried
  <2>6. IndicesHold(o)'
    <3>1. x.rp <= x.wp /\ x.wp <= x.rp + ShmCap
      BY <1>4, <1>5, <2>2, Constants
    <3>2. s # <<>>
      BY <1>4, <1>6
    <3> QED BY <1>5, <2>4, <3>1, <3>2 DEF IndicesHold
  <2>7. StoresHold(o)'
    <3>1. ~Storing("writer", o)'
      BY <1>8, <1>11 DEF Storing
    <3>2. proc'["reader"] = proc["reader"]
      BY <1>11 DEF Procs
    <3>3. Storing("reader", o) =>
            /\ proc["reader"].next = x.rp + 1 /\ x.rp < x.wp
            /\ proc["reader"].item = x.buf[x.rp % ShmCap]
      BY <1>4, <1>5, <2>1, <2>2 DEF StoresHold
    <3> QED BY <2>4, <3>1, <3>2, <3>3 DEF StoresHold, Storing
  <2> QED BY <1>12, <2>5, <2>6, <2>7 DEF Sound
<1> QED BY <1>11, <1>12

LEMMA ReadKeeps ==
  ASSUME IInv, Read
  PROVE  /\ TypeOK' /\ ProcsAreSound' /\ CapIsFirst'
         /\ \A y \in Objects \ early : ~(Unfinished(y) /\ InUse(y))' => Sound(y)'
<1> DEFINE p == "reader"
<1>1. PICK o \in Objects : o = proc[p].obj
  BY DEF Read, IInv, ProcsAreSound, Procs
<1> DEFINE n == ring[o].rp + 1
           c == ring[o].buf[ring[o].rp % ring[o].cap]
           r == [proc[p] EXCEPT !.pc = "store", !.next = n, !.item = c]
<1>2. /\ proc[p].pc = "ready" /\ ring[o].wp # ring[o].rp
      /\ Goto(p, r) /\ UNCHANGED <<name, objects, ring, starts, accepted, taken>>
  BY <1>1 DEF Read, Rest
<1>3. /\ ring[o] \in Rings /\ ring[o].wp \in Nat /\ ring[o].rp \in Nat /\ ring[o].cap = ShmCap
      /\ ring[o].buf \in [Cells -> Nat]
  BY <1>2, Numbers, CapIsSet DEF IInv
<1>4. n \in Nat /\ n = ring[o].rp + 1 /\ c \in Nat /\ c = ring[o].buf[ring[o].rp % ShmCap]
  BY <1>3, CellRange
<1> HIDE DEF n, c
<1>5. /\ p \in Procs /\ r \in States /\ r.pc = "store" /\ r.obj = o
      /\ r.creator = proc[p].creator /\ r.next = n /\ r.item = c
  <2>1. p \in Procs /\ proc[p] \in States /\ o = proc[p].obj
    BY <1>1 DEF Procs, IInv, TypeOK
  <2> HIDE DEF p
  <2> QED BY <1>4, <2>1 DEF States, Points
<1> HIDE DEF r
<1>6. /\ accepted' \in [Objects -> Seq(Nat)] /\ taken' \in [Objects -> Seq(Nat)]
      /\ ring' \in [Objects -> Rings]
  BY <1>2 DEF IInv, TypeOK
<1>7. /\ TypeOK' /\ ProcsAreSound' /\ CapIsFirst'
      /\ \A y \in Objects \ early : ~(Unfinished(y) /\ InUse(y))' /\ y # o => Sound(y)'
      /\ \A q \in Procs \ {p} : proc'[q] = proc[q]
      /\ proc'[p] = r
  <2> HIDE DEF p
  <2>1. /\ proc[p].obj = o /\ proc[p].pc \in {"ready", "store"} /\ r.pc \in {"ready", "store"}
        /\ ring'[o].cap = ShmCap
    BY <1>1, <1>2, <1>3, <1>5
  <2>2. /\ \A y \in Objects \ {o} : accepted'[y] = accepted[y] /\ taken'[y] = taken[y]
        /\ \A y \in Objects \ {o} : ring'[y] = ring[y]
        /\ UNCHANGED <<name, objects, starts>> /\ Goto(p, r)
    BY <1>2
  <2> QED BY <1>5, <1>6, <2>1, <2>2, OtherObjects
<1>8. ASSUME o \notin early, ~(Unfinished(o) /\ InUse(o))'
      PROVE  Sound(o)'
  <2>1. Carried(o) /\ IndicesHold(o) /\ StoresHold(o)
    BY <1>8 DEF IInv, Sound
  <2>2. ring[o].rp < ring[o].wp
    BY <1>2, <1>3, <2>1 DEF IndicesHold
  <2>3. ring' = ring /\ accepted' = accepted /\ taken' = taken
    BY <1>2
  <2>4. proc'["writer"] = proc["writer"]
    BY <1>7 DEF Procs
  <2>5. Carried(o)'
    BY <2>1, <2>3 DEF Carried
  <2>6. IndicesHold(o)'
    BY <2>1, <2>3, <2>4 DEF IndicesHold, InUse
  <2>7. StoresHold(o)'
    <3>1. /\ proc'["reader"].next = ring[o].rp + 1
          /\ proc'["reader"].item = ring[o].buf[ring[o].rp % ShmCap]
      BY <1>4, <1>5, <1>7
    <3> QED BY <2>1, <2>2, <2>3, <2>4, <3>1 DEF StoresHold, Storing
  <2> QED BY <1>8, <2>5, <2>6, <2>7 DEF Sound
<1> QED BY <1>7, <1>8

LEMMA ReadStoreKeeps ==
  ASSUME IInv, ReadStore
  PROVE  /\ TypeOK' /\ ProcsAreSound' /\ CapIsFirst'
         /\ \A y \in Objects \ early : ~(Unfinished(y) /\ InUse(y))' => Sound(y)'
<1> DEFINE p == "reader"
           r == [proc[p] EXCEPT !.pc = "ready", !.next = 0, !.item = 0]
           n == proc[p].next
           c == proc[p].item
<1>1. PICK o \in Objects : o = proc[p].obj
  BY DEF ReadStore, IInv, ProcsAreSound, Procs
<1>2. /\ proc[p].pc = "store"
      /\ ring' = [ring EXCEPT ![o].rp = n]
      /\ taken' = [taken EXCEPT ![o] = Append(@, c)]
      /\ Goto(p, r) /\ UNCHANGED <<name, objects, starts, accepted>>
  BY <1>1 DEF ReadStore
<1>3. Storing(p, o) /\ p \in Procs
  BY <1>1, <1>2 DEF Storing, Procs
<1>4. /\ ring[o] \in Rings /\ ring[o].wp \in Nat /\ ring[o].rp \in Nat /\ ring[o].cap = ShmCap
      /\ taken[o] \in Seq(Nat) /\ Len(accepted[o]) \in Nat /\ Len(taken[o]) \in Nat
      /\ n \in Nat /\ c \in Nat
  <2>1. ring[o].cap = ShmCap
    BY <1>3, CapIsSet
  <2>2. n \in Nat /\ c \in Nat
    BY <1>3 DEF IInv, TypeOK, States
  <2> QED BY <2>1, <2>2, Numbers DEF IInv
<1> DEFINE x == [ring[o] EXCEPT !.rp = n]
           s == Append(taken[o], c)
<1>5. /\ x \in Rings /\ x.wp = ring[o].wp /\ x.rp = n /\ x.cap = ShmCap
      /\ x.buf = ring[o].buf
  <2> HIDE DEF n
  <2> QED BY <1>4 DEF Rings
<1>6. /\ s \in Seq(Nat) /\ Len(s) = Len(taken[o]) + 1
      /\ \A i \in 1..Len(taken[o]) : s[i] = taken[o][i]
      /\ s[Len(taken[o]) + 1] = c
  <2> HIDE DEF c
  <2> QED BY <1>4
<1>7. ring' = [ring EXCEPT ![o] = x] /\ taken' = [taken EXCEPT ![o] = s]
  BY <1>2
<1>8. /\ p \in Procs /\ r \in States /\ r.pc = "ready" /\ r.obj = o
      /\ r.creator = proc[p].creator
  <2>1. p \in Procs /\ proc[p] \in States /\ o = proc[p].obj
    BY <1>1 DEF Procs, IInv, TypeOK
  <2> HIDE DEF p
  <2> QED BY <2>1 DEF States, Points
<1> HIDE DEF x, r, n, c, s
<1>9. /\ ring' \in [Objects -> Rings] /\ ring'[o] = x
      /\ \A y \in Objects \ {o} : ring'[y] = ring[y]
  BY <1>5, <1>7, RingUpdate DEF IInv
<1>10. /\ accepted' \in [Objects -> Seq(Nat)] /\ taken' \in [Objects -> Seq(Nat)]
       /\ taken'[o] = s /\ \A y \in Objects \ {o} : taken'[y] = taken[y]
       /\ accepted' = accepted
  BY <1>2, <1>6, <1>7 DEF IInv, TypeOK
<1>11. /\ TypeOK' /\ ProcsAreSound' /\ CapIsFirst'
       /\ \A y \in Objects \ early : ~(Unfinished(y) /\ InUse(y))' /\ y # o => Sound(y)'
       /\ \A q \in Procs \ {p} : proc'[q] = proc[q]
       /\ proc'[p] = r
  <2> HIDE DEF p
  <2>1. /\ proc[p].obj = o /\ proc[p].pc \in {"ready", "store"} /\ r.pc \in {"ready", "store"}
        /\ ring'[o].cap = ShmCap
    BY <1>1, <1>2, <1>5, <1>8, <1>9
  <2>2. /\ \A y \in Objects \ {o} : accepted'[y] = accepted[y] /\ taken'[y] = taken[y]
        /\ UNCHANGED <<name, objects, starts>> /\ Goto(p, r)
    BY <1>2, <1>10
  <2> QED BY <1>8, <1>9, <1>10, <2>1, <2>2, OtherObjects
<1>12. ASSUME o \notin early, ~(Unfinished(o) /\ InUse(o))'
       PROVE  Sound(o)'
  <2>1. Carried(o) /\ IndicesHold(o) /\ StoresHold(o)
    BY <1>12 DEF IInv, Sound
  <2>2. /\ n = ring[o].rp + 1 /\ ring[o].rp < ring[o].wp /\ ring[o].wp <= ring[o].rp + ShmCap
        /\ c = ring[o].buf[ring[o].rp % ShmCap]
    BY <1>3, <2>1 DEF StoresHold, IndicesHold, n, c
  <2>3. /\ Len(accepted[o]) = Len(taken[o]) + (ring[o].wp - ring[o].rp)
        /\ \A i \in 1..Len(taken[o]) : accepted[o][i] = taken[o][i]
        /\ \A i \in 1..ring[o].wp - ring[o].rp :
             accepted[o][Len(taken[o]) + i] = ring[o].buf[(ring[o].rp + i - 1) % ShmCap]
    BY <2>1 DEF Carried
  <2>4. ring'[o] = x /\ taken'[o] = s /\ accepted'[o] = accepted[o]
    BY <1>9, <1>10
  <2> DEFINE w == ring[o].wp
             d == ring[o].rp
             l == Len(accepted[o])
             m == Len(taken[o])
             k == Len(s)
             v == x.wp
             u == x.rp
  <2>5. /\ w \in Nat /\ d \in Nat /\ l \in Nat /\ m \in Nat
        /\ v = w /\ u = d + 1 /\ d < w /\ w <= d + ShmCap /\ l = m + (w - d) /\ k = m + 1
    BY <1>4, <1>5, <1>6, <2>2, <2>3
  <2> HIDE DEF w, d, l, m, k, v, u
  <2>6. Carried(o)'
    <3>1. l = k + (v - u)
      BY <2>5
    <3>2. ASSUME NEW i \in 1..k
          PROVE  accepted[o][i] = s[i]
      <4>1. i \in 1..m \/ i = m + 1
        BY <2>5
      <4>2. CASE i \in 1..m
        BY <1>6, <2>3, <4>2 DEF m
      <4>3. CASE i = m + 1
        <5>1. 1 \in 1..w - d /\ d + 1 - 1 = d
          BY <2>5
        <5>2. accepted[o][m + 1] = ring[o].buf[d % ShmCap]
          BY <2>3, <5>1 DEF w, d, m
        <5> QED BY <1>6, <2>2, <4>3, <5>2 DEF d, m
      <4> QED BY <4>1, <4>2, <4>3
    <3>3. ASSUME NEW i \in 1..v - u
          PROVE  accepted[o][k + i] = x.buf[(u + i - 1) % ShmCap]
      <4> DEFINE j == i + 1
      <4>1. j \in 1..w - d /\ m + j = k + i /\ d + j - 1 = u + i - 1
        BY <2>5
      <4> HIDE DEF j
      <4>2. accepted[o][m + j] = ring[o].buf[(d + j - 1) % ShmCap]
        BY <2>3, <4>1 DEF w, d, m
      <4> QED BY <1>5, <4>1, <4>2
    <3> QED BY <2>4, <3>1, <3>2, <3>3 DEF Carried, l, k, v, u
  <2>7. proc'["writer"] = proc["writer"]
    BY <1>11 DEF Procs
  <2>8. IndicesHold(o)'
    <3>1. u <= v /\ v <= u + ShmCap
      BY <2>5, Constants
    <3>2. accepted[o] = <<>> => v = 0
      BY <2>1, <2>5 DEF IndicesHold, w
    <3> QED BY <1>5, <2>4, <3>1, <3>2 DEF IndicesHold, u, v
  <2>9. StoresHold(o)'
    <3>1. ~Storing("reader", o)'
      BY <1>8, <1>11 DEF Storing
    <3>2. Storing("writer", o) =>
            /\ proc["writer"].next = v + 1 /\ v < u + ShmCap
            /\ x.buf[v % ShmCap] = Len(accepted[o]) + 1
      <4>1. SUFFICES ASSUME Storing("writer", o)
                     PROVE  /\ proc["writer"].next = v + 1 /\ v < u + ShmCap
                            /\ x.buf[v % ShmCap] = Len(accepted[o]) + 1
        OBVIOUS
      <4>2. /\ proc["writer"].next = w + 1 /\ w < d + ShmCap
            /\ x.buf[w % ShmCap] = Len(accepted[o]) + 1
        BY <1>5, <2>1, <4>1 DEF StoresHold, w, d
      <4>3. v < u + ShmCap
        BY <2>5, <4>2, Constants
      <4> QED BY <2>5, <4>2, <4>3
    <3> QED BY <2>4, <2>7, <3>1, <3>2 DEF StoresHold, Storing, u, v
  <2> QED BY <1>12, <2>6, <2>8, <2>9 DEF Sound
<1> QED BY <1>11, <1>12

-----------------------------------------------------------------------------
LEMMA InitIInv == ShmInit => IInv
<1> SUFFICES ASSUME ShmInit PROVE IInv
  OBVIOUS
<1>1. Zeros \in Rings /\ Zeros.wp = 0 /\ Zeros.rp = 0
  BY Constants DEF Zeros, Rings, Cells
<1>2. Out \in States /\ Out.pc = "out" /\ Out.obj = NoObject
  BY OutIsState DEF Out
<1>3. ring = [o \in Objects |-> Zeros] /\ proc = [p \in Procs |-> Out]
  BY DEF ShmInit
<1>4. /\ accepted = [o \in Objects |-> <<>>] /\ taken = [o \in Objects |-> <<>>]
      /\ <<>> \in Seq(Nat)
  BY DEF ShmInit
<1>5. TypeOK
  BY <1>1, <1>2, <1>3, <1>4, Constants DEF ShmInit, TypeOK
<1>6. \A p \in Procs : proc[p] = Out
  BY <1>3
<1>7. ProcsAreSound
  BY <1>2, <1>6 DEF ProcsAreSound
<1>8. CapIsFirst
  BY <1>1, <1>2, <1>3, <1>6 DEF CapIsFirst, Storing
<1>9. ASSUME NEW o \in Objects
      PROVE  Sound(o)
  <2>1. ring[o] = Zeros /\ accepted[o] = <<>> /\ taken[o] = <<>>
    BY <1>3, <1>4
  <2>2. ~Storing("writer", o) /\ ~Storing("reader", o)
    BY <1>2, <1>6 DEF Storing, Procs
  <2>3. ~InUse(o)
    BY <2>1, <2>2 DEF InUse, Storing
  <2>4. Carried(o)
    <3>1. Len(accepted[o]) = 0 /\ Len(taken[o]) = 0 /\ ring[o].wp = 0 /\ ring[o].rp = 0
      BY <1>1, <2>1
    <3> QED BY <3>1 DEF Carried
  <2>5. IndicesHold(o)
    BY <1>1, <2>1, <2>3, Constants DEF IndicesHold
  <2> QED BY <2>2, <2>3, <2>4, <2>5 DEF Sound, StoresHold
<1> QED BY <1>5, <1>7, <1>8, <1>9 DEF IInv

LEMMA NextIInv == IInv /\ [ShmNext]_shmVars => IInv'
<1>1. ASSUME IInv, ShmNext
      PROVE  IInv'
  <2>1. \A y \in Objects \ early' : y \notin early /\ ~(Unfinished(y) /\ InUse(y))'
    BY <1>1 DEF ShmNext
  <2>2. /\ TypeOK' /\ ProcsAreSound' /\ CapIsFirst'
        /\ \A y \in Objects \ early : ~(Unfinished(y) /\ InUse(y))' => Sound(y)'
    <3>1. ASSUME NEW p \in Procs, Quiet(p) \/ InitRing(p)
          PROVE  /\ TypeOK' /\ ProcsAreSound' /\ CapIsFirst'
                 /\ \A y \in Objects \ early : ~(Unfinished(y) /\ InUse(y))' => Sound(y)'
      BY <1>1, <3>1, QuietKeeps, InitRingKeeps
    <3>2. (\E p \in Procs : Quiet(p) \/ InitRing(p)) \/ Write \/ WriteStore \/ Read \/ ReadStore
      BY <1>1 DEF ShmNext, ShmStep, Quiet
    <3> QED BY <1>1, <3>1, <3>2, WriteKeeps, WriteStoreKeeps, ReadKeeps, ReadStoreKeeps
  <2> QED BY <2>1, <2>2 DEF IInv
<1>2. ASSUME IInv, UNCHANGED shmVars
      PROVE  IInv'
  <2>1. /\ keeps' = keeps /\ name' = name /\ objects' = objects /\ ring' = ring
        /\ proc' = proc /\ starts' = starts /\ accepted' = accepted /\ taken' = taken
        /\ early' = early
    BY <1>2 DEF shmVars
  <2>2. TypeOK' /\ ProcsAreSound' /\ CapIsFirst'
    BY <1>2, <2>1 DEF IInv, TypeOK, ProcsAreSound, CapIsFirst, Storing
  <2>3. \A o \in Objects \ early : Sound(o)'
    BY <1>2, <2>1 DEF IInv, Sound, Carried, IndicesHold, StoresHold, Storing, Unfinished, InUse
  <2> QED BY <2>1, <2>2, <2>3 DEF IInv
<1> QED BY <1>1, <1>2

(* In every state an object not in early carries its records, its indices  *)
(* are apart by at most the capacity, and a step begun will store what     *)
(* belongs there: the loads, copies and stores of spsc_write, spsc_read    *)
(* and spsc_init_buf, whoever dies between them.                           *)
THEOREM ShmInvariance == ShmSpec => []IInv
BY InitIInv, NextIInv, PTL DEF ShmSpec

LEMMA RecordsFollow == IInv => RecordsSurvive
<1> SUFFICES ASSUME IInv, NEW o \in Objects \ early
             PROVE  accepted[o] = taken[o] \o
                      [i \in 1..ring[o].wp - ring[o].rp |->
                         ring[o].buf[(ring[o].rp + i - 1) % ShmCap]]
  BY DEF RecordsSurvive
<1> DEFINE n    == ring[o].wp - ring[o].rp
           m    == Len(taken[o])
           live == [i \in 1..n |-> ring[o].buf[(ring[o].rp + i - 1) % ShmCap]]
           sum  == taken[o] \o live
<1>1. /\ ring[o].wp \in Nat /\ ring[o].rp \in Nat /\ ring[o].rp <= ring[o].wp
      /\ ring[o].buf \in [Cells -> Nat] /\ accepted[o] \in Seq(Nat) /\ taken[o] \in Seq(Nat)
      /\ m \in Nat /\ Len(accepted[o]) \in Nat
  BY Numbers DEF IInv, Sound, IndicesHold
<1>2. n \in Nat
  BY <1>1
<1>3. /\ Len(accepted[o]) = m + n
      /\ \A i \in 1..m : accepted[o][i] = taken[o][i]
      /\ \A i \in 1..n : accepted[o][m + i] = live[i]
  BY DEF IInv, Sound, Carried
<1>4. \A i \in 1..n : ring[o].buf[(ring[o].rp + i - 1) % ShmCap] \in Nat
  <2>1. ASSUME NEW i \in 1..n
        PROVE  ring[o].rp + i - 1 \in Nat
    BY <1>1, <1>2, <2>1
  <2> QED BY <1>1, <2>1, CellRange
<1>5. live \in [1..n -> Nat]
  BY <1>4
<1> HIDE DEF live, n
<1>6. live \in Seq(Nat) /\ Len(live) = n
  BY <1>2, <1>5, LenProperties
<1>7. /\ sum \in Seq(Nat) /\ Len(sum) = m + n
      /\ \A i \in 1..m + n : sum[i] = IF i <= m THEN taken[o][i] ELSE live[i - m]
  BY <1>1, <1>6, ConcatProperties
<1> HIDE DEF sum, m
<1>8. ASSUME NEW i \in 1..m + n
      PROVE  accepted[o][i] = sum[i]
  <2>1. CASE i <= m
    <3>1. i \in 1..m
      BY <1>1, <1>2, <2>1
    <3> QED BY <1>3, <1>7, <2>1, <3>1
  <2>2. CASE i > m
    <3>1. i - m \in 1..n /\ m + (i - m) = i
      BY <1>1, <1>2, <2>2
    <3>2. accepted[o][m + (i - m)] = live[i - m]
      BY <1>3, <3>1
    <3> QED BY <1>1, <1>2, <1>7, <2>2, <3>1, <3>2
  <2> QED BY <1>1, <1>2, <2>1, <2>2
<1>9. accepted[o] = sum
  BY <1>1, <1>3, <1>7, <1>8, SeqEqual
<1> QED BY <1>9 DEF sum, live, n

(* Whoever dies and comes back: what was accepted into an object has been  *)
(* read or can be read, once and in order, unless the object was in use    *)
(* before a process that created it had finished shm_init.                 *)
THEOREM RecordsAreKept == ShmSpec => []RecordsSurvive
BY ShmInvariance, RecordsFollow, PTL
=============================================================================
