-------------------------------- MODULE Shm ---------------------------------
(***************************************************************************)
(* shm/shm.h: a writing and a reading process open or create one named     *)
(* object and use the ring in it.  Either may die at any step and be       *)
(* started again; a process that touches an object without a size dies of  *)
(* that.  The ring is the one of Spsc under the policy REJECT, a call in   *)
(* two steps: its loads and copies, and the store of its index.            *)
(*                                                                         *)
(* External: shm_open, ftruncate and mmap may fail.  On Linux an object    *)
(* outlives its processes; on Windows it has a size from the start and     *)
(* goes with its last handle.  Both give its creators the same object.     *)
(***************************************************************************)
EXTENDS Integers, Sequences

CONSTANTS
  ShmCap,      \* records that fit into cfg->cap >> 1 bytes, which is a power of two
  MaxStarts,   \* a bound: processes started
  MaxObjects,  \* a bound: objects created
  MaxRecords   \* a bound: records accepted

ASSUME ShmAssumption ==
  /\ ShmCap \in Nat \ {0}
  /\ MaxStarts \in Nat /\ MaxObjects \in Nat \ {0} /\ MaxRecords \in Nat

Procs   == {"writer", "reader"}
Objects == 1..MaxObjects
NoObject == 0

VARIABLES
  keeps,       \* an object outlives its processes: Linux
  name,        \* the object the name stands for
  objects,     \* objects created so far
  ring,        \* per object: sized, and the fields of spsc_t
  proc,        \* per process: pc, the object, is_creator, the index it will store
  starts,
  accepted, taken,   \* history: per object, the records written and read, in order
  early        \* history: objects written to while a creator had not finished shm_init

shmVars == <<keeps, name, objects, ring, proc, starts, accepted, taken, early>>

Out   == [pc |-> "out", obj |-> NoObject, creator |-> FALSE, next |-> 0, item |-> 0]
Zeros == [sized |-> FALSE, cap |-> 0, wp |-> 0, rp |-> 0, buf |-> [i \in 0..ShmCap-1 |-> 0]]

ShmInit ==
  /\ keeps \in BOOLEAN
  /\ name = NoObject /\ objects = 0
  /\ ring = [o \in Objects |-> Zeros]
  /\ proc = [p \in Procs |-> Out] /\ starts = 0
  /\ accepted = [o \in Objects |-> <<>>] /\ taken = accepted /\ early = {}

(* One process moves to a program point; without its object, if Windows    *)
(* closes the last handle, the name is free again.                         *)
Goto(p, r) ==
  /\ proc' = [proc EXCEPT ![p] = r]
  /\ UNCHANGED keeps
Gone(p) == ~keeps /\ proc[p].obj = name /\ \A q \in Procs \ {p} : proc[q].obj # name

Leave(p) ==
  /\ Goto(p, Out)
  /\ name' = IF Gone(p) THEN NoObject ELSE name
  /\ UNCHANGED <<objects, ring, starts, accepted, taken>>

Rest == UNCHANGED <<name, objects, ring, starts, accepted, taken>>

Open(p) ==
  /\ proc[p].pc = "out" /\ starts < MaxStarts
  /\ starts' = starts + 1
  /\ Goto(p, IF name = NoObject THEN [Out EXCEPT !.pc = "create"]
             ELSE [Out EXCEPT !.pc = "map", !.obj = name])
  /\ UNCHANGED <<name, objects, ring, accepted, taken>>

(* Without O_EXCL: an object that another process has created meanwhile is *)
(* opened, and still counts as created here.                               *)
Create(p) ==
  /\ proc[p].pc = "create"
  /\ IF name # NoObject THEN UNCHANGED <<name, objects, ring>>
     ELSE /\ objects < MaxObjects
          /\ objects' = objects + 1 /\ name' = objects'
          /\ ring' = [ring EXCEPT ![objects'].sized = ~keeps]
  /\ Goto(p, [proc[p] EXCEPT !.pc = IF keeps THEN "size" ELSE "map", !.obj = name',
                             !.creator = TRUE])
  /\ UNCHANGED <<starts, accepted, taken>>

(* ftruncate; when it fails the object stays, and stays without a size.    *)
Size(p) ==
  /\ proc[p].pc = "size"
  /\ \/ /\ Goto(p, [proc[p] EXCEPT !.pc = "map"])
        /\ ring' = [ring EXCEPT ![proc[p].obj].sized = TRUE]
        /\ UNCHANGED <<name, objects, starts, accepted, taken>>
     \/ Leave(p)

(* A mistake: every process initialises the ring it has mapped.            *)
MapAll(p) ==
  /\ proc[p].pc = "map"
  /\ Goto(p, [proc[p] EXCEPT !.pc = "policy"])
  /\ Rest

Map(p) ==
  /\ proc[p].pc = "map"
  /\ Goto(p, [proc[p] EXCEPT !.pc = IF proc[p].creator THEN "policy" ELSE "ready"])
  /\ Rest

(* mmap fails; on Linux a creator then removes whatever has the name.      *)
MapFails(p) ==
  /\ proc[p].pc = "map"
  /\ IF keeps /\ proc[p].creator
     THEN /\ Goto(p, Out) /\ name' = NoObject
          /\ UNCHANGED <<objects, ring, starts, accepted, taken>>
     ELSE Leave(p)

-----------------------------------------------------------------------------
(* spsc_init_buf, store by store.                                          *)
InitStep(p, at, to, r) ==
  /\ proc[p].pc = at
  /\ ring[proc[p].obj].sized
  /\ ring' = [ring EXCEPT ![proc[p].obj] = r]
  /\ Goto(p, [proc[p] EXCEPT !.pc = to])
  /\ UNCHANGED <<name, objects, starts, accepted, taken>>

InitRing(p) ==
  LET r == ring[proc[p].obj] IN
    \/ InitStep(p, "policy", "rp", [r EXCEPT !.cap = ShmCap])
    \/ InitStep(p, "rp", "wp", [r EXCEPT !.rp = 0])
    \/ InitStep(p, "wp", "ready", [r EXCEPT !.wp = 0])

(* A record is refused by a ring without free space; a ring of cap 0 never *)
(* has any.  The subtractions of spsc_policy and spsc_read_buf wrap, so    *)
(* indices out of order do not stop a call.                                *)
Write ==
  LET o == proc["writer"].obj
      r == ring[o]
  IN /\ proc["writer"].pc = "ready" /\ r.sized
     /\ r.wp - r.rp # r.cap
     /\ Len(accepted[o]) < MaxRecords
     /\ ring' = [ring EXCEPT ![o].buf[r.wp % r.cap] = Len(accepted[o]) + 1]
     /\ Goto("writer", [proc["writer"] EXCEPT !.pc = "store", !.next = r.wp + 1])
     /\ UNCHANGED <<name, objects, starts, accepted, taken>>

WriteStore ==
  LET o == proc["writer"].obj IN
     /\ proc["writer"].pc = "store"
     /\ ring' = [ring EXCEPT ![o].wp = proc["writer"].next]
     /\ accepted' = [accepted EXCEPT ![o] = Append(@, Len(@) + 1)]
     /\ Goto("writer", [proc["writer"] EXCEPT !.pc = "ready", !.next = 0])
     /\ UNCHANGED <<name, objects, starts, taken>>

Read ==
  LET o == proc["reader"].obj
      r == ring[o]
  IN /\ proc["reader"].pc = "ready" /\ r.sized
     /\ r.wp # r.rp
     /\ Len(taken[o]) < MaxRecords
     /\ Goto("reader", [proc["reader"] EXCEPT !.pc = "store", !.next = r.rp + 1,
                                              !.item = r.buf[r.rp % r.cap]])
     /\ Rest

ReadStore ==
  LET o == proc["reader"].obj IN
     /\ proc["reader"].pc = "store"
     /\ ring' = [ring EXCEPT ![o].rp = proc["reader"].next]
     /\ taken' = [taken EXCEPT ![o] = Append(@, proc["reader"].item)]
     /\ Goto("reader", [proc["reader"] EXCEPT !.pc = "ready", !.next = 0, !.item = 0])
     /\ UNCHANGED <<name, objects, starts, accepted>>

Die(p) == proc[p].pc # "out" /\ Leave(p)

ShmStep ==
  \/ \E p \in Procs : Open(p) \/ Create(p) \/ Size(p) \/ Map(p) \/ MapFails(p) \/ InitRing(p) \/ Die(p)
  \/ Write \/ WriteStore \/ Read \/ ReadStore

Unfinished(o) == \E p \in Procs : /\ proc[p].obj = o /\ proc[p].creator
                                  /\ proc[p].pc \notin {"ready", "store"}

(* History: an object is in use once a record was written or is being so.  *)
InUse(o) == accepted[o] # <<>> \/ (proc["writer"].pc = "store" /\ proc["writer"].obj = o)

ShmNext ==
  /\ ShmStep
  /\ early' = early \cup {o \in Objects : Unfinished(o)' /\ InUse(o)'}

ShmSpec == ShmInit /\ [][ShmNext]_shmVars

-----------------------------------------------------------------------------
(* Whoever dies and comes back: what was accepted into an object has been  *)
(* read or can still be read, once, in order.  The one exception is an     *)
(* object in use before a process that created it had finished shm_init.   *)
RecordsSurvive ==
  \A o \in Objects \ early :
    accepted[o] = taken[o] \o
      [i \in 1..ring[o].wp - ring[o].rp |-> ring[o].buf[(ring[o].rp + i - 1) % ShmCap]]
=============================================================================
