-------------------------------- MODULE Net ---------------------------------
(***************************************************************************)
(* The asynchronous requests of comm/net.h on Linux (io_uring) and Windows *)
(* (completion ports).  One thread of the application sends and receives,  *)
(* another one polls and runs the callbacks, which start no request.  A    *)
(* request is a block of the memory pool, by the pool's promise (Pool) any *)
(* one that is free; channels in a synchronous mode make no request.       *)
(*                                                                         *)
(* External: io_uring_submit takes every entry of the submission queue,    *)
(* and each entry comes back in one completion.  That it is posted and     *)
(* that it is polled is one step, since nothing looks at it in between.    *)
(***************************************************************************)
EXTENDS Integers

CONSTANTS
  Blocks,      \* of the pool, for requests
  RingLen,     \* ring_len
  Systems,     \* what the code is compiled for
  MaxCalls,    \* a bound: calls of net_async_send and net_async_recv
  NoBlock

Calls == 1..MaxCalls

ASSUME NetAssumption ==
  /\ RingLen \in Nat \ {0} /\ MaxCalls \in Nat /\ NoBlock \notin Blocks
  /\ Systems \subseteq {"linux", "windows"}

VARIABLES
  os,
  free,        \* the blocks in the pool
  req,         \* per block: the call it was last given to, f_cb set, processed, ov.Pointer set
  sqe, tail,   \* per slot: the block and call of its last entry; the number of entries taken
  queued,      \* entries taken but not submitted
  flight,      \* external: the operations under way, [n, blk, call, sure]
  app, poll,   \* the two threads: pc and the request in hand; app: the operation, the next one
  count,       \* calls so far
  called,      \* history: per call, how often its callback ran
  lost,        \* history: blocks whose request will never be seen again
  crashed      \* NULL was dereferenced or called

netVars == <<os, free, req, sqe, tail, queued, flight, app, poll, count, called, lost, crashed>>

Idle == [pc |-> "idle", op |-> "send", then |-> "none", blk |-> NoBlock]

NetInit ==
  /\ os \in Systems
  /\ free = Blocks
  /\ req = [b \in Blocks |-> [call |-> 0, ready |-> FALSE, processed |-> FALSE, pointer |-> FALSE]]
  /\ sqe = [s \in 0..RingLen-1 |-> [blk |-> NoBlock, call |-> 0, sure |-> TRUE]]
  /\ tail = 0 /\ queued = 0 /\ flight = {}
  /\ app = Idle /\ poll = [pc |-> "idle", blk |-> NoBlock]
  /\ count = 0 /\ called = [c \in Calls |-> 0] /\ lost = {} /\ crashed = FALSE

-----------------------------------------------------------------------------
(* net_send, net_recv or net_send_recv on a channel in asynchronous mode;  *)
(* a send takes its submission entry first, or returns -1 without one.     *)
Take(k) == tail' = tail + k /\ queued' = queued + k

Begin(op, then) ==
  /\ count < MaxCalls
  /\ count' = count + 1
  /\ app' = [pc |-> "alloc", op |-> op, then |-> then, blk |-> NoBlock]
  /\ IF os = "linux" /\ op = "send"
     THEN queued < RingLen /\ Take(1) ELSE UNCHANGED <<tail, queued>>
  /\ UNCHANGED <<os, free, req, sqe, flight, poll, called, lost, crashed>>

Call == app.pc = "idle" /\ \E op \in {"send", "recv"}, then \in {"none", "recv"} :
          (op = "recv" => then = "none") /\ Begin(op, then)

CallNext == app.pc = "next" /\ IF count < MaxCalls THEN Begin("recv", "none")
                               ELSE app' = Idle /\ UNCHANGED <<os, free, req, sqe, tail, queued,
                                      flight, poll, count, called, lost, crashed>>

(* A mistake: the block is not cleared.                                    *)
AllocUncleared ==
  /\ app.pc = "alloc"
  /\ IF free = {} THEN app' = Idle /\ UNCHANGED <<free, req>>
     ELSE \E b \in free :
            /\ free' = free \ {b}
            /\ req' = [req EXCEPT ![b].call = count]
            /\ app' = [app EXCEPT !.pc = "fill", !.blk = b]
  /\ UNCHANGED <<os, sqe, tail, queued, flight, poll, count, called, lost, crashed>>

(* mp_calloc; without a block the call ends, and the entry a send has      *)
(* taken stays in the queue as its slot was.                               *)
Alloc ==
  /\ app.pc = "alloc"
  /\ IF free = {} THEN app' = Idle /\ UNCHANGED <<free, req>>
     ELSE \E b \in free :
            /\ free' = free \ {b}
            /\ req' = [req EXCEPT ![b] = [call |-> count, ready |-> FALSE, processed |-> FALSE,
                                          pointer |-> FALSE]]
            /\ app' = [app EXCEPT !.pc = "fill", !.blk = b]
  /\ UNCHANGED <<os, sqe, tail, queued, flight, poll, count, called, lost, crashed>>

Fill ==
  /\ app.pc = "fill"
  /\ req' = [req EXCEPT ![app.blk].ready = TRUE]
  /\ app' = [app EXCEPT !.pc = IF os = "windows" THEN "post"
                               ELSE IF app.op = "send" THEN "submit" ELSE "entries"]
  /\ UNCHANGED <<os, free, sqe, tail, queued, flight, poll, count, called, lost, crashed>>

(* A receive takes two entries.  Without the first it returns and forgets  *)
(* the request; the second is used without a look.                         *)
Entries ==
  /\ app.pc = "entries"
  /\ \/ /\ queued = RingLen
        /\ app' = Idle /\ lost' = lost \cup {app.blk}
        /\ UNCHANGED <<tail, queued, crashed>>
     \/ /\ queued = RingLen - 1
        /\ crashed' = TRUE
        /\ UNCHANGED <<app, lost, tail, queued>>
     \/ /\ queued < RingLen - 1
        /\ Take(2) /\ app' = [app EXCEPT !.pc = "submit"]
        /\ UNCHANGED <<lost, crashed>>
  /\ UNCHANGED <<os, free, req, sqe, flight, poll, count, called>>

Done == app' = IF app.then = "none" THEN Idle ELSE [Idle EXCEPT !.pc = "next"]

Entry(sure) == [blk |-> app.blk, call |-> count, sure |-> sure]
InFlight(n, e) == [n |-> n, blk |-> e.blk, call |-> e.call, sure |-> e.sure]

(* The own entries, the last ones, are prepared, and all are submitted.    *)
Submit ==
  /\ app.pc = "submit"
  /\ sqe' = [s \in 0..RingLen-1 |->
               IF \E n \in tail - (IF app.op = "send" THEN 1 ELSE 2)..tail - 1 : s = n % RingLen
               THEN Entry(TRUE) ELSE sqe[s]]
  /\ flight' = flight \cup {InFlight(n, sqe'[n % RingLen]) : n \in tail - queued..tail - 1}
  /\ queued' = 0
  /\ Done
  /\ UNCHANGED <<os, free, req, tail, poll, count, called, lost, crashed>>

(* WSASend or WSARecv; a receive waits as long as nothing comes, its       *)
(* timeout is not used.                                                    *)
Post ==
  /\ app.pc = "post"
  /\ \/ /\ flight' = flight \cup {InFlight(count, Entry(app.op = "send"))}
        /\ app' = [app EXCEPT !.pc = "pointer"]
        /\ UNCHANGED free
     \/ /\ free' = free \cup {app.blk}
        /\ app' = Idle
        /\ UNCHANGED flight
  /\ UNCHANGED <<os, req, sqe, tail, queued, poll, count, called, lost, crashed>>

Pointer ==
  /\ app.pc = "pointer"
  /\ req' = [req EXCEPT ![app.blk].pointer = TRUE]
  /\ Done
  /\ UNCHANGED <<os, free, sqe, tail, queued, flight, poll, count, called, lost, crashed>>

-----------------------------------------------------------------------------
(* A mistake: every completion runs the callback.                          *)
PollTakeAll(e) ==
  /\ poll.pc = "idle"
  /\ flight' = flight \ {e}
  /\ IF e.blk = NoBlock \/ (os = "windows" /\ ~req[e.blk].pointer)
     THEN /\ lost' = IF e.blk = NoBlock THEN lost ELSE lost \cup {e.blk}
          /\ UNCHANGED <<req, poll>>
     ELSE /\ poll' = [pc |-> "call", blk |-> e.blk]
          /\ UNCHANGED <<req, lost>>
  /\ UNCHANGED <<os, free, sqe, tail, queued, app, count, called, crashed>>

(* net_poll takes a completion.  Without a request in it it is dropped; on *)
(* Windows the request is found by ov.Pointer, which may not be set yet.   *)
(* Otherwise the first one to exchange processed goes on.                  *)
PollTake(e) ==
  /\ poll.pc = "idle"
  /\ flight' = flight \ {e}
  /\ IF e.blk = NoBlock \/ (os = "windows" /\ ~req[e.blk].pointer)
     THEN /\ lost' = IF e.blk = NoBlock THEN lost ELSE lost \cup {e.blk}
          /\ UNCHANGED <<req, poll>>
     ELSE /\ req' = [req EXCEPT ![e.blk].processed = TRUE]
          /\ poll' = IF req[e.blk].processed THEN poll ELSE [pc |-> "call", blk |-> e.blk]
          /\ UNCHANGED lost
  /\ UNCHANGED <<os, free, sqe, tail, queued, app, count, called, crashed>>

(* A mistake: the request is freed before its callback runs.               *)
PollCallLast ==
  /\ poll.pc = "call"
  /\ free' = free \cup {poll.blk} /\ poll' = [poll EXCEPT !.pc = "free"]
  /\ UNCHANGED <<os, req, sqe, tail, queued, flight, app, count, called, lost, crashed>>

PollCall ==
  /\ poll.pc = "call"
  /\ IF req[poll.blk].ready
     THEN /\ called' = [called EXCEPT ![req[poll.blk].call] = @ + 1]
          /\ poll' = [poll EXCEPT !.pc = "free"]
          /\ UNCHANGED crashed
     ELSE crashed' = TRUE /\ UNCHANGED <<called, poll>>
  /\ UNCHANGED <<os, free, req, sqe, tail, queued, flight, app, count, lost>>

PollFree ==
  /\ poll.pc = "free"
  /\ free' = free \cup {poll.blk} /\ poll' = [pc |-> "idle", blk |-> NoBlock]
  /\ UNCHANGED <<os, req, sqe, tail, queued, flight, app, count, called, lost, crashed>>

AppStep  == CallNext \/ Alloc \/ Fill \/ Entries \/ Submit \/ Post \/ Pointer
PollStep == PollCall \/ PollFree

NetNext ==
  /\ ~crashed
  /\ Call \/ AppStep \/ PollStep \/ \E e \in flight : PollTake(e)

(* Calls and polling go on, and every operation that is sure to complete   *)
(* does: one that is sent, and on Linux one that is received or times out. *)
NetFairness ==
  /\ WF_netVars(~crashed /\ AppStep) /\ WF_netVars(~crashed /\ PollStep)
  /\ SF_netVars(~crashed /\ \E e \in flight : e.sure /\ PollTake(e))

NetSpec == NetInit /\ [][NetNext]_netVars /\ NetFairness

-----------------------------------------------------------------------------
(* Whatever completes twice, late or again from a stale queue entry: the   *)
(* callback of a call runs once at most, and a block that is given back is *)
(* not in the pool already.                                                *)
RequestsEndOnce ==
  /\ \A c \in Calls : called[c] <= 1
  /\ poll.pc # "idle" => poll.blk \notin free

(* A completion reaches the callback of its own call, or it is left over   *)
(* from a call whose callback has run, and its block has been given to a   *)
(* new request meanwhile: the second completion of a receive and its       *)
(* timeout, or a stale entry.  It then ends the new request early.  A call *)
(* still waiting for its callback is never confused with another.          *)
OwnCompletionOrLeftover ==
  \A e \in flight : e.blk # NoBlock =>
    e.call = req[e.blk].call \/ called[e.call] = 1

Pending(c) == \E e \in flight : e.call = c /\ e.sure

(* Every request that is submitted has its callback run, unless (Windows)  *)
(* its completion came before ov.Pointer was set, or the process died.     *)
EveryRequestIsCalledBack ==
  \A c \in Calls : Pending(c) ~>
    called[c] = 1 \/ crashed \/ \E b \in lost : req[b].call = c
=============================================================================
