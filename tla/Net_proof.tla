----------------------------- MODULE Net_proof ------------------------------
(***************************************************************************)
(* For any number of blocks, calls and queue entries, on both systems: the *)
(* callback of a call runs once at most, no block is given back twice, and *)
(* a completion belongs to its own call or to one that has had its         *)
(* callback.                                                               *)
(***************************************************************************)
EXTENDS Net, TLAPS

Requests == [call : 0..MaxCalls, ready : BOOLEAN, processed : BOOLEAN, pointer : BOOLEAN]
SlotEntries == [blk : Blocks \cup {NoBlock}, call : 0..MaxCalls, sure : BOOLEAN]
Flights  == [n : Int, blk : Blocks \cup {NoBlock}, call : 0..MaxCalls, sure : BOOLEAN]

Apps     == [pc : {"idle", "next", "alloc", "fill", "entries", "submit", "post", "pointer"},
             op : {"send", "recv"}, then : {"none", "recv"}, blk : Blocks \cup {NoBlock}]
Polls    == [pc : {"idle", "call", "free"}, blk : Blocks \cup {NoBlock}]

TypeOK ==
  /\ os \in {"linux", "windows"}
  /\ free \subseteq Blocks
  /\ req \in [Blocks -> Requests]
  /\ sqe \in [0..RingLen-1 -> SlotEntries] /\ tail \in Int /\ queued \in Int
  /\ flight \subseteq Flights
  /\ app \in Apps /\ poll \in Polls
  /\ count \in 0..MaxCalls
  /\ called \in [Calls -> {0, 1}]

(* What a completion, or a queue entry that may become one, says of its    *)
(* block: it was given to a call, the entry's or a later one, and if it is *)
(* in the pool again that call is over.                                    *)
Sound(e) ==
  e.blk # NoBlock =>
    /\ e.call \in 1..count /\ req[e.blk].call # 0
    /\ e.call = req[e.blk].call \/ called[e.call] = 1
    /\ e.blk \in free => req[e.blk].processed

EntriesSound ==
  /\ \A e \in flight : Sound(e)
  /\ \A s \in 0..RingLen-1 : Sound(sqe[s])

(* A call has one block, and is numbered before it gets it.                *)
CallsDiffer ==
  /\ \A b \in Blocks : req[b].call <= count
  /\ \A b, c \in Blocks : b # c /\ req[b].call = req[c].call => req[b].call = 0
  /\ \A c \in Calls : c > count => called[c] = 0
  /\ app.pc = "alloc" => /\ count > 0 /\ called[count] = 0
                         /\ \A b \in Blocks : req[b].call # count

(* processed is set before the callback runs, and the block goes back to   *)
(* the pool after.                                                         *)
ProcessedOnce ==
  /\ \A b \in Blocks : req[b].call # 0 /\ ~req[b].processed => called[req[b].call] = 0
  /\ \A b \in free : req[b].processed => req[b].call # 0 /\ called[req[b].call] = 1
  /\ poll.pc # "idle" =>
       /\ poll.blk \in Blocks \ free /\ req[poll.blk].processed /\ req[poll.blk].call # 0
       /\ called[req[poll.blk].call] = IF poll.pc = "free" THEN 1 ELSE 0

(* The block in the hand of a call is its own, even if a leftover          *)
(* completion has ended it early.                                          *)
InHand ==
  app.pc \in {"fill", "entries", "submit", "post", "pointer"} =>
    /\ app.blk \in Blocks /\ req[app.blk].call = count /\ count > 0
    /\ app.blk \in free => req[app.blk].processed

(* On Windows a request has one completion, and a block none while it is   *)
(* in the pool, not yet posted, or past its completion.                    *)
Unposted(b) == app.pc \in {"fill", "post"} /\ app.blk = b

WindowsOnce ==
  /\ os = "linux" => app.pc \notin {"post", "pointer"}
  /\ os = "windows" =>
       /\ app.pc \notin {"entries", "submit"}
       /\ \A s \in 0..RingLen-1 : sqe[s].blk = NoBlock
       /\ \A e \in flight :
            /\ e.blk \in Blocks \ free /\ ~req[e.blk].processed /\ ~Unposted(e.blk)
            /\ poll.pc # "idle" => e.blk # poll.blk
       /\ \A e, f \in flight : e.blk = f.blk => e = f
       /\ \A b \in Blocks : Unposted(b) =>
            b \notin free /\ ~req[b].processed /\ (poll.pc # "idle" => b # poll.blk)

IInv == TypeOK /\ EntriesSound /\ CallsDiffer /\ ProcessedOnce /\ InHand /\ WindowsOnce

-----------------------------------------------------------------------------
LEMMA InitIInv == NetInit => IInv
<1> SUFFICES ASSUME NetInit PROVE IInv
  OBVIOUS
<1>0. /\ RingLen \in Nat \ {0} /\ MaxCalls \in Nat /\ NoBlock \notin Blocks
      /\ Systems \subseteq {"linux", "windows"}
  BY NetAssumption
<1> QED BY <1>0 DEF NetInit, Idle, IInv, TypeOK, Requests, SlotEntries, Flights, Apps, Polls, EntriesSound, Sound,
           CallsDiffer, ProcessedOnce, InHand, WindowsOnce, Unposted, Calls

(* The changes of records that the steps make keep their types.            *)
LEMMA AppTyped ==
  ASSUME NEW a \in Apps, NEW b \in Blocks \cup {NoBlock},
         NEW p \in {"idle", "next", "alloc", "fill", "entries", "submit", "post", "pointer"}
  PROVE  /\ [a EXCEPT !.pc = p] \in Apps /\ [a EXCEPT !.pc = p, !.blk = b] \in Apps
         /\ [a EXCEPT !.pc = p].pc = p /\ [a EXCEPT !.pc = p].blk = a.blk
         /\ [a EXCEPT !.pc = p, !.blk = b].pc = p /\ [a EXCEPT !.pc = p, !.blk = b].blk = b
         /\ Idle \in Apps /\ [Idle EXCEPT !.pc = p] \in Apps /\ [Idle EXCEPT !.pc = p].pc = p
BY DEF Apps, Idle

LEMMA RequestTyped ==
  ASSUME NEW r \in [Blocks -> Requests], NEW b \in Blocks
  PROVE  /\ [r EXCEPT ![b].ready = TRUE] \in [Blocks -> Requests]
         /\ [r EXCEPT ![b].pointer = TRUE] \in [Blocks -> Requests]
         /\ [r EXCEPT ![b].processed = TRUE] \in [Blocks -> Requests]
BY DEF Requests

LEMMA NextIInv == IInv /\ [NetNext]_netVars => IInv'
<1> SUFFICES ASSUME IInv, [NetNext]_netVars PROVE IInv'
  OBVIOUS
<1> USE DEF IInv, Calls
<1>0. RingLen \in Nat \ {0} /\ MaxCalls \in Nat /\ NoBlock \notin Blocks
  BY NetAssumption
<1>1. CASE Call
  <2>1. TypeOK'
    BY <1>0, <1>1 DEF Call, Begin, Take, TypeOK, Apps, Requests
  <2>2. EntriesSound'
    BY <1>0, <1>1 DEF Call, Begin, Take, TypeOK, EntriesSound, Sound
  <2>3. CallsDiffer'
    BY <1>0, <1>1 DEF Call, Begin, Take, TypeOK, InHand, Requests, CallsDiffer
  <2>4. ProcessedOnce'
    BY <1>0, <1>1 DEF Call, Begin, Take, ProcessedOnce
  <2>5. InHand'
    BY <1>0, <1>1 DEF Call, Begin, Take, InHand
  <2>6. WindowsOnce'
    BY <1>0, <1>1 DEF Call, Begin, Take, WindowsOnce, Unposted
  <2> QED BY <2>1, <2>2, <2>3, <2>4, <2>5, <2>6
<1>2. CASE CallNext
  <2>0. app' \in Apps /\ count' \in 0..MaxCalls /\ count' >= count
        /\ UNCHANGED <<os, free, req, sqe, flight, poll, called>> /\ tail' \in Int /\ queued' \in Int
    BY <1>0, <1>2 DEF CallNext, Begin, Take, Idle, TypeOK, Apps
  <2>1. TypeOK'
    BY <2>0 DEF TypeOK
  <2>2. EntriesSound'
    BY <2>0 DEF TypeOK, EntriesSound, Sound
  <2>3. CallsDiffer'
    BY <1>0, <1>2 DEF CallNext, Begin, Take, Idle, TypeOK, InHand, Requests, CallsDiffer
  <2>4. ProcessedOnce'
    BY <2>0 DEF TypeOK, ProcessedOnce
  <2>5. InHand'
    BY <1>0, <1>2 DEF CallNext, Begin, Take, Idle, InHand
  <2>6. WindowsOnce'
    BY <1>0, <1>2 DEF CallNext, Begin, Take, Idle, WindowsOnce, Unposted
  <2> QED BY <2>1, <2>2, <2>3, <2>4, <2>5, <2>6
<1>3. CASE Alloc
  <2>1. CASE free = {}
    <3>1. /\ app' = Idle /\ app' \in Apps /\ app'.pc = "idle"
          /\ UNCHANGED <<os, free, req, sqe, tail, queued, flight, poll, count, called>>
      BY <1>3, <2>1 DEF Alloc, Idle, Apps
    <3>2. TypeOK' /\ EntriesSound' /\ ProcessedOnce'
      BY <3>1 DEF TypeOK, EntriesSound, Sound, ProcessedOnce
    <3> QED BY <3>1, <3>2 DEF CallsDiffer, InHand, WindowsOnce, Unposted
  <2>2. CASE free # {}
    <3>1. PICK b \in free :
            /\ free' = free \ {b}
            /\ req' = [req EXCEPT ![b] = [call |-> count, ready |-> FALSE, processed |-> FALSE,
                                          pointer |-> FALSE]]
            /\ app' = [app EXCEPT !.pc = "fill", !.blk = b]
      BY <1>3, <2>2 DEF Alloc
    <3>2. /\ app.pc = "alloc" /\ b \in Blocks
          /\ UNCHANGED <<os, sqe, tail, queued, flight, poll, count, called>>
      BY <1>3, <3>1 DEF Alloc, TypeOK
    <3>3. count \in 1..MaxCalls /\ called[count] = 0 /\ \A c \in Blocks : req[c].call # count
      BY <1>0, <3>2 DEF CallsDiffer, TypeOK
    <3>4. app' \in Apps /\ app'.pc = "fill" /\ app'.blk = b
      <4>1. app \in Apps
        BY DEF TypeOK
      <4> QED BY <3>1, <3>2, <4>1 DEF Apps
    <3>5. /\ req'[b].call = count /\ ~req'[b].processed
          /\ \A c \in Blocks : c # b => req'[c] = req[c]
          /\ req' \in [Blocks -> Requests]
      BY <3>1, <3>2 DEF TypeOK, Requests
    <3>6. TypeOK'
      BY <3>1, <3>2, <3>4, <3>5 DEF TypeOK
    <3>7. ASSUME NEW f, f.blk \in Blocks \cup {NoBlock}, Sound(f) PROVE Sound(f)'
      <4> SUFFICES ASSUME f.blk # NoBlock PROVE Sound(f)'
        BY DEF Sound
      <4>1. CASE f.blk = b
        <5>1. called[f.call] = 1
          BY <1>0, <3>7, <4>1, <3>1 DEF Sound, ProcessedOnce
        <5> QED BY <1>0, <3>7, <4>1, <5>1, <3>1, <3>2, <3>3, <3>5 DEF Sound
      <4>2. CASE f.blk # b
        BY <1>0, <3>7, <4>2, <3>1, <3>2, <3>5 DEF Sound
      <4> QED BY <4>1, <4>2
    <3>8. EntriesSound'
      <4>1. \A f \in flight : f.blk \in Blocks \cup {NoBlock}
        BY DEF TypeOK, Flights
      <4>2. \A s \in 0..RingLen-1 : sqe[s].blk \in Blocks \cup {NoBlock}
        BY DEF TypeOK, SlotEntries
      <4>3. \A f \in flight : Sound(f)'
        BY <3>7, <4>1 DEF EntriesSound
      <4>4. ASSUME NEW s \in 0..RingLen-1 PROVE Sound(sqe[s])'
        <5>1. Sound(sqe[s]) /\ sqe[s].blk \in Blocks \cup {NoBlock} /\ sqe'[s] = sqe[s]
          BY <3>2, <4>2 DEF EntriesSound
        <5> DEFINE f == sqe[s]
        <5>2. /\ f.blk \in Blocks \cup {NoBlock} /\ f.blk # NoBlock => f.blk \in Blocks
              /\ f.blk # NoBlock => /\ f.call \in 1..count
                                    /\ f.call = req[f.blk].call \/ called[f.call] = 1
                                    /\ f.blk \in free => req[f.blk].processed
          BY <5>1 DEF Sound
        <5> HIDE DEF f
        <5>3. f.blk = b => called[f.call] = 1
          BY <1>0, <5>2, <3>1, <3>2 DEF ProcessedOnce
        <5>4. f.blk # NoBlock => /\ f.call \in 1..count /\ req'[f.blk].call # 0
                                 /\ f.call = req'[f.blk].call \/ called[f.call] = 1
                                 /\ f.blk \in free' => req'[f.blk].processed
          BY <1>0, <5>1, <5>2, <5>3, <3>1, <3>2, <3>3, <3>5 DEF Sound, f
        <5> QED BY <5>1, <5>4, <3>2 DEF Sound, f
      <4> QED BY <3>2, <4>3, <4>4 DEF EntriesSound
    <3>9. CallsDiffer'
      BY <1>0, <3>2, <3>3, <3>4, <3>5 DEF CallsDiffer, TypeOK
    <3>10. ProcessedOnce'
      BY <1>0, <3>1, <3>2, <3>3, <3>5 DEF ProcessedOnce, TypeOK
    <3>11. InHand'
      BY <3>1, <3>2, <3>3, <3>4, <3>5 DEF InHand
    <3>12. WindowsOnce'
      BY <3>1, <3>2, <3>4, <3>5 DEF WindowsOnce, Unposted, ProcessedOnce, TypeOK
    <3> QED BY <3>6, <3>8, <3>9, <3>10, <3>11, <3>12
  <2> QED BY <2>1, <2>2
<1>4. CASE Fill
  <2>0. app' \in Apps /\ req' \in [Blocks -> Requests]
    BY <1>4, AppTyped, RequestTyped DEF Fill, TypeOK, InHand
  <2>1. TypeOK'
    BY <1>4, <2>0 DEF Fill, TypeOK
  <2>2. EntriesSound'
    BY <1>0, <1>4 DEF Fill, TypeOK, EntriesSound, Sound
  <2>3. CallsDiffer'
    BY <1>0, <1>4 DEF Fill, CallsDiffer
  <2>4. ProcessedOnce'
    BY <1>0, <1>4 DEF Fill, ProcessedOnce
  <2>5. InHand'
    BY <1>0, <1>4 DEF Fill, InHand
  <2>6. WindowsOnce'
    BY <1>0, <1>4 DEF Fill, WindowsOnce, Unposted
  <2> QED BY <2>1, <2>2, <2>3, <2>4, <2>5, <2>6
<1>5. CASE Entries
  <2>a. /\ app.pc = "entries" /\ UNCHANGED <<os, free, req, sqe, flight, poll, count, called>>
        /\ app' \in {app, Idle, [app EXCEPT !.pc = "submit"]}
        /\ tail' \in {tail, tail + 2} /\ queued' \in {queued, queued + 2}
    BY <1>5 DEF Entries, Take
  <2>b. app \in Apps /\ tail \in Int /\ queued \in Int
    BY DEF TypeOK
  <2>c. /\ app' \in Apps /\ app'.pc \in {"entries", "idle", "submit"}
        /\ app'.pc # "idle" => app'.blk = app.blk
    BY <2>a, <2>b DEF Apps, Idle
  <2>1. TypeOK'
    BY <2>a, <2>b, <2>c DEF TypeOK
  <2>2. EntriesSound'
    BY <2>a DEF EntriesSound, Sound
  <2>3. CallsDiffer'
    BY <2>a, <2>c DEF CallsDiffer
  <2>4. ProcessedOnce'
    BY <2>a DEF ProcessedOnce
  <2>5. InHand'
    BY <2>a, <2>c DEF InHand
  <2>6. WindowsOnce'
    BY <2>a, <2>c DEF WindowsOnce, Unposted
  <2> QED BY <2>1, <2>2, <2>3, <2>4, <2>5, <2>6
<1>6. CASE Submit
  <2> DEFINE own == [blk |-> app.blk, call |-> count, sure |-> TRUE]
             mine(s) == \E n \in tail - (IF app.op = "send" THEN 1 ELSE 2)..tail - 1 : s = n % RingLen
  <2>a. /\ app.pc = "submit" /\ sqe' = [s \in 0..RingLen-1 |-> IF mine(s) THEN own ELSE sqe[s]]
        /\ flight' = flight \cup {[n |-> n, blk |-> sqe'[n % RingLen].blk, call |-> sqe'[n % RingLen].call,
                                    sure |-> sqe'[n % RingLen].sure] : n \in tail - queued..tail - 1}
        /\ queued' = 0 /\ UNCHANGED <<os, free, req, tail, poll, count, called>>
    BY <1>6 DEF Submit, Entry, InFlight
  <2>b. own \in SlotEntries /\ Sound(own) /\ app.blk \in Blocks
    BY <1>0, <2>a DEF InHand, SlotEntries, Sound, TypeOK
  <2> HIDE DEF own, mine
  <2>c. \A s \in 0..RingLen-1 : sqe'[s] \in SlotEntries /\ Sound(sqe'[s])
    BY <2>a, <2>b DEF TypeOK, EntriesSound
  <2>d. sqe' \in [0..RingLen-1 -> SlotEntries]
    BY <2>a, <2>c
  <2>e. ASSUME NEW f \in flight' PROVE f \in Flights /\ Sound(f)
    <3>1. CASE f \in flight
      BY <3>1 DEF TypeOK, EntriesSound
    <3>2. CASE f \notin flight
      <4>1. PICK n \in tail - queued..tail - 1 :
              f = [n |-> n, blk |-> sqe'[n % RingLen].blk, call |-> sqe'[n % RingLen].call,
                   sure |-> sqe'[n % RingLen].sure]
        BY <2>a, <3>2
      <4>2. n \in Int /\ n % RingLen \in 0..RingLen-1
        BY <1>0 DEF TypeOK
      <4>3. sqe'[n % RingLen] \in SlotEntries /\ Sound(sqe'[n % RingLen])
        BY <2>c, <4>2
      <4>4. f \in Flights
        BY <4>1, <4>2, <4>3 DEF SlotEntries, Flights
      <4>5. f.blk = sqe'[n % RingLen].blk /\ f.call = sqe'[n % RingLen].call
        BY <4>1
      <4> QED BY <4>3, <4>4, <4>5 DEF Sound
    <3> QED BY <3>1, <3>2
  <2>0. app' \in Apps
    BY <1>6, AppTyped DEF Submit, Done, TypeOK
  <2>1. TypeOK'
    BY <2>0, <2>a, <2>d, <2>e DEF TypeOK
  <2>2. EntriesSound'
    BY <2>a, <2>c, <2>e DEF EntriesSound, Sound
  <2>3. CallsDiffer'
    BY <1>0, <1>6 DEF Submit, Done, Idle, Entry, InFlight, CallsDiffer
  <2>4. ProcessedOnce'
    BY <1>0, <1>6 DEF Submit, Done, Idle, Entry, InFlight, ProcessedOnce
  <2>5. InHand'
    BY <1>0, <1>6 DEF Submit, Done, Idle, Entry, InFlight, InHand
  <2>6. WindowsOnce'
    BY <1>0, <1>6 DEF Submit, Done, Idle, Entry, InFlight, WindowsOnce, Unposted
  <2> QED BY <2>1, <2>2, <2>3, <2>4, <2>5, <2>6
<1>7. CASE Post
  <2> DEFINE own == [n |-> count, blk |-> app.blk, call |-> count, sure |-> app.op = "send"]
  <2>a. /\ app.pc = "post" /\ UNCHANGED <<os, req, sqe, tail, queued, poll, count, called>>
        /\ \/ flight' = flight \cup {own} /\ free' = free /\ app' = [app EXCEPT !.pc = "pointer"]
           \/ flight' = flight /\ free' = free \cup {app.blk} /\ app' = Idle
    BY <1>7 DEF Post, Entry, InFlight
  <2>b. own \in Flights /\ app.blk \in Blocks /\ os = "windows"
    BY <1>0, <2>a DEF InHand, WindowsOnce, Flights, TypeOK
  <2>c. own.blk = app.blk /\ own.call = count
    OBVIOUS
  <2> HIDE DEF own
  <2>d. app \in Apps
    BY DEF TypeOK
  <2>e. /\ app' \in Apps /\ app'.pc \in {"idle", "pointer"}
        /\ app'.pc = "pointer" => app'.blk = app.blk /\ free' = free
    BY <2>a, <2>d DEF Apps, Idle
  <2>f. /\ app.blk \notin free /\ ~req[app.blk].processed
        /\ poll.pc # "idle" => app.blk # poll.blk
        /\ \A f \in flight : f.blk # app.blk
    BY <2>a, <2>b DEF WindowsOnce, Unposted
  <2>1. TypeOK'
    BY <2>a, <2>b, <2>e DEF TypeOK
  <2>2. EntriesSound'
    <3>1. CASE free' = free /\ flight' = flight \cup {own}
      <4>1. /\ Sound(own)
            /\ \A f \in flight : Sound(f)
            /\ \A s \in 0..RingLen-1 : Sound(sqe[s])
        BY <1>0, <2>a, <2>c DEF EntriesSound, Sound, InHand, TypeOK
      <4> QED BY <2>a, <3>1, <4>1 DEF EntriesSound, Sound
    <3>2. CASE flight' = flight /\ free' = free \cup {app.blk}
      BY <2>a, <2>b, <2>f, <3>2 DEF EntriesSound, Sound, WindowsOnce
    <3> QED BY <2>a, <3>1, <3>2
  <2>3. CallsDiffer'
    BY <2>a, <2>e DEF CallsDiffer
  <2>4. ProcessedOnce'
    BY <2>a, <2>b, <2>f DEF ProcessedOnce, TypeOK
  <2>5. InHand'
    BY <2>a, <2>e DEF InHand
  <2>6. WindowsOnce'
    <3>1. CASE free' = free /\ flight' = flight \cup {own}
      BY <2>a, <2>b, <2>c, <2>e, <2>f, <3>1 DEF WindowsOnce, Unposted
    <3>2. CASE flight' = flight /\ free' = free \cup {app.blk}
      BY <2>a, <2>b, <2>e, <2>f, <3>2 DEF WindowsOnce, Unposted
    <3> QED BY <2>a, <3>1, <3>2
  <2> QED BY <2>1, <2>2, <2>3, <2>4, <2>5, <2>6
<1>8. CASE Pointer
  <2>0. app' \in Apps /\ req' \in [Blocks -> Requests]
    BY <1>8, AppTyped, RequestTyped DEF Pointer, Done, TypeOK, InHand
  <2>1. TypeOK'
    BY <1>8, <2>0 DEF Pointer, TypeOK
  <2>2. EntriesSound'
    BY <1>0, <1>8 DEF Pointer, Done, Idle, TypeOK, EntriesSound, Sound
  <2>3. CallsDiffer'
    BY <1>0, <1>8 DEF Pointer, Done, Idle, CallsDiffer
  <2>4. ProcessedOnce'
    BY <1>0, <1>8 DEF Pointer, Done, Idle, ProcessedOnce
  <2>5. InHand'
    BY <1>0, <1>8 DEF Pointer, Done, Idle, InHand
  <2>6. WindowsOnce'
    BY <1>0, <1>8 DEF Pointer, Done, Idle, WindowsOnce, Unposted
  <2> QED BY <2>1, <2>2, <2>3, <2>4, <2>5, <2>6
<1>9. CASE PollCall
  <2> DEFINE c == req[poll.blk].call
  <2>0. /\ poll.pc = "call" /\ poll.blk \in Blocks \ free /\ req[poll.blk].processed
        /\ c \in Calls /\ called[c] = 0
        /\ UNCHANGED <<os, free, req, sqe, tail, queued, flight, app, count>>
    BY <1>0, <1>9 DEF PollCall, ProcessedOnce, TypeOK, Requests
  <2> HIDE DEF c
  <2>a. CASE UNCHANGED <<called, poll>>
    BY <2>0, <2>a DEF TypeOK, EntriesSound, Sound, CallsDiffer, ProcessedOnce, InHand, WindowsOnce, Unposted
  <2>b. CASE called' = [called EXCEPT ![c] = 1] /\ poll' = [poll EXCEPT !.pc = "free"]
    <3>0. /\ called'[c] = 1 /\ \A d \in Calls : d # c => called'[d] = called[d]
          /\ called' \in [Calls -> {0, 1}]
          /\ poll' \in Polls /\ poll'.pc = "free" /\ poll'.blk = poll.blk
      BY <2>0, <2>b DEF TypeOK, Polls
    <3>1. TypeOK'
      BY <2>0, <3>0 DEF TypeOK
    <3>2. EntriesSound'
      BY <1>0, <2>0, <3>0 DEF EntriesSound, Sound, TypeOK
    <3>3. CallsDiffer'
      <4>1. c <= count
        BY <2>0 DEF CallsDiffer, c
      <4>2. app.pc = "alloc" => c # count
        BY <2>0 DEF CallsDiffer, c
      <4>3. count \in Nat /\ c \in Nat /\ (count > 0 => count \in Calls)
        BY <1>0, <2>0 DEF TypeOK
      <4> QED BY <2>0, <3>0, <4>1, <4>2, <4>3 DEF CallsDiffer
    <3>4. ProcessedOnce'
      <4>1. \A b \in Blocks : req[b].call = c => b = poll.blk
        BY <1>0, <2>0 DEF CallsDiffer, c
      <4>2. \A b \in Blocks : req[b].call # 0 => req[b].call \in Calls
        BY <1>0 DEF TypeOK, Requests
      <4>3. \A b \in free : b \in Blocks /\ b # poll.blk
        BY <2>0 DEF TypeOK
      <4>4. req[poll.blk].call = c /\ c # 0
        BY <1>0, <2>0 DEF c
      <4> QED BY <2>0, <3>0, <4>1, <4>2, <4>3, <4>4 DEF ProcessedOnce
    <3>5. InHand'
      BY <2>0, <3>0 DEF InHand
    <3>6. WindowsOnce'
      BY <2>0, <3>0 DEF WindowsOnce, Unposted
    <3> QED BY <3>1, <3>2, <3>3, <3>4, <3>5, <3>6
  <2>c. UNCHANGED <<called, poll>> \/ (called' = [called EXCEPT ![c] = 1] /\ poll' = [poll EXCEPT !.pc = "free"])
    BY <1>0, <1>9, <2>0 DEF PollCall, c, TypeOK
  <2> QED BY <2>a, <2>b, <2>c
<1>10. CASE PollFree
  <2>1. TypeOK'
    BY <1>0, <1>10 DEF PollFree, TypeOK, Apps, Polls, ProcessedOnce
  <2>2. EntriesSound'
    BY <1>0, <1>10 DEF PollFree, TypeOK, ProcessedOnce, Flights, SlotEntries, EntriesSound, Sound
  <2>3. CallsDiffer'
    BY <1>0, <1>10 DEF PollFree, CallsDiffer
  <2>4. ProcessedOnce'
    BY <1>0, <1>10 DEF PollFree, ProcessedOnce
  <2>5. InHand'
    BY <1>10 DEF PollFree, ProcessedOnce, InHand
  <2>6. WindowsOnce'
    BY <1>0, <1>10 DEF PollFree, WindowsOnce, Unposted
  <2> QED BY <2>1, <2>2, <2>3, <2>4, <2>5, <2>6
<1>11. ASSUME NEW e \in flight, PollTake(e) PROVE IInv'
  <2>0. /\ poll.pc = "idle" /\ flight' \subseteq flight /\ e \in Flights /\ Sound(e)
        /\ UNCHANGED <<os, free, sqe, tail, queued, app, count, called>>
    BY <1>11 DEF PollTake, TypeOK, EntriesSound
  <2>a. CASE UNCHANGED <<req, poll>>
    BY <2>0, <2>a DEF TypeOK, EntriesSound, Sound, CallsDiffer, ProcessedOnce, InHand, WindowsOnce, Unposted
  <2>b. CASE /\ e.blk \in Blocks /\ flight' = flight \ {e}
             /\ req' = [req EXCEPT ![e.blk].processed = TRUE]
             /\ poll' = IF req[e.blk].processed THEN poll ELSE [pc |-> "call", blk |-> e.blk]
    <3>0. /\ req' \in [Blocks -> Requests] /\ req'[e.blk].processed
          /\ \A b \in Blocks : req'[b].call = req[b].call
          /\ \A b \in Blocks : b # e.blk => req'[b].processed = req[b].processed
      <4>1. req \in [Blocks -> Requests] /\ e.blk \in Blocks
        BY <2>b DEF TypeOK
      <4>2. req[e.blk] \in Requests /\ req' = [req EXCEPT ![e.blk] = [req[e.blk] EXCEPT !.processed = TRUE]]
        BY <2>b, <4>1
      <4>3. /\ [req[e.blk] EXCEPT !.processed = TRUE] \in Requests
            /\ [req[e.blk] EXCEPT !.processed = TRUE].processed
            /\ [req[e.blk] EXCEPT !.processed = TRUE].call = req[e.blk].call
        BY <4>2 DEF Requests
      <4> QED BY <4>1, <4>2, <4>3
    <3>p. poll' \in Polls /\ poll' = IF req[e.blk].processed THEN poll ELSE [pc |-> "call", blk |-> e.blk]
      BY <2>b DEF TypeOK, Polls
    <3>q. /\ req[e.blk].call # 0
          /\ e.blk \in free => req[e.blk].processed
      BY <1>0, <2>0, <2>b DEF Sound
    <3>1. TypeOK'
      BY <2>0, <3>0, <3>p DEF TypeOK
    <3>2. EntriesSound'
      <4>1. \A f \in flight : f.blk # NoBlock => f.blk \in Blocks
        BY DEF TypeOK, Flights
      <4>2. \A s \in 0..RingLen-1 : sqe[s].blk # NoBlock => sqe[s].blk \in Blocks
        BY DEF TypeOK, SlotEntries
      <4>3. \A b \in Blocks : req[b].processed => req'[b].processed
        BY <3>0
      <4> QED BY <2>0, <3>0, <4>1, <4>2, <4>3 DEF EntriesSound, Sound
    <3>3. CallsDiffer'
      BY <2>0, <3>0 DEF CallsDiffer
    <3>4. ProcessedOnce'
      <4>1. CASE req[e.blk].processed
        BY <2>0, <2>b, <3>0, <4>1 DEF ProcessedOnce, TypeOK
      <4>2. CASE ~req[e.blk].processed
        <5>1. poll'.pc = "call" /\ poll'.blk = e.blk /\ e.blk \in Blocks \ free /\ called[req[e.blk].call] = 0
          BY <2>b, <3>p, <3>q, <4>2 DEF ProcessedOnce
        <5>2. \A b \in free : b \in Blocks /\ b # e.blk
          BY <5>1 DEF TypeOK
        <5> QED BY <2>0, <2>b, <3>0, <3>q, <5>1, <5>2 DEF ProcessedOnce
      <4> QED BY <4>1, <4>2
    <3>5. InHand'
      BY <2>0, <2>b, <3>0 DEF InHand
    <3>6. WindowsOnce'
      BY <1>0, <1>11 DEF PollTake, TypeOK, WindowsOnce, Unposted
    <3> QED BY <3>1, <3>2, <3>3, <3>4, <3>5, <3>6
  <2>c. UNCHANGED <<req, poll>> \/ (/\ e.blk \in Blocks /\ flight' = flight \ {e}
             /\ req' = [req EXCEPT ![e.blk].processed = TRUE]
             /\ poll' = IF req[e.blk].processed THEN poll ELSE [pc |-> "call", blk |-> e.blk])
    BY <1>11, <2>0 DEF PollTake, Flights
  <2> QED BY <2>a, <2>b, <2>c
<1>12. CASE UNCHANGED netVars
  BY <1>12 DEF netVars, TypeOK, EntriesSound, Sound, CallsDiffer, ProcessedOnce, InHand, WindowsOnce, Unposted
<1> QED BY <1>1, <1>2, <1>3, <1>4, <1>5, <1>6, <1>7, <1>8, <1>9, <1>10, <1>11, <1>12 DEF NetNext, AppStep, PollStep

THEOREM NetInvariance == NetSpec => []IInv
BY InitIInv, NextIInv, PTL DEF NetSpec

(* A callback runs once at most for its call, and no block goes back to    *)
(* the pool twice.                                                         *)
THEOREM EndOnce == NetSpec => []RequestsEndOnce
<1>1. IInv => RequestsEndOnce
  BY DEF IInv, TypeOK, ProcessedOnce, RequestsEndOnce, Calls
<1> QED BY <1>1, NetInvariance, PTL

(* What completes is a request of its own call or one whose callback ran.  *)
THEOREM OwnOrLeftover == NetSpec => []OwnCompletionOrLeftover
<1>1. IInv => OwnCompletionOrLeftover
  BY DEF IInv, EntriesSound, Sound, OwnCompletionOrLeftover
<1> QED BY <1>1, NetInvariance, PTL
=============================================================================
