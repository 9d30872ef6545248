------------------------------ MODULE Channels ------------------------------
(***************************************************************************)
(* The channels of comm/net.h, the synchronous ways to receive on one and  *)
(* net_broadcast, as one thread calls them.  Sending without a request     *)
(* keeps no state.  The log entry of a call is left out.                   *)
(*                                                                         *)
(* External: any call to the system may fail.  Time is counted in ns since *)
(* the call under way began.  A blocking receive with a time limit of 0    *)
(* waits for ever, and one whose limit is over gives up.                   *)
(***************************************************************************)
EXTENDS Integers

CONSTANTS
  Chs, Sockets, NoSocket,
  Timeouts,         \* timeout_us
  Word,             \* 2^32, scaled down: the range of u32
  Kilo,             \* ns per us; us per ms
  Sec,              \* us per s
  Exact,            \* 2^24: from here on a float has no longer every u32
  MaxWait,          \* a bound: ns spent in a call
  MaxResps          \* a bound: answers to a broadcast

ASSUME ChannelsAssumption ==
  /\ {Word, Kilo, Sec, Exact} \subseteq Nat \ {0} /\ {MaxWait, MaxResps} \subseteq Nat
  /\ Timeouts \subseteq 0..Word-1 /\ NoSocket \notin Sockets

VARIABLES
  windows,
  up,          \* between net_init and net_destroy
  listed, fd,  \* the channels in ch_root; the socket of each channel
  open,        \* external: the open sockets
  wait         \* the call under way

channelVars == <<windows, up, listed, fd, open, wait>>

(* limit is in us, phase the place of begin_ts in its us.                  *)
NoCall == [pc |-> "none", mode |-> "none", timeout |-> 0, limit |-> 0, ns |-> 0, phase |-> 0,
           own |-> NoSocket, resps |-> 0]

ChannelsInit ==
  /\ windows \in BOOLEAN
  /\ up = FALSE /\ listed = {} /\ fd = [c \in Chs |-> NoSocket] /\ open = {} /\ wait = NoCall

Free == wait = NoCall

net_init ==
  /\ Free /\ ~up
  /\ up' = TRUE /\ listed' = {}
  /\ UNCHANGED <<windows, fd, open, wait>>

(* The sockets are closed, the list stays.                                 *)
net_destroy ==
  /\ Free /\ up
  /\ up' = FALSE /\ open' = open \ {fd[c] : c \in listed}
  /\ UNCHANGED <<windows, listed, fd, wait>>

(* A mistake: a channel that cannot be bound or connected keeps its socket.*)
AddLeaky(c) ==
  /\ Free /\ up /\ c \notin listed
  /\ \E s \in (Sockets \ open) \cup {NoSocket} :
       /\ fd' = [fd EXCEPT ![c] = s]
       /\ open' = open \cup ({s} \ {NoSocket})
       /\ \/ s # NoSocket /\ listed' = listed \cup {c}
          \/ UNCHANGED listed
  /\ UNCHANGED <<windows, up, wait>>

(* Without a socket it is connect that fails.  Adding a channel twice, or  *)
(* after net_destroy, is the application's mistake.                        *)
net_add_ch(c) ==
  /\ Free /\ up /\ c \notin listed
  /\ \E s \in (Sockets \ open) \cup {NoSocket} :
       /\ fd' = [fd EXCEPT ![c] = s]
       /\ \/ s # NoSocket /\ listed' = listed \cup {c} /\ open' = open \cup {s}
          \/ UNCHANGED <<listed, open>>
  /\ UNCHANGED <<windows, up, wait>>

-----------------------------------------------------------------------------
Elsewhere == UNCHANGED <<windows, up, listed, fd>>

(* US2NS, in 32 bits.                                                      *)
US2NS(us) == (us * Kilo) % Word

(* The time limit of the socket: seconds and the rest of the us, or whole  *)
(* ms but not 0 for something.  The seconds and the ms are divisions of    *)
(* floats: from Exact on they may be one too many or one too few.          *)
YieldLimits(us) ==
  LET unit  == IF windows THEN Kilo ELSE Sec
      exact == IF windows THEN (us \div Kilo) * Kilo ELSE us
  IN IF windows /\ us \in 1..Kilo-1 THEN {Kilo}
     ELSE {exact} \cup IF us >= Exact THEN {exact - unit, exact + unit} ELSE {}

Recv(c, us) ==
  /\ Free /\ c \in listed /\ up
  /\ \/ wait' = [NoCall EXCEPT !.pc = "try", !.mode = "spin", !.timeout = us]
     \/ \E l \in YieldLimits(us) :
          wait' = [NoCall EXCEPT !.pc = "block", !.mode = "yield", !.timeout = us, !.limit = l]
  /\ UNCHANGED open /\ Elsewhere

Tick ==
  /\ wait.pc \in {"try", "look", "block"} /\ wait.ns < MaxWait
  /\ wait' = [wait EXCEPT !.ns = @ + 1]
  /\ UNCHANGED open /\ Elsewhere

(* A blocking receive ends with data, an error, or at its limit.           *)
YieldReturn ==
  /\ wait.pc = "block"
  /\ wait' = [wait EXCEPT !.pc = "returned"]
  /\ UNCHANGED open /\ Elsewhere

YieldGiveUp ==
  /\ wait.pc = "block" /\ wait.limit # 0 /\ wait.ns >= wait.limit * Kilo
  /\ wait' = [wait EXCEPT !.pc = "gave up"]
  /\ UNCHANGED open /\ Elsewhere

(* One round of net_sync_recv_spin or net_broadcast: nothing, an error, or *)
(* data, which ends the first and is counted by the second.                *)
Try ==
  /\ wait.pc = "try"
  /\ \/ wait' = [wait EXCEPT !.pc = "look"]
     \/ wait.mode = "spin" /\ wait' = [wait EXCEPT !.pc = "returned"]
     \/ wait.mode = "broadcast" /\ wait.resps < MaxResps
        /\ wait' = [wait EXCEPT !.pc = "look", !.resps = @ + 1]
  /\ UNCHANGED open /\ Elsewhere

(* A mistake: the timeout in us is taken for ns.                           *)
OverMicro == wait.ns >= wait.timeout

(* The clock is read, in ns by the one and in whole us by the other.       *)
Over ==
  IF wait.mode = "spin" THEN wait.ns >= US2NS(wait.timeout)
  ELSE (wait.phase + wait.ns) \div Kilo >= wait.timeout

Look ==
  /\ wait.pc = "look"
  /\ wait' = [wait EXCEPT !.pc = IF Over THEN "gave up" ELSE "try"]
  /\ UNCHANGED open /\ Elsewhere

net_broadcast(us) ==
  /\ Free
  /\ \/ \E s \in Sockets \ open, p \in 0..Kilo-1 :
          /\ open' = open \cup {s}
          /\ wait' = [NoCall EXCEPT !.pc = "try", !.mode = "broadcast", !.timeout = us, !.phase = p,
                                    !.own = s]
     \/ UNCHANGED <<open, wait>>
  /\ Elsewhere

Return ==
  /\ wait.pc \in {"returned", "gave up"}
  /\ wait' = NoCall /\ open' = open \ {wait.own}
  /\ Elsewhere

ChannelsNext ==
  \/ net_init \/ net_destroy \/ \E c \in Chs : net_add_ch(c)
  \/ \E us \in Timeouts : (\E c \in Chs : Recv(c, us)) \/ net_broadcast(us)
  \/ Tick \/ YieldReturn \/ YieldGiveUp \/ Try \/ Look \/ Return

ChannelsSpec == ChannelsInit /\ [][ChannelsNext]_channelVars

-----------------------------------------------------------------------------
(* Whatever fails on the way: the open sockets are those of the channels   *)
(* in the list, a different one for each, and that of the broadcast under  *)
(* way; after net_destroy the list is one of closed channels.              *)
SocketsAreOwned ==
  /\ open = (IF up THEN {fd[c] : c \in listed} ELSE {}) \cup ({wait.own} \ {NoSocket})
  /\ up => \A c, d \in listed : fd[c] = fd[d] => c = d

(* No receive gives up before its timeout is over.  Exceptions: spinning   *)
(* wraps from 2^32 ns on, blocking may miss one unit if the timeout is a   *)
(* large one, Windows waits for whole ms, and a broadcast, whose clock is  *)
(* cut to us, may miss a part of one.                                      *)
GivesUpInTime ==
  wait.pc = "gave up" =>
    CASE wait.mode = "spin"  -> wait.timeout * Kilo < Word => wait.ns >= wait.timeout * Kilo
      [] wait.mode = "yield" ->
           /\ wait.timeout # 0
           /\ LET cut  == IF windows THEN Kilo - 1 ELSE 0
                  off  == IF wait.timeout < Exact THEN 0 ELSE IF windows THEN Kilo ELSE Sec
              IN wait.ns >= (wait.timeout - cut - off) * Kilo
      [] wait.mode = "broadcast" -> wait.ns > (wait.timeout - 1) * Kilo
=============================================================================
