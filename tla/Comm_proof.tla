----------------------------- MODULE Comm_proof -----------------------------
(***************************************************************************)
(* Two of the components of MCComm.  For any channels, sockets, timeouts   *)
(* and sizes of a word and its units: every open socket has an owner, and  *)
(* no receive gives up before its timeout is over, apart from the          *)
(* exceptions that GivesUpInTime names.  For windows of any size: a        *)
(* spectrum is of one window, although the handler passes samples while    *)
(* the ring is copied.                                                     *)
(***************************************************************************)
EXTENDS Channels, Fft, TLAPS

-----------------------------------------------------------------------------
(* The channels.                                                           *)
Modes == {"none", "spin", "yield", "broadcast"}
Waits == [pc : {"none", "try", "look", "block", "returned", "gave up"}, mode : Modes,
          timeout : 0..Word-1, limit : Int, ns : Nat, phase : 0..Kilo-1,
          own : Sockets \cup {NoSocket}, resps : Nat]

TypeOK ==
  /\ windows \in BOOLEAN /\ up \in BOOLEAN
  /\ listed \subseteq Chs /\ open \subseteq Sockets
  /\ fd \in [Chs -> Sockets \cup {NoSocket}]
  /\ wait \in Waits

(* The list holds sockets, and a broadcast has another one.                *)
Apart == up => \A c \in listed : fd[c] \in Sockets /\ fd[c] # wait.own

(* What a blocking receive may fall short of: the rest of a ms, and one    *)
(* unit where the timeout is too large for a float.                        *)
Cut == IF windows THEN Kilo - 1 ELSE 0
Off(us) == IF us < Exact THEN 0 ELSE IF windows THEN Kilo ELSE Sec

(* A call that spins has no limit of its socket to rely on, and one that   *)
(* blocks has no clock.                                                    *)
LimitsHold ==
  /\ wait.pc \in {"try", "look"} => wait.mode \in {"spin", "broadcast"}
  /\ wait.pc = "block" =>
       /\ wait.mode = "yield" /\ (wait.timeout = 0 => wait.limit = 0)
       /\ wait.limit # 0 => wait.limit >= wait.timeout - Cut - Off(wait.timeout)

InTime ==
  wait.pc = "gave up" =>
    /\ wait.mode \in {"spin", "yield", "broadcast"}
    /\ wait.mode = "spin" => (wait.timeout * Kilo < Word => wait.ns >= wait.timeout * Kilo)
    /\ wait.mode = "yield" =>
         wait.timeout # 0 /\ wait.ns >= (wait.timeout - Cut - Off(wait.timeout)) * Kilo
    /\ wait.mode = "broadcast" => wait.ns > (wait.timeout - 1) * Kilo

IInv == TypeOK /\ SocketsAreOwned /\ Apart /\ LimitsHold /\ InTime

-----------------------------------------------------------------------------
LEMMA Constants ==
  /\ Word \in Nat \ {0} /\ Kilo \in Nat \ {0} /\ Sec \in Nat \ {0} /\ Exact \in Nat \ {0}
  /\ Timeouts \subseteq 0..Word-1 /\ NoSocket \notin Sockets
BY ChannelsAssumption

(* A product of a larger number is larger.                                 *)
LEMMA Scale ==
  ASSUME NEW a \in Int, NEW b \in Int, a >= b
  PROVE  a * Kilo >= b * Kilo
<1>1. Kilo \in Nat
  BY Constants
<1> QED BY <1>1

(* The division of non-negative numbers by the unit.                       *)
LEMMA KiloDiv ==
  ASSUME NEW x \in Nat
  PROVE  /\ x \div Kilo \in Int
         /\ x - (Kilo - 1) <= (x \div Kilo) * Kilo /\ (x \div Kilo) * Kilo <= x
<1>1. Kilo \in Nat /\ Kilo > 0
  BY Constants
<1>2. x \div Kilo \in Int /\ x % Kilo \in 0..Kilo-1 /\ x = Kilo * (x \div Kilo) + (x % Kilo)
  BY <1>1
<1> QED BY <1>1, <1>2

(* Without a wrap the conversion to ns is exact.                           *)
LEMMA US2NSExact ==
  ASSUME NEW us \in Nat, us * Kilo < Word
  PROVE  US2NS(us) = us * Kilo
<1>1. Kilo \in Nat /\ Word \in Nat \ {0}
  BY Constants
<1>2. us * Kilo \in Nat
  BY <1>1
<1>3. \A x \in Nat : x < Word => x % Word = x
  BY <1>1
<1> QED BY <1>2, <1>3 DEF US2NS

(* What the socket is told to wait: for ever if that is meant, and never   *)
(* less than the timeout but for the cut and the float.                    *)
LEMMA YieldLimitsHold ==
  ASSUME NEW us \in Timeouts, NEW l \in YieldLimits(us)
  PROVE  l \in Int /\ (us = 0 => l = 0) /\ l >= us - Cut - Off(us)
<1>0. us \in Nat /\ Kilo \in Nat \ {0} /\ Sec \in Nat \ {0} /\ Exact \in Nat \ {0}
  BY Constants
<1>1. CASE ~windows
  <2>1. l = us \/ (us >= Exact /\ (l = us - Sec \/ l = us + Sec))
    BY <1>1 DEF YieldLimits
  <2>2. Cut = 0 /\ (us < Exact => Off(us) = 0) /\ (us >= Exact => Off(us) = Sec)
    BY <1>0, <1>1 DEF Cut, Off
  <2> QED BY <1>0, <2>1, <2>2
<1>2. CASE windows
  <2> DEFINE e == (us \div Kilo) * Kilo
  <2>1. \/ us \in 1..Kilo-1 /\ l = Kilo
        \/ us \notin 1..Kilo-1 /\ (l = e \/ (us >= Exact /\ (l = e - Kilo \/ l = e + Kilo)))
    BY <1>2 DEF YieldLimits
  <2>2. Cut = Kilo - 1 /\ (us < Exact => Off(us) = 0) /\ (us >= Exact => Off(us) = Kilo)
    BY <1>0, <1>2 DEF Cut, Off
  <2>3. e \in Int /\ us - (Kilo - 1) <= e /\ e <= us
    BY <1>0, KiloDiv
  <2>4. us = 0 => e = 0
    <3>1. us = 0 => us \div Kilo = 0
      BY <1>0
    <3> QED BY <1>0, <3>1
  <2> HIDE DEF e
  <2> QED BY <1>0, <2>1, <2>2, <2>3, <2>4
<1> QED BY <1>1, <1>2

-----------------------------------------------------------------------------
LEMMA InitIInv == ChannelsInit => IInv
<1> SUFFICES ASSUME ChannelsInit PROVE IInv
  OBVIOUS
<1>1. wait \in Waits /\ wait.pc = "none" /\ wait.own = NoSocket
  BY Constants DEF ChannelsInit, NoCall, Waits, Modes
<1>2. windows \in BOOLEAN /\ up \in BOOLEAN /\ ~up
  BY DEF ChannelsInit
<1>3. listed = {} /\ open = {} /\ fd \in [Chs -> Sockets \cup {NoSocket}]
  BY DEF ChannelsInit
<1>4. TypeOK
  BY <1>1, <1>2, <1>3 DEF TypeOK
<1>5. SocketsAreOwned /\ Apart
  BY <1>1, <1>2, <1>3 DEF SocketsAreOwned, Apart
<1>6. LimitsHold /\ InTime
  BY <1>1 DEF LimitsHold, InTime
<1> QED BY <1>4, <1>5, <1>6 DEF IInv

(* A step inside a call that keeps the sockets and the call's own one.     *)
LEMMA SocketsKept ==
  ASSUME TypeOK, SocketsAreOwned, Apart, wait' \in Waits,
         UNCHANGED <<windows, up, listed, fd, open>>, wait'.own = wait.own
  PROVE  TypeOK' /\ SocketsAreOwned' /\ Apart'
BY DEF TypeOK, SocketsAreOwned, Apart

(* One that leaves the call alone keeps what it has waited.                *)
LEMMA WaitKept ==
  ASSUME LimitsHold, InTime, UNCHANGED <<windows, wait>>
  PROVE  LimitsHold' /\ InTime'
BY DEF LimitsHold, InTime, Cut, Off

LEMMA NoCallWaits == NoCall \in Waits /\ NoCall.pc = "none" /\ NoCall.own = NoSocket
BY Constants DEF NoCall, Waits, Modes

LEMMA FreeCall ==
  ASSUME Free
  PROVE  wait.own = NoSocket /\ wait.pc = "none"
BY DEF Free, NoCall

LEMMA NextIInv == IInv /\ [ChannelsNext]_channelVars => IInv'
<1> SUFFICES ASSUME IInv, [ChannelsNext]_channelVars PROVE IInv'
  OBVIOUS
<1>0. TypeOK /\ SocketsAreOwned /\ Apart /\ LimitsHold /\ InTime
  BY DEF IInv
<1>w. wait \in Waits
  BY <1>0 DEF TypeOK
<1>1. CASE net_init
  <2>1. UNCHANGED <<windows, fd, open, wait>> /\ ~up /\ up' = TRUE /\ listed' = {}
    BY <1>1 DEF net_init
  <2>2. wait.own = NoSocket
    BY <1>1, FreeCall DEF net_init
  <2>3. TypeOK' /\ Apart'
    BY <1>0, <2>1 DEF TypeOK, Apart
  <2>4. SocketsAreOwned'
    BY <1>0, <2>1, <2>2 DEF SocketsAreOwned
  <2> QED BY <1>0, <2>1, <2>3, <2>4, WaitKept DEF IInv
<1>2. CASE net_destroy
  <2>1. UNCHANGED <<windows, listed, fd, wait>> /\ up /\ up' = FALSE /\ open' = open \ {fd[c] : c \in listed}
    BY <1>2 DEF net_destroy
  <2>2. wait.own = NoSocket
    BY <1>2, FreeCall DEF net_destroy
  <2>3. TypeOK' /\ Apart'
    BY <1>0, <2>1 DEF TypeOK, Apart
  <2>4. SocketsAreOwned'
    BY <1>0, <2>1, <2>2 DEF SocketsAreOwned
  <2> QED BY <1>0, <2>1, <2>3, <2>4, WaitKept DEF IInv
<1>3. ASSUME NEW c \in Chs, net_add_ch(c) PROVE IInv'
  <2>1. PICK s \in (Sockets \ open) \cup {NoSocket} :
          /\ fd' = [fd EXCEPT ![c] = s]
          /\ \/ s # NoSocket /\ listed' = listed \cup {c} /\ open' = open \cup {s}
             \/ UNCHANGED <<listed, open>>
    BY <1>3 DEF net_add_ch
  <2>2. UNCHANGED <<windows, up, wait>> /\ up /\ c \notin listed
    BY <1>3 DEF net_add_ch
  <2>3. wait.own = NoSocket
    BY <1>3, FreeCall DEF net_add_ch
  <2>4. /\ fd' \in [Chs -> Sockets \cup {NoSocket}] /\ fd'[c] = s
        /\ \A d \in listed : fd'[d] = fd[d] /\ fd'[d] \in open /\ fd'[d] \in Sockets
    BY <1>0, <2>1, <2>2 DEF TypeOK, SocketsAreOwned, Apart
  <2>5. CASE s # NoSocket /\ listed' = listed \cup {c} /\ open' = open \cup {s}
    <3>1. s \in Sockets \ open
      BY <2>1, <2>5
    <3>2. TypeOK' /\ Apart'
      BY <1>0, <2>2, <2>3, <2>4, <2>5, <3>1, Constants DEF TypeOK, Apart
    <3>3. {fd'[d] : d \in listed'} = {fd[d] : d \in listed} \cup {s}
      BY <2>4, <2>5
    <3>4. open = {fd[d] : d \in listed} /\ \A d, e \in listed : fd[d] = fd[e] => d = e
      BY <1>0, <2>2, <2>3 DEF SocketsAreOwned
    <3>5. \A d, e \in listed' : fd'[d] = fd'[e] => d = e
      BY <2>4, <2>5, <3>1, <3>4
    <3>6. SocketsAreOwned'
      BY <2>2, <2>3, <2>5, <3>3, <3>4, <3>5 DEF SocketsAreOwned
    <3> QED BY <1>0, <2>2, <3>2, <3>6, WaitKept DEF IInv
  <2>6. CASE UNCHANGED <<listed, open>>
    <3>1. TypeOK' /\ Apart'
      BY <1>0, <2>2, <2>3, <2>4, <2>6, Constants DEF TypeOK, Apart
    <3>2. SocketsAreOwned'
      BY <1>0, <2>2, <2>4, <2>6 DEF SocketsAreOwned
    <3> QED BY <1>0, <2>2, <3>1, <3>2, WaitKept DEF IInv
  <2> QED BY <2>1, <2>5, <2>6
<1>4. ASSUME NEW us \in Timeouts, NEW c \in Chs, Recv(c, us) PROVE IInv'
  <2>0. UNCHANGED <<windows, up, listed, fd, open>> /\ wait.own = NoSocket /\ us \in 0..Word-1
    BY <1>4, FreeCall, Constants DEF Recv, Elsewhere
  <2>1. CASE wait' = [NoCall EXCEPT !.pc = "try", !.mode = "spin", !.timeout = us]
    <3>1. wait' \in Waits /\ wait'.own = NoSocket /\ wait'.pc = "try" /\ wait'.mode = "spin"
      BY <2>0, <2>1, NoCallWaits DEF Waits, Modes
    <3> QED BY <1>0, <2>0, <3>1, SocketsKept DEF IInv, LimitsHold, InTime
  <2>2. CASE \E l \in YieldLimits(us) :
               wait' = [NoCall EXCEPT !.pc = "block", !.mode = "yield", !.timeout = us, !.limit = l]
    <3>1. PICK l \in YieldLimits(us) :
               wait' = [NoCall EXCEPT !.pc = "block", !.mode = "yield", !.timeout = us, !.limit = l]
      BY <2>2
    <3>2. l \in Int /\ (us = 0 => l = 0) /\ l >= us - Cut - Off(us)
      BY YieldLimitsHold
    <3>3. /\ wait' \in Waits /\ wait'.own = NoSocket /\ wait'.pc = "block" /\ wait'.mode = "yield"
          /\ wait'.limit = l /\ wait'.timeout = us
      BY <2>0, <3>1, <3>2, NoCallWaits DEF Waits, Modes
    <3>4. Cut' = Cut /\ Off(us)' = Off(us)
      BY <2>0 DEF Cut, Off
    <3>5. wait'.limit # 0 => wait'.limit >= wait'.timeout - Cut' - Off(wait.timeout)'
      BY <2>0, <3>2, <3>3 DEF Cut, Off
    <3>6. LimitsHold' /\ InTime'
      BY <3>2, <3>3, <3>5 DEF LimitsHold, InTime
    <3> QED BY <1>0, <2>0, <3>3, <3>6, SocketsKept DEF IInv
  <2> QED BY <1>4, <2>1, <2>2 DEF Recv
<1>5. CASE Tick
  <2>1. /\ UNCHANGED <<windows, up, listed, fd, open>> /\ wait.pc \in {"try", "look", "block"}
        /\ wait' = [wait EXCEPT !.ns = wait.ns + 1]
    BY <1>5 DEF Tick, Elsewhere
  <2>a. wait.ns \in Nat
    BY <1>w DEF Waits
  <2>b. wait.ns + 1 \in Nat
    BY <2>a
  <2>2. /\ wait' \in Waits /\ wait'.own = wait.own /\ wait'.pc = wait.pc /\ wait'.mode = wait.mode
        /\ wait'.limit = wait.limit /\ wait'.timeout = wait.timeout
    BY <1>w, <2>1, <2>b DEF Waits
  <2>3. LimitsHold' /\ InTime'
    BY <1>0, <2>1, <2>2 DEF LimitsHold, InTime, Cut, Off
  <2> QED BY <1>0, <2>1, <2>2, <2>3, SocketsKept DEF IInv
<1>6. CASE YieldReturn
  <2>1. UNCHANGED <<windows, up, listed, fd, open>> /\ wait' = [wait EXCEPT !.pc = "returned"]
    BY <1>6 DEF YieldReturn, Elsewhere
  <2>2. wait' \in Waits /\ wait'.own = wait.own /\ wait'.pc = "returned"
    BY <1>w, <2>1 DEF Waits
  <2> QED BY <1>0, <2>1, <2>2, SocketsKept DEF IInv, LimitsHold, InTime
<1>7. CASE YieldGiveUp
  <2>1. /\ UNCHANGED <<windows, up, listed, fd, open>> /\ wait' = [wait EXCEPT !.pc = "gave up"]
        /\ wait.pc = "block" /\ wait.limit # 0 /\ wait.ns >= wait.limit * Kilo
    BY <1>7 DEF YieldGiveUp, Elsewhere
  <2>2. /\ wait' \in Waits /\ wait'.own = wait.own /\ wait'.pc = "gave up" /\ wait'.mode = "yield"
        /\ wait'.timeout = wait.timeout /\ wait'.ns = wait.ns
    BY <1>0, <1>w, <2>1 DEF Waits, LimitsHold
  <2> DEFINE least == wait.timeout - Cut - Off(wait.timeout)
  <2>a. Cut \in Int /\ Off(wait.timeout) \in Int
    BY Constants DEF Cut, Off
  <2>b. wait.timeout \in 0..Word-1 /\ wait.limit \in Int /\ wait.ns \in Nat
    BY <1>w DEF Waits
  <2>c. wait.timeout # 0 /\ wait.limit >= least
    BY <1>0, <2>1 DEF LimitsHold
  <2>3. wait.timeout # 0 /\ wait.limit >= least /\ least \in Int /\ wait.limit \in Int /\ wait.ns \in Nat
    BY <2>a, <2>b, <2>c, Constants
  <2> HIDE DEF least
  <2>4. wait.limit * Kilo >= least * Kilo
    BY <2>3, Scale
  <2>d. wait.limit * Kilo \in Int /\ least * Kilo \in Int
    BY <2>3, Constants
  <2>e. wait.ns >= wait.limit * Kilo
    BY <2>1
  <2>5. wait.ns >= least * Kilo
    BY <2>3, <2>4, <2>d, <2>e
  <2>6. least' = least
    BY <2>1, <2>2 DEF least, Cut, Off
  <2>7. LimitsHold' /\ InTime'
    BY <2>2, <2>3, <2>5, <2>6 DEF LimitsHold, InTime, least
  <2> QED BY <1>0, <2>1, <2>2, <2>7, SocketsKept DEF IInv
<1>8. CASE Try
  <2>1. /\ UNCHANGED <<windows, up, listed, fd, open>> /\ wait.pc = "try"
        /\ \/ wait' = [wait EXCEPT !.pc = "look"]
           \/ wait' = [wait EXCEPT !.pc = "returned"]
           \/ wait' = [wait EXCEPT !.pc = "look", !.resps = wait.resps + 1]
    BY <1>8 DEF Try, Elsewhere
  <2>a. wait.resps \in Nat
    BY <1>w DEF Waits
  <2>b. wait.resps + 1 \in Nat
    BY <2>a
  <2>2. /\ wait' \in Waits /\ wait'.own = wait.own /\ wait'.pc \in {"look", "returned"}
        /\ wait'.mode = wait.mode
    BY <1>w, <2>1, <2>b DEF Waits
  <2>3. LimitsHold' /\ InTime'
    BY <1>0, <2>1, <2>2 DEF LimitsHold, InTime
  <2> QED BY <1>0, <2>1, <2>2, <2>3, SocketsKept DEF IInv
<1>9. CASE Look
  <2>1. /\ UNCHANGED <<windows, up, listed, fd, open>> /\ wait.pc = "look"
        /\ wait' = [wait EXCEPT !.pc = IF Over THEN "gave up" ELSE "try"]
    BY <1>9 DEF Look, Elsewhere
  <2>2. /\ wait' \in Waits /\ wait'.own = wait.own /\ wait'.mode = wait.mode
        /\ wait'.timeout = wait.timeout /\ wait'.ns = wait.ns
        /\ wait'.pc = IF Over THEN "gave up" ELSE "try"
    BY <1>w, <2>1 DEF Waits
  <2>3. /\ wait.timeout \in Nat /\ wait.ns \in Nat /\ wait.phase \in 0..Kilo-1
        /\ wait.mode \in {"spin", "broadcast"} /\ Kilo \in Nat \ {0}
    <3>1. wait.timeout \in 0..Word-1 /\ wait.ns \in Nat /\ wait.phase \in 0..Kilo-1
      BY <1>w DEF Waits
    <3>2. wait.mode \in {"spin", "broadcast"}
      BY <1>0, <2>1 DEF LimitsHold
    <3> QED BY <3>1, <3>2, Constants
  <2>4. CASE ~Over
    BY <1>0, <2>1, <2>2, <2>3, <2>4, SocketsKept DEF IInv, LimitsHold, InTime
  <2>5. CASE Over /\ wait.mode = "spin"
    <3>1. wait.ns >= US2NS(wait.timeout)
      BY <2>5 DEF Over
    <3>2. wait.timeout * Kilo < Word => wait.ns >= wait.timeout * Kilo
      BY <2>3, <3>1, US2NSExact
    <3>7. wait'.pc = "gave up" /\ wait'.mode = "spin"
      BY <2>2, <2>5
    <3>8. LimitsHold' /\ InTime'
      BY <2>2, <3>2, <3>7 DEF LimitsHold, InTime
    <3> QED BY <1>0, <2>1, <2>2, <3>8, SocketsKept DEF IInv
  <2>6. CASE Over /\ wait.mode = "broadcast"
    <3> DEFINE x == wait.phase + wait.ns
    <3>1. x \div Kilo >= wait.timeout
      BY <2>6 DEF Over
    <3>a. x \in Nat
      BY <2>3
    <3>2. x \in Nat /\ x \div Kilo \in Int /\ (x \div Kilo) * Kilo <= x
      BY <3>a, KiloDiv
    <3>3. (x \div Kilo) * Kilo >= wait.timeout * Kilo
      BY <2>3, <3>1, <3>2, Scale
    <3>4. wait.timeout * Kilo \in Int /\ (x \div Kilo) * Kilo \in Int
      BY <2>3, <3>2
    <3>5. (wait.timeout - 1) * Kilo = wait.timeout * Kilo - Kilo
      BY <2>3
    <3>6. wait.ns > (wait.timeout - 1) * Kilo
      BY <2>3, <3>2, <3>3, <3>4, <3>5
    <3>7. wait'.pc = "gave up" /\ wait'.mode = "broadcast"
      BY <2>2, <2>6
    <3>8. LimitsHold' /\ InTime'
      BY <2>2, <3>6, <3>7 DEF LimitsHold, InTime
    <3> QED BY <1>0, <2>1, <2>2, <3>8, SocketsKept DEF IInv
  <2> QED BY <2>3, <2>4, <2>5, <2>6
<1>10. ASSUME NEW us \in Timeouts, net_broadcast(us) PROVE IInv'
  <2>0. UNCHANGED <<windows, up, listed, fd>> /\ wait.own = NoSocket /\ us \in 0..Word-1
    BY <1>10, FreeCall, Constants DEF net_broadcast, Elsewhere
  <2>1. CASE UNCHANGED <<open, wait>>
    BY <1>0, <1>w, <2>0, <2>1, SocketsKept, WaitKept DEF IInv
  <2>2. ASSUME NEW s \in Sockets \ open, NEW p \in 0..Kilo-1, open' = open \cup {s},
               wait' = [NoCall EXCEPT !.pc = "try", !.mode = "broadcast", !.timeout = us,
                                      !.phase = p, !.own = s]
        PROVE  IInv'
    <3>1. wait' \in Waits /\ wait'.own = s /\ wait'.pc = "try" /\ wait'.mode = "broadcast"
      BY <2>0, <2>2, NoCallWaits DEF Waits, Modes
    <3>2. open = (IF up THEN {fd[c] : c \in listed} ELSE {}) /\ s # NoSocket
      BY <1>0, <2>0, <2>2, Constants DEF SocketsAreOwned
    <3>3. TypeOK'
      BY <1>0, <2>0, <2>2, <3>1 DEF TypeOK
    <3>4. Apart'
      BY <1>0, <2>0, <2>2, <3>1, <3>2 DEF Apart
    <3>5. SocketsAreOwned'
      BY <1>0, <2>0, <2>2, <3>1, <3>2 DEF SocketsAreOwned
    <3> QED BY <3>1, <3>3, <3>4, <3>5 DEF IInv, LimitsHold, InTime
  <2> QED BY <1>10, <2>1, <2>2 DEF net_broadcast
<1>11. CASE Return
  <2>1. UNCHANGED <<windows, up, listed, fd>> /\ wait' = NoCall /\ open' = open \ {wait.own}
    BY <1>11 DEF Return, Elsewhere
  <2>2. wait' \in Waits /\ wait'.pc = "none" /\ wait'.own = NoSocket
    BY <2>1, NoCallWaits
  <2>3. open' = IF up THEN {fd[c] : c \in listed} ELSE {}
    BY <1>0, <2>1, Constants DEF SocketsAreOwned, Apart
  <2>4. TypeOK'
    BY <1>0, <2>1, <2>2 DEF TypeOK
  <2>5. SocketsAreOwned' /\ Apart'
    BY <1>0, <2>1, <2>2, <2>3, Constants DEF SocketsAreOwned, Apart
  <2> QED BY <2>2, <2>4, <2>5 DEF IInv, LimitsHold, InTime
<1>12. CASE UNCHANGED channelVars
  BY <1>0, <1>w, <1>12, SocketsKept, WaitKept DEF channelVars, IInv
<1> QED BY <1>1, <1>2, <1>3, <1>4, <1>5, <1>6, <1>7, <1>8, <1>9, <1>10, <1>11, <1>12 DEF ChannelsNext

(* Whatever fails on the way, no socket is lost and none is shared.        *)
THEOREM SocketsOwned == ChannelsSpec => []SocketsAreOwned
<1>1. IInv => SocketsAreOwned
  BY DEF IInv
<1> QED BY <1>1, InitIInv, NextIInv, PTL DEF ChannelsSpec

(* No receive gives up before its timeout is over, with the exceptions the *)
(* property names.                                                         *)
THEOREM WaitsLongEnough == ChannelsSpec => []GivesUpInTime
<1>1. ASSUME IInv PROVE GivesUpInTime
  <2>1. ASSUME wait.pc = "gave up", wait.mode = "yield"
        PROVE  wait.timeout - Cut - Off(wait.timeout) =
                 wait.timeout - (IF windows THEN Kilo - 1 ELSE 0)
                   - (IF wait.timeout < Exact THEN 0 ELSE IF windows THEN Kilo ELSE Sec)
    BY DEF Cut, Off
  <2>2. CASE wait.pc = "gave up"
    BY <1>1, <2>1, <2>2 DEF IInv, InTime, GivesUpInTime
  <2>3. CASE wait.pc # "gave up"
    BY <2>3 DEF GivesUpInTime
  <2> QED BY <2>2, <2>3
<1> QED BY <1>1, InitIInv, NextIInv, PTL DEF ChannelsSpec

-----------------------------------------------------------------------------
(* The spectrum.                                                           *)
Places == 1..Points

FftTypes ==
  /\ samples \in Nat /\ fill \in 0..Points /\ need \in BOOLEAN
  /\ cells \in [Places -> Nat] /\ inbuf \in [Places -> Nat]
  /\ main \in [pc : {"idle", "copy", "transform", "done"}, i : 0..Points]

(* The ring holds the samples in the order they came, from the first on.   *)
FilledInOrder ==
  /\ fill < Points => samples = fill
  /\ \A i \in Places : i <= fill => cells[i] = i

(* The ring is copied only when it takes no sample any more.               *)
FullWhenCopied == need \/ main.pc # "idle" => fill = Points

(* What is copied so far, and what was transformed, are the ring's cells.  *)
CopiedInOrder ==
  /\ main.pc = "copy" => main.i \in Places /\ \A i \in Places : i < main.i => inbuf[i] = i
  /\ main.pc = "transform" => \A i \in Places : inbuf[i] = i
  /\ spectrum # <<>> => \A i \in Places : spectrum[i] = i

FftIInv == FftTypes /\ FilledInOrder /\ FullWhenCopied /\ CopiedInOrder

LEMMA FftInitIInv == FftInit => FftIInv
<1> SUFFICES ASSUME FftInit PROVE FftIInv
  OBVIOUS
<1>0. Points \in Nat \ {0}
  BY FftAssumption
<1>1. FftTypes
  <2>1. cells \in [Places -> Nat] /\ inbuf \in [Places -> Nat]
    BY DEF FftInit, Places
  <2>2. main = [pc |-> "idle", i |-> 0] /\ samples = 0 /\ fill = 0
    BY DEF FftInit, Resting
  <2>3. need \in BOOLEAN
    BY DEF FftInit
  <2>4. main \in [pc : {"idle", "copy", "transform", "done"}, i : 0..Points]
    BY <1>0, <2>2
  <2>5. samples \in Nat /\ fill \in 0..Points
    BY <1>0, <2>2
  <2> QED BY <2>1, <2>3, <2>4, <2>5 DEF FftTypes
<1>2. FilledInOrder /\ FullWhenCopied
  BY <1>0 DEF FftInit, Resting, FilledInOrder, FullWhenCopied, Places
<1>3. main.pc = "idle" /\ spectrum = <<>>
  BY DEF FftInit, Resting
<1>4. CopiedInOrder
  BY <1>3 DEF CopiedInOrder
<1> QED BY <1>1, <1>2, <1>4 DEF FftIInv

LEMMA FftNextIInv == FftIInv /\ [FftNext]_fftVars => FftIInv'
<1> SUFFICES ASSUME FftIInv, [FftNext]_fftVars PROVE FftIInv'
  OBVIOUS
<1>0. FftTypes /\ FilledInOrder /\ FullWhenCopied /\ CopiedInOrder /\ Points \in Nat \ {0}
  BY FftAssumption DEF FftIInv
<1> USE DEF Places
<1>1. CASE FftExecIn
  <2>1. UNCHANGED <<main, inbuf, spectrum>> /\ samples' = samples + 1
    BY <1>1 DEF FftExecIn
  <2>2. CopiedInOrder'
    BY <1>0, <2>1 DEF CopiedInOrder
  <2>3. CASE fill < Points
    <3>1. cells' = [cells EXCEPT ![fill + 1] = samples + 1] /\ fill' = fill + 1 /\ need' = need
      BY <1>1, <2>3 DEF FftExecIn
    <3>2. FftTypes'
      BY <1>0, <2>1, <2>3, <3>1 DEF FftTypes
    <3>3. FilledInOrder'
      BY <1>0, <2>1, <2>3, <3>1 DEF FftTypes, FilledInOrder
    <3>4. FullWhenCopied'
      BY <1>0, <2>1, <2>3, <3>1 DEF FftTypes, FullWhenCopied
    <3> QED BY <2>2, <3>2, <3>3, <3>4 DEF FftIInv
  <2>4. CASE ~(fill < Points)
    <3>1. UNCHANGED <<cells, fill>> /\ need' = TRUE
      BY <1>1, <2>4 DEF FftExecIn
    <3> QED BY <1>0, <2>1, <2>2, <2>4, <3>1 DEF FftIInv, FftTypes, FilledInOrder, FullWhenCopied
  <2> QED BY <2>3, <2>4
<1>2. CASE FftExec
  BY <1>0, <1>2 DEF FftExec, FftIInv, FftTypes, FilledInOrder, FullWhenCopied, CopiedInOrder
<1>3. CASE FftCopy
  <2>1. main.pc = "copy" /\ main.i \in Places /\ UNCHANGED <<samples, cells, fill, need, spectrum>>
    BY <1>0, <1>3 DEF FftCopy, CopiedInOrder
  <2>a. fill = Points
    BY <1>0, <2>1 DEF FullWhenCopied
  <2>b. cells[main.i] = main.i
    BY <1>0, <2>1, <2>a DEF FilledInOrder
  <2>c. inbuf' = [inbuf EXCEPT ![main.i] = cells[main.i]]
    BY <1>3 DEF FftCopy
  <2>2. inbuf' = [inbuf EXCEPT ![main.i] = main.i]
    BY <2>b, <2>c
  <2>3. /\ main.i = Points => main' = [pc |-> "transform", i |-> 0]
        /\ main.i # Points => main' = [main EXCEPT !.i = main.i + 1]
    BY <1>3 DEF FftCopy
  <2>4. FftTypes' /\ FilledInOrder' /\ FullWhenCopied'
    BY <1>0, <2>1, <2>2, <2>3 DEF FftTypes, FilledInOrder, FullWhenCopied
  <2>d. inbuf \in [Places -> Nat] /\ \A i \in Places : i < main.i => inbuf[i] = i
    BY <1>0, <2>1 DEF FftTypes, CopiedInOrder
  <2>e. \A i \in Places : i <= main.i => inbuf'[i] = i
    BY <1>0, <2>1, <2>2, <2>d
  <2>5. CopiedInOrder'
    <3>1. CASE main.i = Points
      BY <1>0, <2>1, <2>3, <2>e, <3>1 DEF CopiedInOrder
    <3>2. CASE main.i # Points
      <4>1. main'.pc = "copy" /\ main'.i = main.i + 1 /\ main.i + 1 \in Places
        BY <1>0, <2>1, <2>3, <3>2 DEF FftTypes
      <4> QED BY <1>0, <2>1, <2>e, <4>1 DEF CopiedInOrder
    <3> QED BY <3>1, <3>2
  <2> QED BY <2>4, <2>5 DEF FftIInv
<1>4. CASE FftTransform
  BY <1>0, <1>4 DEF FftTransform, FftIInv, FftTypes, FilledInOrder, FullWhenCopied, CopiedInOrder
<1>5. CASE FftDone
  <2>1. UNCHANGED <<samples, cells, fill, inbuf, spectrum>> /\ main.pc = "done"
    BY <1>5 DEF FftDone
  <2>2. main' = [pc |-> "idle", i |-> 0]
    BY <1>5 DEF FftDone, Resting
  <2>3. need' \in BOOLEAN
    BY <1>5 DEF FftDone
  <2>4. FilledInOrder' /\ FullWhenCopied' /\ CopiedInOrder'
    BY <1>0, <2>1, <2>2 DEF FilledInOrder, FullWhenCopied, CopiedInOrder
  <2> QED BY <1>0, <2>1, <2>2, <2>3, <2>4 DEF FftIInv, FftTypes
<1>6. CASE UNCHANGED fftVars
  BY <1>0, <1>6 DEF fftVars, FftIInv, FftTypes, FilledInOrder, FullWhenCopied, CopiedInOrder
<1> QED BY <1>1, <1>2, <1>3, <1>4, <1>5, <1>6 DEF FftNext

(* A spectrum is of samples passed one right after the other.              *)
THEOREM OneWindow == FftSpec => []SpectrumIsOfOneWindow
<1>1. FftIInv => SpectrumIsOfOneWindow
  BY FftAssumption DEF FftIInv, CopiedInOrder, Places, SpectrumIsOfOneWindow
<1> QED BY <1>1, FftInitIInv, FftNextIInv, PTL DEF FftSpec
=============================================================================
