-------------------------- MODULE Sequential_proof --------------------------
(***************************************************************************)
(* The components one thread uses.  Of the motor control, for any sizes:   *)
(* the windows of the polarity identification are equal, no current stays  *)
(* behind what put it on the d axis, and a calibration finds the offsets   *)
(* of the sensor and of the ADC.  Of the lists, for any heads and nodes:   *)
(* the links of ds/list.h follow the sequences the calls stand for.        *)
(***************************************************************************)
EXTENDS Foc, Lists, FiniteSetTheorems, SequenceTheorems, TLAPS

-----------------------------------------------------------------------------
(* The structure.  What the proofs do not need, angles and sums, is left   *)
(* open.                                                                   *)
Hfis == [st : {"ready", "positive", "negative", "finish"}, cnt : Nat, pos : Nat, neg : Nat,
         id : {"none", "hfi_id", "-hfi_id"}]

Structs(f) ==
  [state : {"null", "cali", "ready", "disable", "enable"}, mode : {"null", "vel", "cur"},
   last : {"null", "vel", "cur"}, theta : {"null", "sensor", "force"}, obs : {"null", "hfi"},
   cali : {"init", "cw", "ccw", "finish"}, drv : BOOLEAN,
   refd : {"none", "cali_id", "hfi_id", "-hfi_id"}, force : {f.force}, sensor : {f.sensor},
   adc : {f.adc},
   off : [sum : {f.off.sum}, cnt : Nat, hold : Nat, theta : {f.off.theta}],
   hfi : Hfis]

(* The counter of the identification tells how many samples were taken in  *)
(* either direction.                                                       *)
Counted(h) ==
  /\ h.st = "ready"    => h.cnt <= PolarMax /\ h.pos = 0 /\ h.neg = 0 /\ h.id = "none"
  /\ h.st = "positive" => /\ PolarMax < h.cnt /\ h.cnt <= 2 * PolarMax
                          /\ h.pos = h.cnt - PolarMax - 1 /\ h.neg = 0
  /\ h.st = "negative" => /\ 2 * PolarMax < h.cnt /\ h.cnt <= 3 * PolarMax
                          /\ h.pos = PolarMax /\ h.neg = h.cnt - 2 * PolarMax - 1
  /\ h.st = "finish"   => h.pos = PolarMax /\ h.neg = PolarMax

(* A current in the reference is that of the phase under way.              *)
Identifying(h) == h.st \in {"positive", "negative"} \/ h.cnt > 3 * PolarMax

Justified(f) ==
  /\ f.refd = "cali_id" => f.cali \in {"cw", "ccw"} \/ f.off.cnt > 0
  /\ f.refd \in {"hfi_id", "-hfi_id"} => Identifying(f.hfi)

Good(f) == f \in Structs(f) /\ Counted(f.hfi) /\ Justified(f)

-----------------------------------------------------------------------------
LEMMA PolarConstants == PolarMax \in Nat /\ PolarMax > 0
BY FocAssumption

LEMMA PolarStepCounts ==
  ASSUME NEW h \in Hfis, Counted(h)
  PROVE  /\ PolarStep(h) \in Hfis /\ Counted(PolarStep(h))
         /\ PolarStep(h).id \in {"hfi_id", "-hfi_id"} => Identifying(PolarStep(h))
<1> DEFINE n == [h EXCEPT !.cnt = h.cnt + 1]
           r == PolarStep(h)
<1>1. /\ n \in Hfis /\ n.st = h.st /\ n.cnt = h.cnt + 1 /\ n.pos = h.pos /\ n.neg = h.neg
      /\ n.id = h.id
  BY DEF Hfis
<1>2. h.cnt \in Nat /\ h.pos \in Nat /\ h.neg \in Nat
  BY DEF Hfis
<1>3. CASE h.st = "ready"
  <2>1. r = [n EXCEPT !.st = IF h.cnt = 1 * PolarMax THEN "positive" ELSE "ready"]
    BY <1>3 DEF PolarStep, PolarIdf
  <2> HIDE DEF r, n
  <2>2. /\ r \in Hfis /\ r.st = IF h.cnt = 1 * PolarMax THEN "positive" ELSE "ready"
        /\ r.cnt = h.cnt + 1 /\ r.pos = h.pos /\ r.neg = h.neg /\ r.id = h.id
    BY <1>1, <2>1 DEF Hfis
  <2>3. h.cnt <= PolarMax /\ h.pos = 0 /\ h.neg = 0 /\ h.id = "none"
    BY <1>3 DEF Counted
  <2>4. Counted(r) /\ r.id = "none"
    BY <1>2, <2>2, <2>3, PolarConstants DEF Counted
  <2> QED BY <2>2, <2>4 DEF r
<1>4. CASE h.st = "positive"
  <2> DEFINE to == IF h.cnt = 2 * PolarMax THEN "negative" ELSE "positive"
             k  == h.pos + 1
  <2>1. r = [n EXCEPT !.id = "hfi_id", !.pos = k, !.st = to]
    BY <1>4 DEF PolarStep, PolarIdf
  <2>4. k \in Nat /\ to \in {"negative", "positive"}
    BY <1>2
  <2> HIDE DEF r, n, to, k
  <2>2. /\ r \in Hfis /\ r.st = to /\ r.cnt = h.cnt + 1
        /\ r.pos = k /\ r.neg = h.neg
    BY <1>1, <2>1, <2>4 DEF Hfis
  <2>3. /\ PolarMax < h.cnt /\ h.cnt <= 2 * PolarMax
        /\ h.pos = h.cnt - PolarMax - 1 /\ h.neg = 0
    BY <1>4 DEF Counted
  <2>5. Counted(r) /\ Identifying(r)
    BY <1>2, <2>2, <2>3, PolarConstants DEF Counted, Identifying, to, k
  <2> QED BY <2>2, <2>5 DEF r
<1>5. CASE h.st = "negative"
  <2> DEFINE to == IF h.cnt = 3 * PolarMax THEN "finish" ELSE "negative"
             k  == h.neg + 1
  <2>1. r = [n EXCEPT !.id = "-hfi_id", !.neg = k, !.st = to]
    BY <1>5 DEF PolarStep, PolarIdf
  <2>4. k \in Nat /\ to \in {"finish", "negative"}
    BY <1>2
  <2> HIDE DEF r, n, to, k
  <2>2. /\ r \in Hfis /\ r.st = to /\ r.cnt = h.cnt + 1
        /\ r.pos = h.pos /\ r.neg = k
    BY <1>1, <2>1, <2>4 DEF Hfis
  <2>3. /\ 2 * PolarMax < h.cnt /\ h.cnt <= 3 * PolarMax
        /\ h.pos = PolarMax /\ h.neg = h.cnt - 2 * PolarMax - 1
    BY <1>5 DEF Counted
  <2>5. Counted(r) /\ Identifying(r)
    BY <1>2, <2>2, <2>3, PolarConstants DEF Counted, Identifying, to, k
  <2> QED BY <2>2, <2>5 DEF r
<1>6. CASE h.st = "finish"
  <2>1. r = [h EXCEPT !.id = "none", !.cnt = 0]
    BY <1>6 DEF PolarStep, PolarIdf
  <2> HIDE DEF r, n
  <2>2. /\ r \in Hfis /\ r.st = "finish" /\ r.id = "none" /\ r.pos = h.pos /\ r.neg = h.neg
    BY <1>6, <2>1 DEF Hfis
  <2>3. Counted(r)
    BY <1>6, <2>2 DEF Counted
  <2> QED BY <2>2, <2>3 DEF r
<1>7. h.st \in {"ready", "positive", "negative", "finish"}
  BY DEF Hfis
<1> QED BY <1>3, <1>4, <1>5, <1>6, <1>7

-----------------------------------------------------------------------------
(* The functions of foc_exec keep the structure good; those that do not    *)
(* end a phase keep the phases too.                                        *)
Same(f, g) ==
  /\ g.state = f.state /\ g.cali = f.cali /\ g.off = f.off /\ g.refd = f.refd /\ g.hfi = f.hfi

LEMMA RotorCalGood ==
  ASSUME NEW f, Good(f)
  PROVE  Good(foc_rotor_cal(f)) /\ Same(f, foc_rotor_cal(f))
<1> DEFINE x == IF f.off.theta = NoAngle THEN NoAngle ELSE WARP_TAU(rotor - f.off.theta)
           g == [f EXCEPT !.sensor = x]
<1>1. foc_rotor_cal(f) = g
  BY DEF foc_rotor_cal
<1> HIDE DEF x
<1>2. g \in Structs(g) /\ Same(f, g)
  BY DEF Good, Structs, Same
<1> HIDE DEF g
<1>3. Good(g)
  BY <1>2 DEF Good, Same, Justified
<1> QED BY <1>1, <1>2, <1>3

LEMMA EnableGood ==
  ASSUME NEW f, Good(f)
  PROVE  Good(foc_enable(f)) /\ (f.state # "enable" => Same(f, foc_enable(f)))
<1> DEFINE a == [f EXCEPT !.drv = TRUE]
           b == foc_obs_i_dq(a)
           c == [b EXCEPT !.last = b.mode]
<1>1. foc_enable(f) = c
  BY DEF foc_enable, foc_select_mode
<1>2. a \in Structs(a) /\ Same(f, a)
  BY DEF Good, Structs, Same
<1> HIDE DEF a
<1>3. Good(a)
  BY <1>2 DEF Good, Same, Justified
<1>4. Good(b) /\ (a.state # "enable" => b = a)
  <2>1. CASE a.obs # "hfi" \/ a.state # "enable"
    BY <1>3, <2>1 DEF foc_obs_i_dq
  <2>2. CASE ~(a.obs # "hfi" \/ a.state # "enable")
    <3> DEFINE h == PolarStep(a.hfi)
    <3>1. b = [a EXCEPT !.hfi = h, !.refd = h.id]
      BY <2>2 DEF foc_obs_i_dq
    <3>2. /\ h \in Hfis /\ Counted(h) /\ (h.id \in {"hfi_id", "-hfi_id"} => Identifying(h))
      <4>1. a.hfi \in Hfis /\ Counted(a.hfi)
        BY <1>3 DEF Good, Structs
      <4> QED BY <4>1, PolarStepCounts
    <3> HIDE DEF h, b
    <3>3. h.id \in {"none", "hfi_id", "-hfi_id"}
      BY <3>2 DEF Hfis
    <3>4. b \in Structs(b) /\ b.hfi = h /\ b.refd = h.id
      <4> DEFINE r == h.id
      <4>1. b = [a EXCEPT !.hfi = h, !.refd = r] /\ r \in {"none", "hfi_id", "-hfi_id"}
        BY <3>1, <3>3
      <4> DEFINE k == [a EXCEPT !.refd = r]
                 l == [k EXCEPT !.hfi = h]
      <4>2. b = l
        BY <4>1
      <4> HIDE DEF r
      <4>3. k \in Structs(k) /\ k.refd = r
        BY <1>3, <4>1 DEF Good, Structs
      <4> HIDE DEF k
      <4>4. l \in Structs(l) /\ l.hfi = h /\ l.refd = r
        BY <3>2, <4>3 DEF Structs
      <4> HIDE DEF l
      <4> QED BY <4>2, <4>4 DEF r
    <3>5. Good(b)
      BY <3>2, <3>3, <3>4 DEF Good, Justified
    <3> QED BY <2>2, <3>5 DEF b
  <2> QED BY <2>1, <2>2
<1> HIDE DEF b
<1>5. c \in Structs(c) /\ Same(b, c)
  BY <1>4 DEF Good, Structs, Same
<1> HIDE DEF c
<1>6. Good(c)
  BY <1>4, <1>5 DEF Good, Same, Justified
<1>7. f.state # "enable" => Same(f, c)
  BY <1>2, <1>4, <1>5 DEF Same
<1> QED BY <1>1, <1>6, <1>7

LEMMA DisableGood ==
  ASSUME NEW f, Good(f)
  PROVE  Good(foc_disable(f))
<1> DEFINE h == [f.hfi EXCEPT !.id = "none"]
           g == [f EXCEPT !.drv = FALSE, !.hfi = h]
<1>0. f \in Structs(f) /\ f.hfi \in Hfis
  BY DEF Good, Structs
<1>1. foc_disable(f) = g
  BY <1>0 DEF foc_disable, Structs
<1>2. h \in Hfis /\ h.st = f.hfi.st /\ h.cnt = f.hfi.cnt /\ h.pos = f.hfi.pos
      /\ h.neg = f.hfi.neg /\ h.id = "none"
  BY <1>0 DEF Hfis
<1> HIDE DEF h
<1>3. /\ g \in Structs(g) /\ g.hfi = h /\ g.refd = f.refd /\ g.cali = f.cali /\ g.off = f.off
  BY <1>0, <1>2 DEF Structs
<1>4. Counted(h)
  BY <1>2 DEF Good, Counted
<1> HIDE DEF g
<1>5. Justified(g)
  BY <1>2, <1>3 DEF Good, Justified, Identifying
<1> QED BY <1>1, <1>3, <1>4, <1>5 DEF Good

LEMMA CaliInitGood ==
  ASSUME NEW f, Good(f)
  PROVE  Good(CaliInit(f))
<1> DEFINE sum == f.adc.offset + Raw
           end == f.adc.cnt + 1 >= 2 ^ AdcLog
           d   == ~end
           x   == [offset |-> IF end THEN sum \div 2 ^ AdcLog ELSE sum, cnt |-> f.adc.cnt + 1]
           g   == [f EXCEPT !.drv = d, !.adc = x]
           e   == [g EXCEPT !.refd = "cali_id", !.mode = "cur", !.theta = "force", !.cali = "cw"]
<1>1. CaliInit(f) = IF g.drv THEN g ELSE e
  BY DEF CaliInit, foc_adc_cali
<1>2. d \in BOOLEAN
  OBVIOUS
<1> HIDE DEF d, x
<1>3. g \in Structs(g) /\ Same(f, g)
  BY <1>2 DEF Good, Structs, Same
<1> HIDE DEF g
<1>4. Good(g)
  BY <1>3 DEF Good, Same, Justified
<1>5. e \in Structs(e) /\ e.cali = "cw" /\ e.refd = "cali_id" /\ e.hfi = g.hfi
  <2> DEFINE e1 == [g EXCEPT !.refd = "cali_id"]
             e2 == [e1 EXCEPT !.mode = "cur"]
             e3 == [e2 EXCEPT !.theta = "force"]
             e4 == [e3 EXCEPT !.cali = "cw"]
  <2>1. e = e4
    OBVIOUS
  <2>2. e1 \in Structs(e1) /\ e1.refd = "cali_id" /\ e1.hfi = g.hfi
    BY <1>4 DEF Good, Structs
  <2> HIDE DEF e1, e
  <2>3. e2 \in Structs(e2) /\ e2.refd = "cali_id" /\ e2.hfi = g.hfi
    BY <2>2 DEF Structs
  <2> HIDE DEF e2
  <2>4. e3 \in Structs(e3) /\ e3.refd = "cali_id" /\ e3.hfi = g.hfi
    BY <2>3 DEF Structs
  <2> HIDE DEF e3
  <2>5. e4 \in Structs(e4) /\ e4.cali = "cw" /\ e4.refd = "cali_id" /\ e4.hfi = g.hfi
    BY <2>4 DEF Structs
  <2> HIDE DEF e4
  <2> QED BY <2>1, <2>5
<1> HIDE DEF e
<1>6. Good(e)
  BY <1>4, <1>5 DEF Good, Justified
<1> QED BY <1>1, <1>4, <1>6

(* A turn that ends a phase has counted a sample.                          *)
LEMMA CaliTurnGood ==
  ASSUME NEW f, Good(f), f.state = "cali", f.cali \in {"cw", "ccw"},
         NEW from, NEW to, NEW turns, NEW phase \in {"ccw", "finish"}
  PROVE  Good(CaliTurn(f, from, to, turns, phase))
<1> DEFINE g    == foc_enable(f)
           held == g.off.hold + 1
           cnt  == g.off.cnt + 1
           sum  == IF NoAngle \in {g.sensor, g.off.sum} THEN NoAngle ELSE g.off.sum + g.sensor
           off  == [g.off EXCEPT !.hold = 0, !.cnt = cnt, !.sum = sum]
           hold == [g.off EXCEPT !.hold = held]
           a    == [g EXCEPT !.force = IF from < to THEN @ + Step ELSE @ - Step]
           b    == [g EXCEPT !.force = to, !.off = hold]
           c    == [g EXCEPT !.force = to, !.off = off, !.cali = phase]
           d    == [g EXCEPT !.force = from, !.off = off]
<1>1. Good(g) /\ Same(f, g)
  BY EnableGood
<1>2. g.off \in [sum : {g.off.sum}, cnt : Nat, hold : Nat, theta : {g.off.theta}]
  BY <1>1 DEF Good, Structs
<1>3. CaliTurn(f, from, to, turns, phase) \in {g, a, b, c, d}
  BY <1>2 DEF CaliTurn
<1>4. cnt \in Nat /\ cnt > 0 /\ held \in Nat
  BY <1>2
<1> HIDE DEF g, cnt, held, sum
<1>5. /\ off \in [sum : {off.sum}, cnt : Nat, hold : Nat, theta : {off.theta}] /\ off.cnt = cnt
      /\ hold \in [sum : {hold.sum}, cnt : Nat, hold : Nat, theta : {hold.theta}]
  BY <1>2, <1>4
<1> HIDE DEF off, hold
<1>6. Good(a)
  <2> DEFINE x == IF from < to THEN g.force + Step ELSE g.force - Step
             y == [g EXCEPT !.force = x]
  <2>1. a = y
    BY <1>1 DEF Good, Structs
  <2> HIDE DEF x
  <2>2. y \in Structs(y) /\ Same(g, y)
    BY <1>1 DEF Good, Structs, Same
  <2> HIDE DEF y
  <2>3. Good(y)
    BY <1>1, <2>2 DEF Good, Same, Justified
  <2> HIDE DEF a
  <2> QED BY <2>1, <2>3
<1>7. Good(b)
  <2>1. b \in Structs(b) /\ b.cali = g.cali /\ b.refd = g.refd /\ b.hfi = g.hfi
    BY <1>1, <1>5 DEF Good, Structs
  <2> HIDE DEF b
  <2> QED BY <1>1, <2>1 DEF Good, Same, Justified
<1>8. Good(c)
  <2>1. c \in Structs(c) /\ c.off = off /\ c.refd = g.refd /\ c.hfi = g.hfi
    BY <1>1, <1>5 DEF Good, Structs
  <2> HIDE DEF c
  <2>2. c.off.cnt > 0
    BY <1>4, <1>5, <2>1
  <2> QED BY <1>1, <2>1, <2>2 DEF Good, Justified
<1>9. Good(d)
  <2>1. d \in Structs(d) /\ d.cali = g.cali /\ d.refd = g.refd /\ d.hfi = g.hfi
    BY <1>1, <1>5 DEF Good, Structs
  <2> HIDE DEF d
  <2> QED BY <1>1, <2>1 DEF Good, Same, Justified
<1> HIDE DEF a, b, c, d
<1> QED BY <1>1, <1>3, <1>6, <1>7, <1>8, <1>9

LEMMA CaliFinishGood ==
  ASSUME NEW f, Good(f)
  PROVE  Good(CaliFinish(f))
<1> DEFINE g == foc_disable(f)
           t == IF f.off.cnt = 0 \/ f.off.sum = NoAngle THEN NoAngle
                ELSE f.off.sum \div f.off.cnt
           o == [g.off EXCEPT !.theta = t, !.cnt = 0]
           x == [g.adc EXCEPT !.cnt = 0]
           e == [g EXCEPT !.off = o, !.adc = x, !.refd = "none", !.force = 0,
                          !.mode = "null", !.theta = "null", !.state = "ready"]
<1>1. Good(g)
  BY DisableGood
<1>2. g.off \in [sum : {g.off.sum}, cnt : Nat, hold : Nat, theta : {g.off.theta}]
  BY <1>1 DEF Good, Structs
<1>3. CaliFinish(f) = e
  BY <1>1 DEF CaliFinish, Good, Structs
<1> HIDE DEF g, t, x
<1>4. o \in [sum : {o.sum}, cnt : Nat, hold : Nat, theta : {o.theta}]
  BY <1>2
<1> HIDE DEF o
<1>5. e \in Structs(e) /\ e.refd = "none" /\ e.hfi = g.hfi
  <2> DEFINE e1 == [g EXCEPT !.off = o, !.adc = x]
             e2 == [e1 EXCEPT !.refd = "none", !.force = 0]
             e3 == [e2 EXCEPT !.mode = "null"]
             e4 == [e3 EXCEPT !.theta = "null"]
             e5 == [e4 EXCEPT !.state = "ready"]
  <2>1. e = e5
    OBVIOUS
  <2>2. e1 \in Structs(e1) /\ e1.hfi = g.hfi
    BY <1>1, <1>4 DEF Good, Structs
  <2> HIDE DEF e1, e
  <2>3. e2 \in Structs(e2) /\ e2.refd = "none" /\ e2.hfi = g.hfi
    BY <2>2 DEF Structs
  <2> HIDE DEF e2
  <2>4. e3 \in Structs(e3) /\ e3.refd = "none" /\ e3.hfi = g.hfi
    BY <2>3 DEF Structs
  <2> HIDE DEF e3
  <2>5. e4 \in Structs(e4) /\ e4.refd = "none" /\ e4.hfi = g.hfi
    BY <2>4 DEF Structs
  <2> HIDE DEF e4
  <2>6. e5 \in Structs(e5) /\ e5.refd = "none" /\ e5.hfi = g.hfi
    BY <2>5 DEF Structs
  <2> HIDE DEF e5
  <2> QED BY <2>1, <2>6
<1> HIDE DEF e
<1>6. Good(e)
  BY <1>1, <1>5 DEF Good, Justified
<1> QED BY <1>3, <1>6

LEMMA CaliGood ==
  ASSUME NEW f, Good(f), f.state = "cali"
  PROVE  Good(foc_cali(f))
<1>1. f.cali \in {"init", "cw", "ccw", "finish"}
  BY DEF Good, Structs
<1>2. CASE f.cali = "init"
  <2>1. foc_cali(f) = CaliInit(f)
    BY <1>2 DEF foc_cali
  <2> QED BY <2>1, CaliInitGood
<1>3. CASE f.cali = "cw"
  <2>1. foc_cali(f) = CaliTurn(f, 0, Tau, Npp, "ccw")
    BY <1>3 DEF foc_cali
  <2> QED BY <1>3, <2>1, CaliTurnGood
<1>4. CASE f.cali = "ccw"
  <2>1. foc_cali(f) = CaliTurn(f, Tau, 0, 2 * Npp, "finish")
    BY <1>4 DEF foc_cali, CaliCcw
  <2> QED BY <1>4, <2>1, CaliTurnGood
<1>5. CASE f.cali = "finish"
  <2>1. foc_cali(f) = CaliFinish(f)
    BY <1>5 DEF foc_cali
  <2> QED BY <2>1, CaliFinishGood
<1> QED BY <1>1, <1>2, <1>3, <1>4, <1>5

LEMMA ExecGood ==
  ASSUME NEW g, Good(g)
  PROVE  Good(foc_exec(g))
<1> DEFINE f == foc_rotor_cal(g)
<1>1. Good(f)
  BY RotorCalGood
<1>2. /\ f.state = "cali" => foc_exec(g) = foc_cali(f)
      /\ f.state = "disable" => foc_exec(g) = foc_disable(f)
      /\ f.state = "enable" => foc_exec(g) = foc_enable(f)
      /\ f.state \notin {"cali", "disable", "enable"} => foc_exec(g) = f
  BY DEF foc_exec
<1> HIDE DEF f
<1> QED BY <1>1, <1>2, CaliGood, DisableGood, EnableGood

-----------------------------------------------------------------------------
LEMMA FocInitGood == FocInit => Good(foc)
<1> SUFFICES ASSUME FocInit PROVE Good(foc)
  OBVIOUS
<1> DEFINE h == [st |-> "ready", cnt |-> 0, pos |-> 0, neg |-> 0, id |-> "none"]
           a == [offset |-> 0, cnt |-> 0]
           o == [sum |-> 0, cnt |-> 0, hold |-> 0, theta |-> 0]
<1>1. foc = [state |-> "null", mode |-> "null", last |-> "null", theta |-> "null",
             obs |-> "null", cali |-> "init", drv |-> FALSE, refd |-> "none", force |-> 0,
             sensor |-> 0, adc |-> a, off |-> o, hfi |-> h]
  BY DEF FocInit
<1>2. /\ h \in Hfis /\ Counted(h)
      /\ o \in [sum : {o.sum}, cnt : Nat, hold : Nat, theta : {o.theta}]
  BY PolarConstants DEF Hfis, Counted
<1> HIDE DEF h, a, o
<1>3. foc \in Structs(foc) /\ foc.hfi = h /\ foc.refd = "none"
  BY <1>1, <1>2 DEF Structs
<1> QED BY <1>2, <1>3 DEF Good, Justified

LEMMA FocNextGood == Good(foc) /\ [FocNext]_focVars => Good(foc)'
<1> SUFFICES ASSUME Good(foc), [FocNext]_focVars PROVE Good(foc')
  OBVIOUS
<1>1. CASE Exec
  BY <1>1, ExecGood DEF Exec
<1>2. ASSUME NEW s \in {"cali", "ready", "disable", "enable"}, SetState(s)
      PROVE  Good(foc')
  <2> DEFINE g == [foc EXCEPT !.state = s]
  <2>1. foc' = g
    BY <1>2 DEF SetState
  <2>2. g \in Structs(g) /\ g.refd = foc.refd /\ g.cali = foc.cali /\ g.off = foc.off
        /\ g.hfi = foc.hfi
    BY <1>2 DEF Good, Structs
  <2> HIDE DEF g
  <2>3. Good(g)
    BY <2>2 DEF Good, Justified
  <2> QED BY <2>1, <2>3
<1>3. ASSUME NEW c \in {<<foc.mode, foc.theta>>, <<"vel", "sensor">>}, NEW o \in {"null", "hfi"},
             SetControl(c[1], c[2], o)
      PROVE  Good(foc')
  <2> DEFINE m == c[1]
             t == c[2]
             a == [foc EXCEPT !.mode = m]
             b == [a EXCEPT !.theta = t]
             g == [b EXCEPT !.obs = o]
  <2>1. m \in {"null", "vel", "cur"} /\ t \in {"null", "sensor", "force"}
    <3>1. foc.mode \in {"null", "vel", "cur"} /\ foc.theta \in {"null", "sensor", "force"}
      BY DEF Good, Structs
    <3> QED BY <1>3, <3>1
  <2>2. foc' = g
    BY <1>3 DEF SetControl
  <2> HIDE DEF m, t
  <2>3. a \in Structs(a) /\ Same(foc, a)
    BY <2>1 DEF Good, Structs, Same
  <2> HIDE DEF a
  <2>4. b \in Structs(b) /\ Same(foc, b)
    BY <2>1, <2>3 DEF Structs, Same
  <2> HIDE DEF b
  <2>5. g \in Structs(g) /\ Same(foc, g)
    BY <1>3, <2>4 DEF Structs, Same
  <2> HIDE DEF g
  <2>6. Good(g)
    BY <2>5 DEF Good, Same, Justified
  <2> QED BY <2>2, <2>6
<1>4. CASE UNCHANGED focVars
  BY <1>4 DEF focVars
<1> QED BY <1>1, <1>2, <1>3, <1>4 DEF FocNext

(* Whatever the application sets between the calls of foc_exec, the        *)
(* counter of hfi_polar_idf tells how many samples were taken in either    *)
(* direction, and a current in the reference is that of a phase under way. *)
THEOREM FocInvariance == FocSpec => []Good(foc)
BY FocInitGood, FocNextGood, PTL DEF FocSpec

LEMMA WindowsFollow == Good(foc) => PolarityWindowsAreEqual
BY DEF Good, Counted, PolarityWindowsAreEqual

(* The polarity is decided on as many samples of one direction as of the   *)
(* other (hfi_polar_idf).                                                  *)
THEOREM WindowsAreEqual == FocSpec => []PolarityWindowsAreEqual
BY FocInvariance, WindowsFollow, PTL

LEMMA CurrentFollows == Good(foc) => NoCurrentIsLeft
BY DEF Good, Justified, Identifying, NoCurrentIsLeft

(* A calibration or an identification that has come to its end leaves no   *)
(* current in the d reference (foc_cali, foc_obs_i_dq).                    *)
THEOREM CurrentEnds == FocSpec => []NoCurrentIsLeft
BY FocInvariance, CurrentFollows, PTL
-----------------------------------------------------------------------------
(* The calibration.  While the field turns by Step at a time, the rotor is *)
(* d behind it, in the direction of the turn; Follow keeps d within Lag.   *)
Clamp(d) == IF d > Lag THEN Lag ELSE IF d < -Lag THEN -Lag ELSE d

(* The steps of a turn, the last of which may carry the field beyond its   *)
(* end; put back to the end, it leaves the rotor Gap behind.               *)
Steps == (Tau + Step - 1) \div Step

Gap == Clamp(Lag - (Step * Steps - Tau))

(* The rotor x stands d behind a field at the angle force.                 *)
Lags(x, force, d, z) == \E m \in Int : x = force + z - d + m * Tau

(* A turn that has come to p, d ahead of the rotor.  Before it is held it  *)
(* has taken a number of steps, and the rotor is Lag behind unless the     *)
(* field has just started.                                                 *)
Sweep(p, d, hold) ==
  /\ hold \in 0..Hold-1 /\ d \in -Lag..Lag
  /\ hold > 0 => p = Tau /\ d = Gap
  /\ hold = 0 => /\ \E i \in 0..Steps : p = Step * i
                 /\ d = Lag \/ d >= p - Lag

Adcs(f) == [offset : {f.adc.offset}, cnt : {f.adc.cnt}]

(* While the field turns, the structure is as the end of the ADC's         *)
(* calibration left it.                                                    *)
Driven(f) ==
  /\ f.state = "cali" /\ f.refd = "cali_id" /\ f.mode = "cur" /\ f.theta = "force"
  /\ f.adc \in Adcs(f) /\ f.off.theta = 0 /\ f.adc.offset = Raw

Sampling(f, x, z) ==
  /\ f.cali = "init" /\ f.refd # "cali_id" /\ f.force = 0 /\ x = z
  /\ f.off.sum = 0 /\ f.off.cnt = 0 /\ f.off.hold = 0 /\ f.off.theta = 0
  /\ f.adc \in Adcs(f) /\ f.adc.cnt \in Nat /\ f.adc.cnt < 2 ^ AdcLog /\ f.adc.offset = f.adc.cnt * Raw

(* Every sample on the way forth is Gap short of the offset z, every one   *)
(* on the way back Gap beyond it.                                          *)
TurningCw(f, x, z) ==
  /\ f.cali = "cw" /\ Driven(f) /\ f.force \in Int /\ x \in 0..Npp*Tau-1
  /\ f.off.cnt < Npp /\ f.off.sum = f.off.cnt * z - f.off.cnt * Gap
  /\ \E d \in -Lag..Lag : Lags(x, f.force, d, z) /\ Sweep(f.force, d, f.off.hold)

TurningCcw(f, x, z) ==
  /\ f.cali = "ccw" /\ Driven(f) /\ f.force \in Int /\ x \in 0..Npp*Tau-1
  /\ f.off.cnt >= Npp /\ f.off.cnt < 2 * Npp
  /\ f.off.sum = f.off.cnt * z - (2 * Npp - f.off.cnt) * Gap
  /\ \E d \in -Lag..Lag : Lags(x, f.force, -d, z) /\ Sweep(Tau - f.force, d, f.off.hold)

Turned(f, z) ==
  f.cali = "finish" /\ Driven(f) /\ f.off.cnt = 2 * Npp /\ f.off.sum = (2 * Npp) * z

Calibrated(f, z) ==
  /\ f.cali = "finish" /\ f.off.cnt = 0 /\ f.off.theta \in {z, NoAngle}
  /\ f.adc \in Adcs(f) /\ f.adc.offset = Raw

OnItsWay(f, x, z) ==
  \/ Sampling(f, x, z) \/ TurningCw(f, x, z) \/ TurningCcw(f, x, z)
  \/ Turned(f, z) \/ Calibrated(f, z)

(* The sensor does not pass from TAU to 0 where it is read.                *)
Readable(z) == Lag < z /\ z + Lag < Tau

OffsetIInv ==
  /\ Good(foc) /\ zero \in 0..Tau-1
  /\ whole /\ Readable(zero) => OnItsWay(foc, rotor, zero)

(* A held angle stands at the end of the turn; without a hold the turn has *)
(* to end there by itself.                                                 *)
EndsMeet == Hold > 1 \/ Tau % Step = 0

-----------------------------------------------------------------------------
LEMMA FocConstants ==
  /\ Tau \in Nat /\ Step \in Nat /\ Npp \in Nat /\ Hold \in Nat /\ Lag \in Nat /\ Raw \in Nat
  /\ AdcLog \in Nat
  /\ Step > 0 /\ Npp > 0 /\ Hold > 0 /\ Tau > 2 * (Step + Lag) /\ Zeros \subseteq 0..Tau-1
  /\ NoAngle \notin Int
BY FocAssumption

LEMMA Times ==
  ASSUME NEW a \in Int, NEW b \in Int, NEW c \in Int
  PROVE  /\ a * b \in Int /\ a * b = b * a
         /\ (a + b) * c = a * c + b * c /\ (a - b) * c = a * c - b * c
OBVIOUS

LEMMA TimesMono ==
  ASSUME NEW a \in Int, NEW b \in Int, NEW c \in Nat, a <= b
  PROVE  a * c <= b * c
<1>1. (b - a) * c >= 0
  OBVIOUS
<1> QED BY <1>1, Times

LEMMA Euclid ==
  ASSUME NEW a \in Int, NEW n \in Nat, n > 0
  PROVE  /\ a \div n \in Int /\ a % n \in 0..n-1
         /\ a = n * (a \div n) + (a % n)
OBVIOUS

(* The remainder is the only one.                                          *)
LEMMA Remainder ==
  ASSUME NEW a \in Int, NEW n \in Nat, n > 0, NEW q \in Int, NEW r \in 0..n-1, a = q * n + r
  PROVE  a % n = r /\ a \div n = q
<1> DEFINE k == a \div n
           s == a % n
<1>1. k \in Int /\ s \in 0..n-1 /\ a = k * n + s
  BY Euclid, Times
<1> HIDE DEF k, s
<1>2. CASE k = q
  BY <1>1, <1>2 DEF k, s
<1>3. CASE k < q
  <2>1. (k + 1) * n <= q * n
    BY <1>1, <1>3, TimesMono
  <2>2. (k + 1) * n = k * n + 1 * n
    BY <1>1, Times
  <2>3. k * n \in Int /\ q * n \in Int
    BY <1>1
  <2> QED BY <1>1, <2>1, <2>2, <2>3
<1>4. CASE k > q
  <2>1. (q + 1) * n <= k * n
    BY <1>1, <1>4, TimesMono
  <2>2. (q + 1) * n = q * n + 1 * n
    BY <1>1, Times
  <2>3. k * n \in Int /\ q * n \in Int
    BY <1>1
  <2> QED BY <1>1, <2>1, <2>2, <2>3
<1> QED BY <1>1, <1>2, <1>3, <1>4

(* The number of ADC samples: the subsets of AdcLog numbers.               *)
LEMMA Samples == 2 ^ AdcLog \in Nat /\ 2 ^ AdcLog > 0
<1>1. IsFiniteSet(1..AdcLog) /\ Cardinality(1..AdcLog) = AdcLog
  BY FocConstants, FS_Interval
<1>2. IsFiniteSet(SUBSET (1..AdcLog)) /\ Cardinality(SUBSET (1..AdcLog)) = 2 ^ AdcLog
  BY <1>1, FS_SUBSET
<1>3. Cardinality(SUBSET (1..AdcLog)) \in Nat /\ SUBSET (1..AdcLog) # {}
  BY <1>2, FS_CardinalityType
<1> QED BY <1>2, <1>3, FS_EmptySet

(* The steps end beyond the turn, by less than a step.                     *)
LEMMA LastStep ==
  /\ Steps \in Nat /\ Step * Steps \in Nat
  /\ Tau <= Step * Steps /\ Step * Steps < Tau + Step
  /\ Tau % Step = 0 => Step * Steps = Tau
<1> DEFINE a == Tau + Step - 1
<1>1. a \in Nat /\ a = Step * Steps + (a % Step) /\ a % Step \in 0..Step-1 /\ Steps \in Int
  BY FocConstants, Euclid DEF Steps
<1> HIDE DEF a
<1>2. Step * Steps \in Int
  BY <1>1, FocConstants
<1>3. Tau <= Step * Steps /\ Step * Steps < Tau + Step
  BY <1>1, <1>2, FocConstants DEF a
<1>4. Steps \in Nat
  <2>1. CASE Steps <= 0
    <3>1. Steps * Step <= 0 * Step
      BY <1>1, <2>1, TimesMono, FocConstants
    <3> QED BY <1>1, <1>3, <3>1, Times, FocConstants
  <2> QED BY <1>1, <2>1
<1>5. ASSUME Tau % Step = 0 PROVE Step * Steps = Tau
  <2> DEFINE k == Tau \div Step
  <2>1. k \in Int /\ Tau = Step * k
    BY <1>5, Euclid, FocConstants
  <2>2. a = k * Step + (Step - 1)
    BY <2>1, Times, FocConstants DEF a
  <2>3. a \div Step = k
    BY <1>1, <2>1, <2>2, Remainder, FocConstants
  <2> QED BY <2>1, <2>3 DEF Steps, a
<1> QED BY <1>2, <1>3, <1>4, <1>5, FocConstants

LEMMA GapIsSmall ==
  /\ Gap \in -Lag..Lag /\ Clamp(Gap) = Gap /\ Clamp(-Gap) = -Gap
  /\ Step * Steps = Tau => Gap = Lag
BY LastStep, FocConstants DEF Gap, Clamp

(* A step of a turn.                                                       *)
LEMMA SweepStep ==
  ASSUME NEW p \in Int, NEW d \in Int, NEW h \in Int, Sweep(p, d, h), p < Tau
  PROVE  h = 0 /\ Sweep(p + Step, Clamp(d + Step), 0)
<1>1. h = 0 /\ d \in -Lag..Lag /\ (d = Lag \/ d >= p - Lag)
  BY FocConstants DEF Sweep
<1>2. PICK i \in 0..Steps : p = Step * i
  BY <1>1 DEF Sweep
<1>3. i # Steps /\ i \in Nat /\ i <= Steps
  BY <1>2, LastStep, FocConstants
<1>4. i + 1 \in 0..Steps /\ p + Step = Step * (i + 1)
  <2>1. (i + 1) * Step = i * Step + 1 * Step
    BY <1>2, Times, FocConstants
  <2> QED BY <1>2, <1>3, <2>1, LastStep, Times, FocConstants
<1>5. /\ Clamp(d + Step) \in -Lag..Lag
      /\ Clamp(d + Step) = Lag \/ Clamp(d + Step) >= p + Step - Lag
  BY <1>1, FocConstants DEF Clamp
<1>6. 0 \in 0..Hold-1
  BY FocConstants
<1>7. \E j \in 0..Steps : p + Step = Step * j
  BY <1>4
<1> DEFINE q == p + Step
           e == Clamp(d + Step)
<1>8. Sweep(q, e, 0)
  <2> HIDE DEF q, e
  <2> SUFFICES /\ e \in -Lag..Lag
               /\ e = Lag \/ e >= q - Lag
               /\ \E j \in 0..Steps : q = Step * j
    BY <1>6 DEF Sweep
  <2>1. \E j \in 0..Steps : q = Step * j
    BY <1>7 DEF q
  <2>2. e \in -Lag..Lag /\ (e = Lag \/ e >= q - Lag)
    BY <1>5, FocConstants DEF q, e
  <2> QED BY <2>1, <2>2
<1> QED BY <1>1, <1>8

(* The end of a turn.                                                      *)
LEMMA SweepEnd ==
  ASSUME EndsMeet, NEW p \in Int, NEW d \in Int, NEW h \in Int, Sweep(p, d, h), p >= Tau
  PROVE  /\ h + 1 < Hold => Clamp(d + Tau - p) = Gap /\ Sweep(Tau, Gap, h + 1)
         /\ ~(h + 1 < Hold) => p = Tau /\ d = Gap
         /\ Tau - p <= 0 /\ Tau - p > -Step
<1>1. h \in 0..Hold-1 /\ d \in -Lag..Lag
  BY DEF Sweep
<1>2. CASE h > 0
  <2>1. p = Tau /\ d = Gap
    BY <1>2 DEF Sweep
  <2>2. Clamp(d + Tau - p) = Gap
    <3>1. d + Tau - p = Gap
      BY <2>1, GapIsSmall, FocConstants
    <3> QED BY <3>1, GapIsSmall
  <2>3. h + 1 < Hold => Sweep(Tau, Gap, h + 1)
    <3>1. h + 1 > 0 /\ h + 1 # 0 /\ (h + 1 < Hold => h + 1 \in 0..Hold-1)
      BY <1>1, <1>2, FocConstants
    <3> QED BY <3>1, GapIsSmall DEF Sweep
  <2> QED BY <2>1, <2>2, <2>3, FocConstants
<1>3. CASE h = 0
  <2>1. PICK i \in 0..Steps : p = Step * i
    BY <1>3 DEF Sweep
  <2>2. i = Steps
    <3>1. CASE i < Steps
      <4>1. (i + 1) * Step <= Steps * Step
        BY <2>1, <3>1, TimesMono, LastStep, FocConstants
      <4>2. (i + 1) * Step = i * Step + 1 * Step
        BY <2>1, Times, FocConstants
      <4> QED BY <2>1, <4>1, <4>2, Times, LastStep, FocConstants
    <3> QED BY <2>1, <3>1, LastStep
  <2>3. d = Lag
    BY <1>1, <1>3, FocConstants DEF Sweep
  <2>4. Clamp(d + Tau - p) = Gap
    <3>1. d + Tau - p = Lag - (Step * Steps - Tau)
      BY <2>1, <2>2, <2>3, LastStep, FocConstants
    <3> QED BY <3>1 DEF Gap
  <2>5. h + 1 < Hold => Sweep(Tau, Gap, h + 1)
    BY <1>3, GapIsSmall, FocConstants DEF Sweep
  <2>6. ~(h + 1 < Hold) => p = Tau /\ d = Gap
    BY <1>3, <2>1, <2>2, <2>3, GapIsSmall, LastStep, FocConstants DEF EndsMeet
  <2> QED BY <2>1, <2>2, <2>4, <2>5, <2>6, LastStep, FocConstants
<1> QED BY <1>1, <1>2, <1>3

(* Its beginning.                                                          *)
LEMMA SweepStart == ASSUME NEW d \in -Lag..Lag PROVE Sweep(0, d, 0)
<1>1. 0 \in 0..Steps /\ 0 = Step * 0 /\ 0 \in 0..Hold-1
  BY LastStep, FocConstants
<1> QED BY <1>1, FocConstants DEF Sweep

-----------------------------------------------------------------------------
(* The rotor follows a driven field and stops within Lag of it.            *)
LEMMA FollowKeeps ==
  ASSUME NEW f, f.drv = TRUE, f.refd = "cali_id", f.mode = "cur", f.theta = "force",
         f.force \in Int, zero \in Int, NEW x \in 0..Npp*Tau-1, NEW d \in Int,
         2 * d < Tau, -(2 * d) < Tau, Lags(x, f.force, d, zero)
  PROVE  Follow(f, x) \in 0..Npp*Tau-1 /\ Lags(Follow(f, x), f.force, Clamp(d), zero)
<1> DEFINE v   == f.force + zero - x
           e   == v % Tau
           to  == IF 2 * e > Tau THEN e - Tau ELSE e
           n   == Npp * Tau
           y   == x + (IF to > Lag THEN to - Lag ELSE IF to < -Lag THEN to + Lag ELSE 0)
<1>1. Follow(f, x) = y % n
  BY DEF Follow
<1>2. PICK m \in Int : x = f.force + zero - d + m * Tau
  BY DEF Lags
<1>3. n \in Nat /\ n > 0 /\ x \in Int /\ m * Tau \in Int
  BY <1>2, FocConstants
<1>4. v \in Int /\ v = (-m) * Tau + d
  BY <1>2, <1>3, FocConstants
<1> HIDE DEF v
<1>5. to = d
  <2>1. CASE d >= 0
    <3>1. d \in 0..Tau-1 /\ -m \in Int /\ ~(2 * d > Tau)
      BY <1>2, <2>1, FocConstants
    <3>2. e = d
      BY <1>4, <3>1, Remainder, FocConstants
    <3> QED BY <3>1, <3>2
  <2>2. CASE d < 0
    <3> DEFINE k == -m - 1
               q == d + Tau
    <3>1. k \in Int /\ q \in 0..Tau-1 /\ 2 * q > Tau /\ q - Tau = d
      BY <1>2, <2>2, FocConstants
    <3>2. v = k * Tau + q
      BY <1>2, <1>3, <1>4, FocConstants
    <3> HIDE DEF k, q
    <3>3. e = q
      BY <1>4, <3>1, <3>2, Remainder, FocConstants
    <3> QED BY <3>1, <3>3
  <2> QED BY <2>1, <2>2
<1> HIDE DEF e, to
<1>6. y \in Int /\ y = f.force + zero - Clamp(d) + m * Tau
  BY <1>2, <1>3, <1>5, FocConstants DEF Clamp
<1> HIDE DEF y
<1>7. y % n \in 0..n-1 /\ y = n * (y \div n) + (y % n) /\ y \div n \in Int
  BY <1>3, <1>6, Euclid
<1> DEFINE k == y \div n
           r == y % n
<1>8. k \in Int /\ r \in 0..n-1 /\ y = n * k + r
  BY <1>7
<1> HIDE DEF k
<1>9. r = f.force + zero - Clamp(d) + (m - Npp * k) * Tau
  <2>1. (m - Npp * k) * Tau = m * Tau - (Npp * k) * Tau
    BY <1>2, <1>8, Times, FocConstants
  <2>2. (Npp * k) * Tau = n * k
    BY <1>8, FocConstants
  <2>3. n * k \in Int /\ Clamp(d) \in Int
    BY <1>3, <1>8, FocConstants DEF Clamp
  <2> HIDE DEF n
  <2>4. r = y - n * k
    BY <1>6, <1>8, <2>3
  <2> QED BY <1>3, <1>6, <2>1, <2>2, <2>3, <2>4
<1>10. m - Npp * k \in Int
  BY <1>2, <1>8, FocConstants
<1>11. Lags(r, f.force, Clamp(d), zero)
  BY <1>9, <1>10 DEF Lags
<1> QED BY <1>1, <1>8, <1>11

(* The sensor of a rotor at rest reads its angle within the turn.          *)
LEMMA SensorReads ==
  ASSUME NEW x \in 0..Npp*Tau-1, NEW s \in 1..Tau-1, NEW m \in Int, x = s + m * Tau
  PROVE  WARP_TAU(x) = s
<1>1. x \in Int /\ x >= 0 /\ m * Tau \in Int
  BY FocConstants
<1>2. x % Tau = s
  BY <1>1, Remainder, FocConstants
<1>3. m >= 0
  <2>1. CASE m <= -1
    <3>1. m * Tau <= (-1) * Tau
      BY <2>1, TimesMono, FocConstants
    <3> QED BY <1>1, <3>1, FocConstants
  <2> QED BY <2>1
<1>4. CASE x > Tau
  BY <1>1, <1>2, <1>4, FocConstants DEF WARP_TAU
<1>5. CASE x <= Tau
  <2>1. m = 0
    <3>1. CASE m >= 1
      <4>1. 1 * Tau <= m * Tau
        BY <3>1, TimesMono, FocConstants
      <4> QED BY <1>1, <1>5, <4>1, FocConstants
    <3> QED BY <1>3, <3>1
  <2>2. x = s
    BY <1>1, <2>1, FocConstants
  <2> QED BY <1>5, <2>2, FocConstants DEF WARP_TAU
<1> QED BY <1>1, <1>4, <1>5, FocConstants

-----------------------------------------------------------------------------
(* What a call of foc_exec does to the structure while calibrating.        *)
LEMMA EnableWhileCalibrating ==
  ASSUME NEW f, Good(f), f.state = "cali"
  PROVE  foc_enable(f) = [f EXCEPT !.drv = TRUE, !.last = f.mode]
<1> DEFINE a == [f EXCEPT !.drv = TRUE]
<1>1. a.state = "cali" /\ a.mode = f.mode
  BY DEF Good, Structs
<1>2. foc_obs_i_dq(a) = a
  BY <1>1 DEF foc_obs_i_dq
<1>3. foc_enable(f) = [a EXCEPT !.last = a.mode]
  BY <1>2 DEF foc_enable, foc_select_mode
<1> QED BY <1>1, <1>3

(* r is the structure after a call in a phase that turns the field.        *)
Turns(f, r, from, to, turns, phase, there) ==
  LET held == f.off.hold + 1
      cnt  == f.off.cnt + 1
  IN  /\ r.state = f.state /\ r.refd = f.refd /\ r.mode = f.mode /\ r.theta = f.theta
      /\ r.adc = f.adc /\ r.off.theta = f.off.theta /\ r.drv = TRUE
      /\ ~there /\ f.off.hold = 0 =>
           /\ r.off = f.off /\ r.cali = f.cali
           /\ r.force = IF from < to THEN f.force + Step ELSE f.force - Step
      /\ there /\ held < Hold =>
           /\ r.off.sum = f.off.sum /\ r.off.cnt = f.off.cnt /\ r.off.hold = held
           /\ r.cali = f.cali /\ r.force = to
      /\ there /\ ~(held < Hold) =>
           /\ r.off.sum = f.off.sum + f.sensor /\ r.off.cnt = cnt /\ r.off.hold = 0
           /\ r.cali = IF cnt >= turns THEN phase ELSE f.cali
           /\ r.force = IF cnt >= turns THEN to ELSE from

LEMMA TurnEffect ==
  ASSUME NEW f, Good(f), f.state = "cali", f.sensor \in Int, f.off.sum \in Int,
         NEW from \in Int, NEW to \in Int, NEW turns, NEW phase,
         NEW there \in BOOLEAN,
         there = IF from < to THEN f.force >= to ELSE f.force <= to
  PROVE  Turns(f, CaliTurn(f, from, to, turns, phase), from, to, turns, phase, there)
<1> DEFINE g    == foc_enable(f)
           held == g.off.hold + 1
           cnt  == g.off.cnt + 1
           sum  == IF NoAngle \in {g.sensor, g.off.sum} THEN NoAngle ELSE g.off.sum + g.sensor
           off  == [g.off EXCEPT !.hold = 0, !.cnt = cnt, !.sum = sum]
           hold == [g.off EXCEPT !.hold = held]
           step == IF from < to THEN g.force + Step ELSE g.force - Step
           a    == [g EXCEPT !.force = step]
           b    == [g EXCEPT !.force = to, !.off = hold]
           c    == [g EXCEPT !.force = to, !.off = off, !.cali = phase]
           d    == [g EXCEPT !.force = from, !.off = off]
           r    == CaliTurn(f, from, to, turns, phase)
<1>1. /\ g = [f EXCEPT !.drv = TRUE, !.last = f.mode]
      /\ Good(g)
  BY EnableWhileCalibrating, EnableGood
<1>2. /\ g.state = f.state /\ g.refd = f.refd /\ g.mode = f.mode /\ g.theta = f.theta
      /\ g.adc = f.adc /\ g.drv = TRUE /\ g.cali = f.cali /\ g.off = f.off
      /\ g.force = f.force /\ g.sensor = f.sensor
  BY <1>1 DEF Good, Structs
<1>3. g \in Structs(g) /\ g.off \in [sum : {g.off.sum}, cnt : Nat, hold : Nat, theta : {g.off.theta}]
  BY <1>1 DEF Good, Structs
<1>4. r = IF ~there THEN (IF g.off.hold > 0 THEN g ELSE a)
          ELSE IF held < Hold THEN b ELSE IF cnt >= turns THEN c ELSE d
  <2>1. a = [g EXCEPT !.force = IF from < to THEN @ + Step ELSE @ - Step]
    BY <1>3 DEF Structs
  <2>2. b = [g EXCEPT !.force = to, !.off.hold = held]
    BY <1>3 DEF Structs
  <2>3. off = [g.off EXCEPT !.hold = 0, !.cnt = cnt,
                 !.sum = IF NoAngle \in {g.sensor, @} THEN NoAngle ELSE @ + g.sensor]
    BY <1>3
  <2> HIDE DEF a, b, c, d, off, held, sum, step, hold
  <2> QED BY <1>2, <2>1, <2>2, <2>3 DEF CaliTurn, c, d, held
<1>5. /\ sum = f.off.sum + f.sensor /\ cnt = f.off.cnt + 1 /\ held = f.off.hold + 1
      /\ off.sum = sum /\ off.cnt = cnt /\ off.hold = 0 /\ off.theta = f.off.theta
      /\ hold.sum = f.off.sum /\ hold.cnt = f.off.cnt /\ hold.hold = held /\ hold.theta = f.off.theta
  BY <1>2, <1>3, FocConstants
<1> HIDE DEF g, held, cnt, sum, off, hold, step, r
<1>6. /\ a.state = g.state /\ a.refd = g.refd /\ a.mode = g.mode /\ a.theta = g.theta
      /\ a.adc = g.adc /\ a.off = g.off /\ a.drv = g.drv /\ a.cali = g.cali /\ a.force = step
  BY <1>3 DEF Structs
<1>7. /\ b.state = g.state /\ b.refd = g.refd /\ b.mode = g.mode /\ b.theta = g.theta
      /\ b.adc = g.adc /\ b.off = hold /\ b.drv = g.drv /\ b.cali = g.cali /\ b.force = to
  BY <1>3 DEF Structs
<1>8. /\ c.state = g.state /\ c.refd = g.refd /\ c.mode = g.mode /\ c.theta = g.theta
      /\ c.adc = g.adc /\ c.off = off /\ c.drv = g.drv /\ c.cali = phase /\ c.force = to
  BY <1>3 DEF Structs
<1>9. /\ d.state = g.state /\ d.refd = g.refd /\ d.mode = g.mode /\ d.theta = g.theta
      /\ d.adc = g.adc /\ d.off = off /\ d.drv = g.drv /\ d.cali = g.cali /\ d.force = from
  BY <1>3 DEF Structs
<1>10. step = IF from < to THEN f.force + Step ELSE f.force - Step
  BY <1>2 DEF step
<1> HIDE DEF a, b, c, d
<1>11. /\ r.state = f.state /\ r.refd = f.refd /\ r.mode = f.mode /\ r.theta = f.theta
       /\ r.adc = f.adc /\ r.off.theta = f.off.theta /\ r.drv = TRUE
  BY <1>2, <1>4, <1>5, <1>6, <1>7, <1>8, <1>9
<1>12. ~there /\ f.off.hold = 0 =>
         /\ r.off = f.off /\ r.cali = f.cali
         /\ r.force = IF from < to THEN f.force + Step ELSE f.force - Step
  BY <1>2, <1>4, <1>6, <1>10
<1>13. there /\ held < Hold =>
         /\ r.off.sum = f.off.sum /\ r.off.cnt = f.off.cnt /\ r.off.hold = held
         /\ r.cali = f.cali /\ r.force = to
  BY <1>2, <1>4, <1>5, <1>7
<1>14. there /\ ~(held < Hold) =>
         /\ r.off.sum = sum /\ r.off.cnt = cnt /\ r.off.hold = 0
         /\ r.cali = IF cnt >= turns THEN phase ELSE f.cali
         /\ r.force = IF cnt >= turns THEN to ELSE from
  BY <1>2, <1>4, <1>5, <1>8, <1>9
<1>15. Turns(f, r, from, to, turns, phase, there)
  BY <1>5, <1>11, <1>12, <1>13, <1>14 DEF Turns
<1> QED BY <1>15 DEF r

-----------------------------------------------------------------------------
(* The field moves on, or from one end of the turn to the other.           *)
LEMMA LagsShift ==
  ASSUME NEW x \in Int, NEW a \in Int, NEW d \in Int, NEW z \in Int, Lags(x, a, d, z)
  PROVE  /\ \A k \in Int : Lags(x, a + k, d + k, z)
         /\ Lags(x, a + Tau, d, z) /\ Lags(x, a - Tau, d, z)
<1>1. PICK m \in Int : x = a + z - d + m * Tau
  BY DEF Lags
<1>2. m * Tau \in Int /\ (m - 1) * Tau = m * Tau - Tau /\ (m + 1) * Tau = m * Tau + Tau
  BY Times, FocConstants
<1>3. /\ \A k \in Int : x = (a + k) + z - (d + k) + m * Tau
      /\ x = (a + Tau) + z - d + (m - 1) * Tau
      /\ x = (a - Tau) + z - d + (m + 1) * Tau
  BY <1>1, <1>2, FocConstants
<1> QED BY <1>3 DEF Lags

(* A sample at the end of a turn.                                          *)
LEMMA SampleIsGapOff ==
  ASSUME NEW x \in 0..Npp*Tau-1, NEW z \in Int, Readable(z), NEW a \in {0, Tau},
         NEW d \in -Lag..Lag, Lags(x, a, d, z)
  PROVE  WARP_TAU(x) = z - d
<1>1. PICK m \in Int : x = a + z - d + m * Tau
  BY DEF Lags
<1>2. z - d \in 1..Tau-1 /\ z - d \in Int
  BY FocConstants DEF Readable
<1>3. PICK n \in Int : x = (z - d) + n * Tau
  <2>1. CASE a = 0
    BY <1>1, <1>2, <2>1
  <2>2. CASE a = Tau
    <3>1. (m + 1) * Tau = m * Tau + Tau /\ m * Tau \in Int
      BY Times, FocConstants
    <3>2. x = (z - d) + (m + 1) * Tau
      BY <1>1, <1>2, <2>2, <3>1, FocConstants
    <3> QED BY <3>2
  <2> QED BY <2>1, <2>2
<1> QED BY <1>2, <1>3, SensorReads

LEMMA WarpIsInt == ASSUME NEW x \in Int PROVE WARP_TAU(x) \in Int
<1>1. x % Tau \in Int /\ (-x) % Tau \in Int
  BY Euclid, FocConstants
<1> QED BY <1>1, FocConstants DEF WARP_TAU

LEMMA CwTurns ==
  ASSUME EndsMeet, zero \in Int, Readable(zero),
         NEW f, NEW x, Good(f), TurningCw(f, x, zero), f.sensor = WARP_TAU(x)
  PROVE  LET g == CaliTurn(f, 0, Tau, Npp, "ccw") IN OnItsWay(g, Follow(g, x), zero)
<1> DEFINE g == CaliTurn(f, 0, Tau, Npp, "ccw")
           y == Follow(g, x)
           c == f.off.cnt
           h == f.off.hold
           there == f.force >= Tau
<1> SUFFICES OnItsWay(g, y, zero)
  OBVIOUS
<1>1. /\ f.cali = "cw" /\ Driven(f) /\ f.force \in Int /\ x \in 0..Npp*Tau-1 /\ x \in Int
      /\ c < Npp /\ f.off.sum = c * zero - c * Gap
  BY FocConstants DEF TurningCw
<1>2. c \in Nat /\ h \in Nat /\ f.state = "cali"
  BY <1>1 DEF Good, Structs, Driven
<1>3. PICK d \in -Lag..Lag : Lags(x, f.force, d, zero) /\ Sweep(f.force, d, h)
  BY DEF TurningCw
<1>4. d \in Int /\ c * zero \in Int /\ c * Gap \in Int /\ Gap \in Int /\ f.off.sum \in Int
  BY <1>1, <1>2, <1>3, GapIsSmall, FocConstants
<1>5. f.sensor \in Int
  BY <1>1, WarpIsInt
<1>6. /\ there \in BOOLEAN /\ 0 < Tau
      /\ there = IF 0 < Tau THEN f.force >= Tau ELSE f.force <= Tau
  BY <1>1, FocConstants
<1>7. /\ g.state = f.state /\ g.refd = f.refd /\ g.mode = f.mode /\ g.theta = f.theta
      /\ g.adc = f.adc /\ g.off.theta = f.off.theta /\ g.drv = TRUE
      /\ ~there /\ h = 0 => g.off = f.off /\ g.cali = f.cali /\ g.force = f.force + Step
      /\ there /\ h + 1 < Hold =>
           /\ g.off.sum = f.off.sum /\ g.off.cnt = c /\ g.off.hold = h + 1
           /\ g.cali = f.cali /\ g.force = Tau
      /\ there /\ ~(h + 1 < Hold) =>
           /\ g.off.sum = f.off.sum + f.sensor /\ g.off.cnt = c + 1 /\ g.off.hold = 0
           /\ g.cali = IF c + 1 >= Npp THEN "ccw" ELSE f.cali
           /\ g.force = IF c + 1 >= Npp THEN Tau ELSE 0
  <2> DEFINE r == CaliTurn(f, 0, Tau, Npp, "ccw")
  <2> HIDE DEF there
  <2>1. 0 \in Int /\ Tau \in Int
    BY FocConstants
  <2>2. Turns(f, r, 0, Tau, Npp, "ccw", there)
    BY <1>2, <1>4, <1>5, <1>6, <2>1, TurnEffect
  <2> HIDE DEF r
  <2>3. r = g
    BY DEF r
  <2> HIDE DEF g
  <2> QED BY <1>6, <2>2, <2>3 DEF Turns
<1> HIDE DEF g, y
<1>8. Driven(g) /\ g.drv = TRUE /\ g.refd = "cali_id" /\ g.mode = "cur" /\ g.theta = "force"
  BY <1>1, <1>7 DEF Driven, Adcs
<1>9. CASE ~there
  <2>1. h = 0 /\ Sweep(f.force + Step, Clamp(d + Step), 0)
    BY <1>1, <1>2, <1>3, <1>4, <1>9, SweepStep, FocConstants
  <2>2. /\ g.off = f.off /\ g.cali = "cw" /\ g.force = f.force + Step /\ g.force \in Int
    BY <1>1, <1>7, <1>9, <2>1, FocConstants
  <2>3. Lags(x, g.force, d + Step, zero) /\ d + Step \in Int
    <3>1. Step \in Int
      BY FocConstants
    <3>2. Lags(x, f.force + Step, d + Step, zero)
      BY <1>1, <1>3, <1>4, <3>1, LagsShift
    <3> QED BY <1>4, <2>2, <3>1, <3>2
  <2>4. 2 * (d + Step) < Tau /\ -(2 * (d + Step)) < Tau
    BY <1>3, FocConstants
  <2>5. y \in 0..Npp*Tau-1 /\ Lags(y, g.force, Clamp(d + Step), zero)
    BY <1>1, <1>8, <2>2, <2>3, <2>4, FollowKeeps DEF y
  <2>6. Clamp(d + Step) \in -Lag..Lag
    BY <2>1 DEF Sweep
  <2>7. TurningCw(g, y, zero)
    BY <1>1, <1>8, <2>1, <2>2, <2>5, <2>6 DEF TurningCw
  <2> QED BY <2>7 DEF OnItsWay
<1>10. CASE there /\ h + 1 < Hold
  <2>1. /\ Clamp(d + Tau - f.force) = Gap /\ Sweep(Tau, Gap, h + 1)
        /\ Tau - f.force <= 0 /\ Tau - f.force > -Step
    BY <1>1, <1>2, <1>3, <1>4, <1>10, SweepEnd
  <2>2. /\ g.off.sum = f.off.sum /\ g.off.cnt = c /\ g.off.hold = h + 1
        /\ g.cali = "cw" /\ g.force = Tau /\ g.force \in Int
    BY <1>1, <1>7, <1>10, FocConstants
  <2> DEFINE e == d + Tau - f.force
  <2>3. e \in Int /\ e = d + (Tau - f.force) /\ Tau = f.force + (Tau - f.force)
        /\ 2 * e < Tau /\ -(2 * e) < Tau /\ Tau - f.force \in Int
    BY <1>1, <1>3, <2>1, FocConstants
  <2>4. Lags(x, g.force, e, zero)
    BY <1>1, <1>3, <1>4, <2>2, <2>3, LagsShift
  <2>5. y \in 0..Npp*Tau-1 /\ Lags(y, g.force, Gap, zero)
    <3> HIDE DEF e
    <3>1. y \in 0..Npp*Tau-1 /\ Lags(y, g.force, Clamp(e), zero)
      BY <1>1, <1>8, <2>2, <2>3, <2>4, FollowKeeps DEF y
    <3> QED BY <2>1, <3>1 DEF e
  <2>6. TurningCw(g, y, zero)
    BY <1>1, <1>8, <2>1, <2>2, <2>5, GapIsSmall DEF TurningCw
  <2> QED BY <2>6 DEF OnItsWay
<1>11. CASE there /\ ~(h + 1 < Hold)
  <2>1. f.force = Tau /\ d = Gap
    BY <1>1, <1>2, <1>3, <1>4, <1>11, SweepEnd
  <2>2. f.sensor = zero - Gap
    BY <1>1, <1>3, <2>1, SampleIsGapOff
  <2>3. /\ g.off.cnt = c + 1 /\ g.off.hold = 0
        /\ g.off.sum = (c + 1) * zero - (c + 1) * Gap
    <3>1. (c + 1) * zero = c * zero + 1 * zero /\ (c + 1) * Gap = c * Gap + 1 * Gap
      BY <1>2, <1>4, Times
    <3>2. /\ g.off.cnt = c + 1 /\ g.off.hold = 0
          /\ g.off.sum = (c * zero - c * Gap) + (zero - Gap)
      BY <1>1, <1>7, <1>11, <2>2
    <3> QED BY <1>4, <3>1, <3>2
  <2>4. 2 * Gap < Tau /\ -(2 * Gap) < Tau
    BY GapIsSmall, FocConstants
  <2>5. CASE c + 1 >= Npp
    <3>1. g.cali = "ccw" /\ g.force = Tau /\ c + 1 = Npp /\ g.force \in Int
      BY <1>1, <1>2, <1>7, <1>11, <2>5, FocConstants
    <3>2. y \in 0..Npp*Tau-1 /\ Lags(y, Tau, Gap, zero)
      BY <1>1, <1>3, <1>4, <1>8, <2>1, <2>4, <3>1, FollowKeeps, GapIsSmall DEF y
    <3>3. /\ -Gap \in -Lag..Lag /\ -(-Gap) = Gap /\ Tau - Tau = 0
          /\ 2 * Npp - Npp = Npp /\ Npp < 2 * Npp
      BY GapIsSmall, FocConstants
    <3>4. Lags(y, g.force, -(-Gap), zero) /\ Sweep(Tau - g.force, -Gap, g.off.hold)
      BY <2>3, <3>1, <3>2, <3>3, SweepStart
    <3>5. TurningCcw(g, y, zero)
      <4>1. g.off.sum = g.off.cnt * zero - (2 * Npp - g.off.cnt) * Gap
        BY <2>3, <3>1, <3>3
      <4>2. g.off.cnt >= Npp /\ g.off.cnt < 2 * Npp
        BY <2>3, <3>1, <3>3, FocConstants
      <4>3. \E e \in -Lag..Lag : Lags(y, g.force, -e, zero) /\ Sweep(Tau - g.force, e, g.off.hold)
        BY <3>3, <3>4
      <4> QED BY <1>8, <3>1, <3>2, <4>1, <4>2, <4>3 DEF TurningCcw
    <3> QED BY <3>5 DEF OnItsWay
  <2>6. CASE ~(c + 1 >= Npp)
    <3>1. g.cali = "cw" /\ g.force = 0 /\ c + 1 < Npp /\ g.force \in Int
      BY <1>1, <1>2, <1>7, <1>11, <2>6, FocConstants
    <3>2. Lags(x, 0, Gap, zero)
      <4>1. Lags(x, Tau - Tau, Gap, zero)
        BY <1>1, <1>3, <1>4, <2>1, LagsShift, FocConstants
      <4> QED BY <4>1, FocConstants
    <3>3. y \in 0..Npp*Tau-1 /\ Lags(y, 0, Gap, zero)
      BY <1>1, <1>4, <1>8, <2>4, <3>1, <3>2, FollowKeeps, GapIsSmall DEF y
    <3>4. Sweep(0, Gap, 0)
      BY SweepStart, GapIsSmall
    <3>5. TurningCw(g, y, zero)
      BY <1>8, <2>3, <3>1, <3>3, <3>4, GapIsSmall DEF TurningCw
    <3> QED BY <3>5 DEF OnItsWay
  <2> QED BY <2>5, <2>6
<1> QED BY <1>9, <1>10, <1>11

LEMMA ClampOdd == ASSUME NEW d \in Int PROVE Clamp(-d) = -Clamp(d)
BY FocConstants DEF Clamp

(* The same on the way back, where the rotor is ahead of the field.        *)
LEMMA CcwTurns ==
  ASSUME EndsMeet, zero \in Int, Readable(zero),
         NEW f, NEW x, Good(f), TurningCcw(f, x, zero), f.sensor = WARP_TAU(x)
  PROVE  OnItsWay(CaliCcw(f), Follow(CaliCcw(f), x), zero)
<1> DEFINE g == CaliCcw(f)
           y == Follow(g, x)
           c == f.off.cnt
           h == f.off.hold
           p == Tau - f.force
           there == f.force <= 0
<1> SUFFICES OnItsWay(g, y, zero)
  OBVIOUS
<1>1. /\ f.cali = "ccw" /\ Driven(f) /\ f.force \in Int /\ x \in 0..Npp*Tau-1 /\ x \in Int
      /\ c >= Npp /\ c < 2 * Npp /\ f.off.sum = c * zero - (2 * Npp - c) * Gap
  BY FocConstants DEF TurningCcw
<1>2. c \in Nat /\ h \in Nat /\ f.state = "cali"
  BY <1>1 DEF Good, Structs, Driven
<1>3. PICK d \in -Lag..Lag : Lags(x, f.force, -d, zero) /\ Sweep(p, d, h)
  BY DEF TurningCcw
<1>4. /\ d \in Int /\ -d \in Int /\ c * zero \in Int /\ (2 * Npp - c) * Gap \in Int /\ Gap \in Int
      /\ f.off.sum \in Int
  BY <1>1, <1>2, <1>3, GapIsSmall, FocConstants
<1>5. f.sensor \in Int
  BY <1>1, WarpIsInt
<1>6. /\ there \in BOOLEAN /\ ~(Tau < 0) /\ p \in Int /\ (there <=> p >= Tau)
      /\ there = IF Tau < 0 THEN f.force >= 0 ELSE f.force <= 0
  BY <1>1, FocConstants
<1>7. /\ g.state = f.state /\ g.refd = f.refd /\ g.mode = f.mode /\ g.theta = f.theta
      /\ g.adc = f.adc /\ g.off.theta = f.off.theta /\ g.drv = TRUE
      /\ ~there /\ h = 0 => g.off = f.off /\ g.cali = f.cali /\ g.force = f.force - Step
      /\ there /\ h + 1 < Hold =>
           /\ g.off.sum = f.off.sum /\ g.off.cnt = c /\ g.off.hold = h + 1
           /\ g.cali = f.cali /\ g.force = 0
      /\ there /\ ~(h + 1 < Hold) =>
           /\ g.off.sum = f.off.sum + f.sensor /\ g.off.cnt = c + 1 /\ g.off.hold = 0
           /\ g.cali = IF c + 1 >= 2 * Npp THEN "finish" ELSE f.cali
           /\ g.force = IF c + 1 >= 2 * Npp THEN 0 ELSE Tau
  <2> DEFINE r == CaliTurn(f, Tau, 0, 2 * Npp, "finish")
  <2> HIDE DEF there
  <2>1. 0 \in Int /\ Tau \in Int
    BY FocConstants
  <2>2. Turns(f, r, Tau, 0, 2 * Npp, "finish", there)
    BY <1>2, <1>4, <1>5, <1>6, <2>1, TurnEffect
  <2>3. r = g
    BY DEF r, CaliCcw
  <2> HIDE DEF r, g
  <2> QED BY <1>6, <2>2, <2>3 DEF Turns
<1> HIDE DEF g, y
<1>8. Driven(g) /\ g.drv = TRUE /\ g.refd = "cali_id" /\ g.mode = "cur" /\ g.theta = "force"
  BY <1>1, <1>7 DEF Driven, Adcs
<1>9. CASE ~there
  <2> HIDE DEF p
  <2>1. h = 0 /\ Sweep(p + Step, Clamp(d + Step), 0)
    <3>1. p < Tau
      BY <1>6, <1>9, FocConstants
    <3> QED BY <1>2, <1>3, <1>4, <1>6, <3>1, SweepStep
  <2>2. /\ g.off = f.off /\ g.cali = "ccw" /\ g.force = f.force - Step /\ g.force \in Int
        /\ p + Step = Tau - g.force
    BY <1>1, <1>7, <1>9, <2>1, FocConstants DEF p
  <2>3. Lags(x, g.force, -(d + Step), zero) /\ d + Step \in Int /\ -(d + Step) \in Int
    <3>1. /\ -Step \in Int /\ f.force + (-Step) = f.force - Step
          /\ (-d) + (-Step) = -(d + Step) /\ d + Step \in Int
      BY <1>1, <1>4, FocConstants
    <3>2. Lags(x, f.force + (-Step), (-d) + (-Step), zero)
      BY <1>1, <1>3, <1>4, <3>1, LagsShift
    <3> QED BY <1>4, <2>2, <3>1, <3>2
  <2>4. 2 * (-(d + Step)) < Tau /\ -(2 * (-(d + Step))) < Tau
    BY <1>3, FocConstants
  <2>5. y \in 0..Npp*Tau-1 /\ Lags(y, g.force, -Clamp(d + Step), zero)
    <3>1. y \in 0..Npp*Tau-1 /\ Lags(y, g.force, Clamp(-(d + Step)), zero)
      BY <1>1, <1>8, <2>2, <2>3, <2>4, FollowKeeps DEF y
    <3> QED BY <2>3, <3>1, ClampOdd
  <2>6. Clamp(d + Step) \in -Lag..Lag
    BY <2>1 DEF Sweep
  <2>7. TurningCcw(g, y, zero)
    <3>1. \E e \in -Lag..Lag : Lags(y, g.force, -e, zero) /\ Sweep(Tau - g.force, e, g.off.hold)
      BY <2>1, <2>2, <2>5, <2>6
    <3> QED BY <1>1, <1>8, <2>2, <2>5, <3>1 DEF TurningCcw
  <2> QED BY <2>7 DEF OnItsWay
<1>10. CASE there /\ h + 1 < Hold
  <2>1. /\ Clamp(d + Tau - p) = Gap /\ Sweep(Tau, Gap, h + 1)
        /\ Tau - p <= 0 /\ Tau - p > -Step
    <3> HIDE DEF p
    <3> QED BY <1>2, <1>3, <1>4, <1>6, <1>10, SweepEnd
  <2>2. /\ g.off.sum = f.off.sum /\ g.off.cnt = c /\ g.off.hold = h + 1
        /\ g.cali = "ccw" /\ g.force = 0 /\ g.force \in Int
    BY <1>1, <1>7, <1>10
  <2> DEFINE e == d + Tau - p
  <2>3. /\ e \in Int /\ -e \in Int /\ -e = (-d) + (-f.force) /\ 0 = f.force + (-f.force)
        /\ 2 * (-e) < Tau /\ -(2 * (-e)) < Tau /\ -f.force \in Int
    BY <1>1, <1>3, <2>1, FocConstants
  <2>4. Lags(x, g.force, -e, zero)
    <3> HIDE DEF e
    <3>1. Lags(x, f.force + (-f.force), (-d) + (-f.force), zero)
      BY <1>1, <1>3, <1>4, <2>3, LagsShift
    <3> QED BY <2>2, <2>3, <3>1
  <2>5. y \in 0..Npp*Tau-1 /\ Lags(y, g.force, -Gap, zero)
    <3>0. Clamp(e) = Gap
      BY <2>1
    <3> HIDE DEF e
    <3>1. y \in 0..Npp*Tau-1 /\ Lags(y, g.force, Clamp(-e), zero)
      BY <1>1, <1>8, <2>2, <2>3, <2>4, FollowKeeps DEF y
    <3> QED BY <2>3, <3>0, <3>1, ClampOdd
  <2>6. TurningCcw(g, y, zero)
    <3>1. Tau - g.force = Tau
      BY <2>2, FocConstants
    <3>2. \E k \in -Lag..Lag : Lags(y, g.force, -k, zero) /\ Sweep(Tau - g.force, k, g.off.hold)
      BY <2>1, <2>2, <2>5, <3>1, GapIsSmall
    <3> QED BY <1>1, <1>8, <2>2, <2>5, <3>2 DEF TurningCcw
  <2> QED BY <2>6 DEF OnItsWay
<1>11. CASE there /\ ~(h + 1 < Hold)
  <2>1. f.force = 0 /\ d = Gap
    <3>1. p = Tau /\ d = Gap
      <4> HIDE DEF p
      <4> QED BY <1>2, <1>3, <1>4, <1>6, <1>11, SweepEnd
    <3> QED BY <1>1, <3>1, FocConstants
  <2>2. /\ -Gap \in -Lag..Lag /\ -Gap \in Int /\ 2 * (-Gap) < Tau /\ -(2 * (-Gap)) < Tau
        /\ zero - (-Gap) = zero + Gap /\ Lags(x, 0, -Gap, zero)
    BY <1>3, <2>1, GapIsSmall, FocConstants
  <2>3. f.sensor = zero + Gap
    BY <1>1, <2>2, SampleIsGapOff
  <2>4. /\ g.off.cnt = c + 1 /\ g.off.hold = 0
        /\ g.off.sum = (c + 1) * zero - (2 * Npp - (c + 1)) * Gap
    <3>1. /\ (c + 1) * zero = c * zero + 1 * zero
          /\ (2 * Npp - (c + 1)) * Gap = (2 * Npp - c) * Gap - 1 * Gap
      <4> DEFINE k == 2 * Npp - c
      <4>1. k \in Int /\ 2 * Npp - (c + 1) = k - 1
        BY <1>2, FocConstants
      <4> HIDE DEF k
      <4>2. (k - 1) * Gap = k * Gap - 1 * Gap /\ (c + 1) * zero = c * zero + 1 * zero
        BY <1>2, <1>4, <4>1, Times
      <4> QED BY <4>1, <4>2 DEF k
    <3>2. /\ g.off.cnt = c + 1 /\ g.off.hold = 0
          /\ g.off.sum = (c * zero - (2 * Npp - c) * Gap) + (zero + Gap)
      BY <1>1, <1>7, <1>11, <2>3
    <3> QED BY <1>4, <3>1, <3>2
  <2>5. CASE c + 1 >= 2 * Npp
    <3>1. g.cali = "finish" /\ c + 1 = 2 * Npp
      BY <1>1, <1>2, <1>7, <1>11, <2>5, FocConstants
    <3>2. 2 * Npp - (c + 1) = 0 /\ 0 * Gap = 0 /\ (2 * Npp) * zero \in Int
      BY <1>4, <3>1, FocConstants
    <3>3. Turned(g, zero)
      BY <1>8, <2>4, <3>1, <3>2 DEF Turned
    <3> QED BY <3>3 DEF OnItsWay
  <2>6. CASE ~(c + 1 >= 2 * Npp)
    <3>1. /\ g.cali = "ccw" /\ g.force = Tau /\ c + 1 < 2 * Npp /\ c + 1 >= Npp /\ g.force \in Int
          /\ Tau - Tau = 0
      BY <1>1, <1>2, <1>7, <1>11, <2>6, FocConstants
    <3>2. Lags(x, Tau, -Gap, zero)
      <4>1. Lags(x, 0 + Tau, -Gap, zero)
        BY <1>1, <2>2, LagsShift, FocConstants
      <4> QED BY <4>1, FocConstants
    <3>3. y \in 0..Npp*Tau-1 /\ Lags(y, Tau, -Gap, zero)
      BY <1>1, <1>8, <2>2, <3>1, <3>2, FollowKeeps, GapIsSmall DEF y
    <3>4. \E k \in -Lag..Lag : Lags(y, g.force, -k, zero) /\ Sweep(Tau - g.force, k, g.off.hold)
      BY <2>4, <3>1, <3>3, SweepStart, GapIsSmall
    <3>5. TurningCcw(g, y, zero)
      BY <1>8, <2>4, <3>1, <3>3, <3>4 DEF TurningCcw
    <3> QED BY <3>5 DEF OnItsWay
  <2> QED BY <2>5, <2>6
<1> QED BY <1>9, <1>10, <1>11

-----------------------------------------------------------------------------
(* What the calibration works with is changed by no other function.        *)
Kept(f, g) ==
  /\ g.state = f.state /\ g.cali = f.cali /\ g.off = f.off /\ g.adc = f.adc /\ g.force = f.force
  /\ g.refd = f.refd \/ g.refd # "cali_id"

LEMMA RotorCalKeeps ==
  ASSUME NEW f, Good(f)
  PROVE  LET g == foc_rotor_cal(f)
         IN  /\ Kept(f, g) /\ g.mode = f.mode /\ g.theta = f.theta /\ g.refd = f.refd
             /\ f.off.theta = 0 /\ rotor \in Int => g.sensor = WARP_TAU(rotor)
<1> DEFINE x == IF f.off.theta = NoAngle THEN NoAngle ELSE WARP_TAU(rotor - f.off.theta)
           g == [f EXCEPT !.sensor = x]
<1>1. foc_rotor_cal(f) = g
  BY DEF foc_rotor_cal
<1>2. f.off.theta = 0 /\ rotor \in Int => x = WARP_TAU(rotor)
  <2>1. 0 # NoAngle /\ (rotor \in Int => rotor - 0 = rotor)
    BY FocConstants
  <2> QED BY <2>1
<1> HIDE DEF x
<1>3. Kept(f, g) /\ g.mode = f.mode /\ g.theta = f.theta /\ g.refd = f.refd /\ g.sensor = x
  BY DEF Good, Structs, Kept
<1> HIDE DEF g
<1> QED BY <1>1, <1>2, <1>3

LEMMA DisableKeeps ==
  ASSUME NEW f, Good(f)
  PROVE  Kept(f, foc_disable(f)) /\ foc_disable(f).drv = FALSE
<1> DEFINE h == [f.hfi EXCEPT !.id = "none"]
           g == [f EXCEPT !.drv = FALSE, !.hfi = h]
<1>1. foc_disable(f) = g
  BY DEF foc_disable, Good, Structs
<1> HIDE DEF h
<1> QED BY <1>1 DEF Good, Structs, Kept

LEMMA EnableKeeps ==
  ASSUME NEW f, Good(f)
  PROVE  Kept(f, foc_enable(f))
<1> DEFINE a == [f EXCEPT !.drv = TRUE]
           b == foc_obs_i_dq(a)
           c == [b EXCEPT !.last = b.mode]
<1>1. foc_enable(f) = c
  BY DEF foc_enable, foc_select_mode
<1>2. a \in Structs(a) /\ Kept(f, a) /\ a.refd = f.refd
  BY DEF Good, Structs, Kept
<1>3. Same(f, a)
  BY DEF Good, Structs, Same
<1> HIDE DEF a
<1>4. Good(a)
  BY <1>2, <1>3 DEF Good, Same, Justified
<1>5. CASE b = a
  <2>1. Kept(b, c) /\ c.refd = b.refd
    <3> HIDE DEF b
    <3> QED BY <1>2, <1>5 DEF Structs, Kept
  <2> HIDE DEF b, c
  <2> QED BY <1>1, <1>2, <1>5, <2>1 DEF Kept
<1>6. CASE b # a
  <2> DEFINE h == PolarStep(a.hfi)
             i == h.id
             k == [a EXCEPT !.hfi = h, !.refd = i]
  <2>1. b = k
    BY <1>6 DEF foc_obs_i_dq
  <2>2. h \in Hfis
    <3>1. a.hfi \in Hfis /\ Counted(a.hfi)
      BY <1>4 DEF Good, Structs
    <3> QED BY <3>1, PolarStepCounts
  <2> HIDE DEF h
  <2>3. i # "cali_id"
    BY <2>2 DEF Hfis
  <2> HIDE DEF i, b
  <2>4. /\ k.state = a.state /\ k.cali = a.cali /\ k.off = a.off /\ k.adc = a.adc
        /\ k.force = a.force /\ k.refd = i
    BY <1>2 DEF Structs
  <2>5. /\ c.state = k.state /\ c.cali = k.cali /\ c.off = k.off /\ c.adc = k.adc
        /\ c.force = k.force /\ c.refd = k.refd
    BY <1>2, <2>1 DEF Structs
  <2> HIDE DEF k, c
  <2> QED BY <1>1, <1>2, <2>3, <2>4, <2>5 DEF Kept
<1> QED BY <1>5, <1>6

(* Without a d current of the calibration the rotor stays.                 *)
LEMMA FollowStays ==
  ASSUME NEW f, NEW x, f.refd # "cali_id" \/ f.drv = FALSE
  PROVE  Follow(f, x) = x
BY DEF Follow

(* The calibration of the ADC: the mean of equal samples.                  *)
LEMMA SamplingGoesOn ==
  ASSUME zero \in 0..Tau-1, NEW f, Good(f), f.state = "cali", Sampling(f, zero, zero)
  PROVE  OnItsWay(CaliInit(f), Follow(CaliInit(f), zero), zero)
<1> DEFINE c   == f.adc.cnt
           P   == 2 ^ AdcLog
           sum == f.adc.offset + Raw
           end == c + 1 >= P
           d   == ~end
           o   == IF end THEN sum \div P ELSE sum
           x   == [offset |-> o, cnt |-> c + 1]
           g   == [f EXCEPT !.drv = d, !.adc = x]
           e   == [g EXCEPT !.refd = "cali_id", !.mode = "cur", !.theta = "force", !.cali = "cw"]
<1>1. CaliInit(f) = IF g.drv THEN g ELSE e
  BY DEF CaliInit, foc_adc_cali
<1>2. /\ c \in Nat /\ c < P /\ f.adc.offset = c * Raw /\ P \in Nat /\ P > 0
      /\ f.cali = "init" /\ f.refd # "cali_id" /\ f.force = 0 /\ f.off.theta = 0
      /\ f.off.sum = 0 /\ f.off.cnt = 0 /\ f.off.hold = 0
  BY Samples DEF Sampling
<1> HIDE DEF P
<1>3. (c + 1) * Raw = c * Raw + Raw /\ c * Raw \in Int /\ sum = (c + 1) * Raw
  <2>1. (c + 1) * Raw = c * Raw + 1 * Raw /\ c * Raw \in Int
    BY <1>2, Times, FocConstants
  <2> QED BY <1>2, <2>1, FocConstants
<1>4. o = IF end THEN Raw ELSE (c + 1) * Raw
  <2>1. CASE end
    <3>1. c + 1 = P
      BY <1>2, <2>1
    <3>2. sum = Raw * P + 0 /\ sum \in Int
      BY <1>2, <1>3, <3>1, Times, FocConstants
    <3>3. 0 \in 0..P-1
      BY <1>2
    <3>4. sum \div P = Raw
      <4> HIDE DEF sum
      <4> QED BY <1>2, <3>2, <3>3, Remainder, FocConstants
    <3> QED BY <2>1, <3>4
  <2>2. CASE ~end
    BY <1>3, <2>2
  <2> QED BY <2>1, <2>2
<1>5. /\ x.offset = o /\ x.cnt = c + 1 /\ d \in BOOLEAN /\ c + 1 \in Nat
      /\ x \in [offset : {x.offset}, cnt : {x.cnt}]
  BY <1>2
<1>6. d <=> c + 1 < P
  BY <1>2
<1> HIDE DEF sum, o, x, d
<1>7. /\ g.drv = d /\ g.adc = x /\ g.state = "cali" /\ g.cali = "init" /\ g.refd = f.refd
      /\ g.force = 0 /\ g.off = f.off
  BY <1>2 DEF Good, Structs
<1>8. /\ e.drv = d /\ e.adc = x /\ e.state = "cali" /\ e.cali = "cw" /\ e.refd = "cali_id"
      /\ e.force = 0 /\ e.off = f.off /\ e.mode = "cur" /\ e.theta = "force"
  BY <1>2 DEF Good, Structs
<1> HIDE DEF g, e
<1>9. CASE d
  <2>1. CaliInit(f) = g /\ Follow(g, zero) = zero
    BY <1>1, <1>2, <1>7, <1>9, FollowStays
  <2>2. Sampling(g, zero, zero)
    BY <1>2, <1>4, <1>5, <1>6, <1>7, <1>9 DEF Sampling, P, Adcs
  <2> QED BY <2>1, <2>2 DEF OnItsWay
<1>10. CASE ~d
  <2>1. CaliInit(f) = e /\ Follow(e, zero) = zero
    BY <1>1, <1>5, <1>7, <1>8, <1>10, FollowStays
  <2>2. Driven(e)
    BY <1>2, <1>4, <1>5, <1>6, <1>8, <1>10 DEF Driven, Adcs
  <2>3. /\ e.force \in Int /\ e.off.cnt < Npp /\ e.off.sum = e.off.cnt * zero - e.off.cnt * Gap
        /\ zero \in 0..Npp*Tau-1
    <3>1. 1 * Tau <= Npp * Tau /\ Npp * Tau \in Int
      BY TimesMono, FocConstants
    <3>2. 0 * zero = 0 /\ 0 * Gap = 0
      BY GapIsSmall, FocConstants
    <3> QED BY <1>2, <1>8, <3>1, <3>2, FocConstants
  <2>4. 0 \in -Lag..Lag /\ Lags(zero, e.force, 0, zero) /\ Sweep(e.force, 0, e.off.hold)
    <3>1. 0 \in -Lag..Lag /\ zero = 0 + zero - 0 + 0 * Tau /\ 0 \in Int
      BY FocConstants
    <3>2. Lags(zero, 0, 0, zero)
      BY <3>1 DEF Lags
    <3> QED BY <1>2, <1>8, <3>1, <3>2, SweepStart
  <2>5. TurningCw(e, zero, zero)
    BY <1>8, <2>2, <2>3, <2>4 DEF TurningCw
  <2> QED BY <2>1, <2>5 DEF OnItsWay
<1> QED BY <1>5, <1>9, <1>10

(* The mean of the samples.                                                *)
LEMMA FinishEffect ==
  ASSUME NEW f, Good(f), f.adc \in Adcs(f)
  PROVE  LET g == CaliFinish(f)
         IN  /\ g.cali = f.cali /\ g.off.cnt = 0 /\ g.adc \in Adcs(g)
             /\ g.adc.offset = f.adc.offset
             /\ g.off.theta = IF f.off.cnt = 0 \/ f.off.sum = NoAngle THEN NoAngle
                              ELSE f.off.sum \div f.off.cnt
<1> DEFINE d == foc_disable(f)
           t == IF f.off.cnt = 0 \/ f.off.sum = NoAngle THEN NoAngle
                ELSE f.off.sum \div f.off.cnt
           o == [d.off EXCEPT !.theta = t, !.cnt = 0]
           x == [d.adc EXCEPT !.cnt = 0]
           e == [d EXCEPT !.off = o, !.adc = x, !.refd = "none", !.force = 0,
                          !.mode = "null", !.theta = "null", !.state = "ready"]
<1>1. Good(d) /\ Kept(f, d)
  BY DisableGood, DisableKeeps
<1>2. d.off \in [sum : {d.off.sum}, cnt : Nat, hold : Nat, theta : {d.off.theta}]
  BY <1>1 DEF Good, Structs
<1>3. CaliFinish(f) = e
  BY <1>1 DEF CaliFinish, Good, Structs
<1> HIDE DEF d, t
<1>4. o.theta = t /\ o.cnt = 0
  BY <1>2
<1>5. /\ d.adc = f.adc /\ d.cali = f.cali
      /\ x.offset = f.adc.offset /\ x.cnt = 0 /\ x \in [offset : {x.offset}, cnt : {x.cnt}]
  BY <1>1 DEF Kept, Adcs
<1> HIDE DEF o, x
<1>6. e.cali = d.cali /\ e.off = o /\ e.adc = x
  BY <1>1 DEF Good, Structs
<1> HIDE DEF e
<1>7. /\ e.cali = f.cali /\ e.off.cnt = 0 /\ e.adc \in Adcs(e) /\ e.adc.offset = f.adc.offset
      /\ e.off.theta = t
  BY <1>4, <1>5, <1>6 DEF Adcs
<1> QED BY <1>3, <1>7 DEF t

LEMMA SamplingStays ==
  ASSUME NEW f, NEW g, NEW z, Sampling(f, z, z), Kept(f, g)
  PROVE  Sampling(g, z, z)
BY DEF Sampling, Kept, Adcs

LEMMA CalibratedStays ==
  ASSUME NEW f, NEW g, NEW z, Calibrated(f, z), Kept(f, g)
  PROVE  Calibrated(g, z)
BY DEF Calibrated, Kept, Adcs

LEMMA DrivenStays ==
  ASSUME NEW f, NEW g, Driven(f), Kept(f, g), g.mode = f.mode, g.theta = f.theta, g.refd = f.refd
  PROVE  Driven(g)
BY DEF Driven, Kept, Adcs

(* A call of foc_exec.                                                     *)
LEMMA ExecKeeps ==
  ASSUME EndsMeet, zero \in 0..Tau-1, Readable(zero), Good(foc), OnItsWay(foc, rotor, zero)
  PROVE  OnItsWay(foc_exec(foc), Follow(foc_exec(foc), rotor), zero)
<1> DEFINE f == foc_rotor_cal(foc)
           g == foc_exec(foc)
           y == Follow(g, rotor)
<1> SUFFICES OnItsWay(g, y, zero)
  OBVIOUS
<1>1. /\ Good(f) /\ Kept(foc, f) /\ f.mode = foc.mode /\ f.theta = foc.theta /\ f.refd = foc.refd
      /\ foc.off.theta = 0 /\ rotor \in Int => f.sensor = WARP_TAU(rotor)
  BY RotorCalGood, RotorCalKeeps
<1>2. /\ f.state = "cali" => g = foc_cali(f)
      /\ f.state = "disable" => g = foc_disable(f)
      /\ f.state = "enable" => g = foc_enable(f)
      /\ f.state \notin {"cali", "disable", "enable"} => g = f
  BY DEF foc_exec
<1>3. f.state = foc.state /\ f.cali = foc.cali /\ f.off = foc.off /\ f.adc = foc.adc
      /\ f.force = foc.force
  BY <1>1 DEF Kept
<1>4. zero \in Int
  BY FocConstants
<1> HIDE DEF f, g
<1>5. f.state # "cali" => Kept(f, g)
  <2>1. Kept(f, f)
    BY DEF Kept
  <2> QED BY <1>1, <1>2, <2>1, DisableKeeps, EnableKeeps
<1>6. CASE Sampling(foc, rotor, zero)
  <2>1. rotor = zero /\ Sampling(f, zero, zero)
    BY <1>1, <1>6, SamplingStays DEF Sampling
  <2>2. CASE f.state = "cali"
    <3>1. g = CaliInit(f)
      BY <1>2, <2>1, <2>2 DEF foc_cali, Sampling
    <3> QED BY <1>1, <2>1, <2>2, <3>1, SamplingGoesOn
  <2>3. CASE f.state # "cali"
    <3>1. Sampling(g, zero, zero)
      BY <1>5, <2>1, <2>3, SamplingStays
    <3>2. y = zero
      BY <2>1, <3>1, FollowStays DEF Sampling
    <3> QED BY <3>1, <3>2 DEF OnItsWay
  <2> QED BY <2>2, <2>3
<1>7. CASE TurningCw(foc, rotor, zero)
  <2>1. Driven(foc) /\ foc.cali = "cw" /\ rotor \in Int
    BY <1>7, FocConstants DEF TurningCw
  <2>2. TurningCw(f, rotor, zero)
    <3>1. Driven(f)
      BY <1>1, <2>1, DrivenStays
    <3> QED BY <1>3, <1>7, <3>1 DEF TurningCw
  <2>3. f.state = "cali" /\ f.cali = "cw" /\ f.sensor = WARP_TAU(rotor)
    BY <1>1, <1>3, <2>1 DEF Driven
  <2>4. g = CaliTurn(f, 0, Tau, Npp, "ccw")
    BY <1>2, <2>3 DEF foc_cali
  <2> QED BY <1>1, <1>4, <2>2, <2>3, <2>4, CwTurns
<1>8. CASE TurningCcw(foc, rotor, zero)
  <2>1. Driven(foc) /\ foc.cali = "ccw" /\ rotor \in Int
    BY <1>8, FocConstants DEF TurningCcw
  <2>2. TurningCcw(f, rotor, zero)
    <3>1. Driven(f)
      BY <1>1, <2>1, DrivenStays
    <3> QED BY <1>3, <1>8, <3>1 DEF TurningCcw
  <2>3. f.state = "cali" /\ f.cali = "ccw" /\ f.sensor = WARP_TAU(rotor)
    BY <1>1, <1>3, <2>1 DEF Driven
  <2>4. g = CaliCcw(f)
    BY <1>2, <2>3 DEF foc_cali
  <2> QED BY <1>1, <1>4, <2>2, <2>3, <2>4, CcwTurns
<1>9. CASE Turned(foc, zero)
  <2>1. /\ Driven(f) /\ f.cali = "finish" /\ f.off.cnt = 2 * Npp /\ f.off.sum = (2 * Npp) * zero
        /\ f.state = "cali" /\ f.adc \in Adcs(f) /\ f.adc.offset = Raw
    BY <1>1, <1>3, <1>9, DrivenStays DEF Turned, Driven
  <2>2. g = CaliFinish(f)
    BY <1>2, <2>1 DEF foc_cali
  <2>3. f.off.sum \div f.off.cnt = zero /\ f.off.cnt # 0 /\ f.off.sum # NoAngle
    <3> DEFINE n == 2 * Npp
    <3>1. n \in Nat /\ n > 0 /\ 0 \in 0..n-1 /\ n * zero \in Int /\ n * zero = zero * n + 0
      <4>1. n \in Nat /\ n > 0
        BY FocConstants
      <4> HIDE DEF n
      <4> QED BY <1>4, <4>1, Times
    <3> HIDE DEF n
    <3>2. (n * zero) \div n = zero
      BY <1>4, <3>1, Remainder
    <3> QED BY <2>1, <3>1, <3>2, FocConstants DEF n
  <2>4. Calibrated(g, zero)
    BY <1>1, <2>1, <2>2, <2>3, FinishEffect DEF Calibrated
  <2> QED BY <2>4 DEF OnItsWay
<1>10. CASE Calibrated(foc, zero)
  <2>1. Calibrated(f, zero)
    BY <1>1, <1>10, CalibratedStays
  <2>2. CASE f.state = "cali"
    <3>1. g = CaliFinish(f)
      BY <1>2, <2>1, <2>2 DEF foc_cali, Calibrated
    <3>2. Calibrated(g, zero)
      BY <1>1, <2>1, <3>1, FinishEffect DEF Calibrated
    <3> QED BY <3>2 DEF OnItsWay
  <2>3. CASE f.state # "cali"
    <3>1. Calibrated(g, zero)
      BY <1>5, <2>1, <2>3, CalibratedStays
    <3> QED BY <3>1 DEF OnItsWay
  <2> QED BY <2>2, <2>3
<1> QED BY <1>6, <1>7, <1>8, <1>9, <1>10 DEF OnItsWay

LEMMA OffsetInitIInv == FocInit => OffsetIInv
<1> SUFFICES ASSUME FocInit PROVE OffsetIInv
  OBVIOUS
<1>1. zero \in 0..Tau-1 /\ rotor = zero
  BY FocConstants DEF FocInit
<1>2. Sampling(foc, rotor, zero)
  <2> DEFINE a == [offset |-> 0, cnt |-> 0]
             o == [sum |-> 0, cnt |-> 0, hold |-> 0, theta |-> 0]
  <2>1. /\ foc.cali = "init" /\ foc.refd = "none" /\ foc.force = 0 /\ foc.adc = a /\ foc.off = o
    BY DEF FocInit
  <2>2. 0 < 2 ^ AdcLog /\ 0 * Raw = 0
    BY Samples, FocConstants
  <2> QED BY <1>1, <2>1, <2>2 DEF Sampling, Adcs
<1> QED BY <1>1, <1>2, FocInitGood DEF OffsetIInv, OnItsWay

LEMMA OffsetNextIInv == EndsMeet /\ OffsetIInv /\ [FocNext]_focVars => OffsetIInv'
<1> SUFFICES ASSUME EndsMeet, OffsetIInv, [FocNext]_focVars PROVE OffsetIInv'
  OBVIOUS
<1>1. Good(foc) /\ Good(foc') /\ zero' = zero /\ zero \in 0..Tau-1
  <2>1. Good(foc)'
    BY FocNextGood DEF OffsetIInv
  <2> QED BY <2>1 DEF OffsetIInv, FocNext, Exec, SetState, SetControl, focVars
<1> SUFFICES ASSUME whole', Readable(zero) PROVE OnItsWay(foc', rotor', zero)
  BY <1>1 DEF OffsetIInv
<1>2. whole => OnItsWay(foc, rotor, zero)
  BY DEF OffsetIInv
<1>3. CASE Exec
  BY <1>1, <1>2, <1>3, ExecKeeps DEF Exec
<1>4. ASSUME NEW s \in {"cali", "ready", "disable", "enable"}, SetState(s)
      PROVE  OnItsWay(foc', rotor', zero)
  <2>1. /\ foc' = [foc EXCEPT !.state = s] /\ rotor' = rotor /\ OnItsWay(foc, rotor, zero)
        /\ foc.state # "cali"
    BY <1>2, <1>4 DEF SetState
  <2>2. /\ foc'.cali = foc.cali /\ foc'.refd = foc.refd /\ foc'.force = foc.force
        /\ foc'.adc = foc.adc /\ foc'.off = foc.off
    BY <1>1, <2>1 DEF Good, Structs
  <2>3. Sampling(foc, rotor, zero) \/ Calibrated(foc, zero)
    BY <2>1 DEF OnItsWay, TurningCw, TurningCcw, Turned, Driven
  <2>4. Sampling(foc', rotor', zero) \/ Calibrated(foc', zero)
    BY <2>1, <2>2, <2>3 DEF Sampling, Calibrated, Adcs
  <2> QED BY <2>4 DEF OnItsWay
<1>5. ASSUME NEW c \in {<<foc.mode, foc.theta>>, <<"vel", "sensor">>}, NEW o \in {"null", "hfi"},
             SetControl(c[1], c[2], o)
      PROVE  OnItsWay(foc', rotor', zero)
  <2> DEFINE m == c[1]
             t == c[2]
  <2>1. /\ foc' = [foc EXCEPT !.mode = m, !.theta = t, !.obs = o] /\ rotor' = rotor /\ whole
        /\ Calibrating => m = foc.mode /\ t = foc.theta
    BY <1>5 DEF SetControl
  <2> HIDE DEF m, t
  <2>2. /\ foc'.cali = foc.cali /\ foc'.refd = foc.refd /\ foc'.force = foc.force
        /\ foc'.adc = foc.adc /\ foc'.off = foc.off /\ foc'.state = foc.state
        /\ foc'.mode = m /\ foc'.theta = t
    BY <1>1, <2>1 DEF Good, Structs
  <2>3. Kept(foc, foc')
    BY <2>2 DEF Kept
  <2>4. ASSUME Driven(foc), foc.cali # "init" PROVE Driven(foc')
    <3>1. m = foc.mode /\ t = foc.theta
      BY <2>1, <2>4 DEF Calibrating, Driven
    <3> QED BY <2>2, <2>3, <2>4, <3>1, DrivenStays
  <2>5. CASE Sampling(foc, rotor, zero)
    <3>1. Sampling(foc', rotor', zero)
      BY <2>1, <2>2, <2>5 DEF Sampling, Adcs
    <3> QED BY <3>1 DEF OnItsWay
  <2>6. CASE TurningCw(foc, rotor, zero)
    <3>1. TurningCw(foc', rotor', zero)
      BY <2>1, <2>2, <2>4, <2>6 DEF TurningCw
    <3> QED BY <3>1 DEF OnItsWay
  <2>7. CASE TurningCcw(foc, rotor, zero)
    <3>1. TurningCcw(foc', rotor', zero)
      BY <2>1, <2>2, <2>4, <2>7 DEF TurningCcw
    <3> QED BY <3>1 DEF OnItsWay
  <2>8. CASE Turned(foc, zero)
    <3>1. Turned(foc', zero)
      BY <2>1, <2>2, <2>4, <2>8 DEF Turned
    <3> QED BY <3>1 DEF OnItsWay
  <2>9. CASE Calibrated(foc, zero)
    <3>1. Calibrated(foc', zero)
      BY <2>3, <2>9, CalibratedStays
    <3> QED BY <3>1 DEF OnItsWay
  <2> QED BY <1>2, <2>1, <2>5, <2>6, <2>7, <2>8, <2>9 DEF OnItsWay
<1>6. CASE UNCHANGED focVars
  BY <1>2, <1>6 DEF focVars
<1> QED BY <1>3, <1>4, <1>5, <1>6 DEF FocNext

(* In every reachable state of a first calibration that is not left, the   *)
(* samples of the two directions are off by the same angle.                *)
THEOREM OffsetInvariance == ASSUME EndsMeet PROVE FocSpec => []OffsetIInv
BY OffsetInitIInv, OffsetNextIInv, PTL DEF FocSpec

LEMMA OffsetFollows == OffsetIInv => OffsetIsRight
<1> SUFFICES ASSUME OffsetIInv, whole, foc.cali = "finish", foc.state = "ready", Readable(zero)
             PROVE  foc.off.theta \in {zero, NoAngle} /\ foc.adc.offset = Raw
  BY DEF OffsetIsRight, Readable
<1>1. OnItsWay(foc, rotor, zero)
  BY DEF OffsetIInv
<1>2. Calibrated(foc, zero)
  BY <1>1 DEF OnItsWay, Sampling, TurningCw, TurningCcw, Turned, Driven
<1> QED BY <1>2 DEF Calibrated

(* A calibration that is not left before its end finds the offset of the   *)
(* sensor and that of the ADC, for any number of pole pairs, steps and     *)
(* samples and any lag of the rotor: the lag cancels out over the turns.   *)
(* The field has to be read at the end of its turn (EndsMeet).  Where it   *)
(* is not held and steps past the end, it is read as much beyond it, and   *)
(* the sensor may pass from TAU to 0 there.                                *)
THEOREM CalibrationIsRight == ASSUME EndsMeet PROVE FocSpec => []OffsetIsRight
BY OffsetInvariance, OffsetFollows, PTL

-----------------------------------------------------------------------------
Links  == [next : [Elem -> Elem \cup {Null}], prev : [Elem -> Elem \cup {Null}]]
Chains == [Heads -> Seq(Nodes)]

(* The k-th element of the ring of h; the head closes it at both ends.     *)
Ring(c, h, k) == IF k \in DOMAIN c[h] THEN c[h][k] ELSE h

(* No node stands at two places.                                           *)
Distinct(c) ==
  \A g, h \in Heads : \A i \in 1..Len(c[g]), j \in 1..Len(c[h]) :
    c[g][i] = c[h][j] => g = h /\ i = j

(* Neighbours in a ring are linked to each other.                          *)
Follows(l, c, V) ==
  \A h \in V : \A k \in 0..Len(c[h]) :
    l.next[Ring(c, h, k)] = Ring(c, h, k + 1) /\ l.prev[Ring(c, h, k + 1)] = Ring(c, h, k)

Sound(l, c, V) ==
  /\ l \in Links /\ c \in Chains /\ V \subseteq Heads
  /\ \A h \in Heads \ V : Len(c[h]) = 0
  /\ Distinct(c) /\ Follows(l, c, V)

In(c, n) == \E h \in Heads : \E k \in 1..Len(c[h]) : c[h][k] = n

-----------------------------------------------------------------------------
LEMMA Elements == Heads \cap Nodes = {} /\ Null \notin Elem /\ Elem = Heads \cup Nodes
BY ListsAssumption DEF Elem

LEMMA Rings ==
  ASSUME NEW c \in Chains, NEW h \in Heads
  PROVE  /\ Len(c[h]) \in Nat /\ DOMAIN c[h] = 1..Len(c[h])
         /\ Ring(c, h, 0) = h /\ Ring(c, h, Len(c[h]) + 1) = h
         /\ \A k \in 1..Len(c[h]) : Ring(c, h, k) = c[h][k] /\ c[h][k] \in Nodes
         /\ \A k \in Int : Ring(c, h, k) \in Elem
<1>1. c[h] \in Seq(Nodes)
  BY DEF Chains
<1>2. Len(c[h]) \in Nat /\ DOMAIN c[h] = 1..Len(c[h]) /\ \A k \in 1..Len(c[h]) : c[h][k] \in Nodes
  BY <1>1, LenProperties, ElementOfSeq
<1> QED BY <1>2, Elements DEF Ring

(* A place in a ring is known by its element, as a source of a forward     *)
(* link and, one further, as one of a backward link.                       *)
LEMMA Places ==
  ASSUME NEW c \in Chains, Distinct(c), NEW g \in Heads, NEW h \in Heads,
         NEW i \in 0..Len(c[g]), NEW j \in 0..Len(c[h])
  PROVE  /\ Ring(c, g, i) = Ring(c, h, j) => g = h /\ i = j
         /\ Ring(c, g, i + 1) = Ring(c, h, j + 1) => g = h /\ i = j
<1>1. /\ Len(c[g]) \in Nat /\ Len(c[h]) \in Nat
      /\ Ring(c, g, 0) = g /\ Ring(c, h, 0) = h
      /\ Ring(c, g, Len(c[g]) + 1) = g /\ Ring(c, h, Len(c[h]) + 1) = h
      /\ \A k \in 1..Len(c[g]) : Ring(c, g, k) = c[g][k] /\ c[g][k] \in Nodes
      /\ \A k \in 1..Len(c[h]) : Ring(c, h, k) = c[h][k] /\ c[h][k] \in Nodes
  BY Rings
<1>2. \A a \in 1..Len(c[g]), b \in 1..Len(c[h]) : c[g][a] = c[h][b] => g = h /\ a = b
  BY DEF Distinct
<1>3. g \notin Nodes /\ h \notin Nodes
  BY Elements
<1>4. Ring(c, g, i) = Ring(c, h, j) => g = h /\ i = j
  BY <1>1, <1>2, <1>3
<1>5. /\ i + 1 \in 1..Len(c[g]) \/ i = Len(c[g])
      /\ j + 1 \in 1..Len(c[h]) \/ j = Len(c[h])
  BY <1>1
<1>6. Ring(c, g, i + 1) = Ring(c, h, j + 1) => g = h /\ i = j
  <2>1. CASE i + 1 \in 1..Len(c[g]) /\ j + 1 \in 1..Len(c[h])
    BY <1>1, <1>2, <2>1
  <2>2. CASE i = Len(c[g]) /\ j = Len(c[h])
    BY <1>1, <2>2
  <2>3. CASE i + 1 \in 1..Len(c[g]) /\ j = Len(c[h])
    BY <1>1, <1>3, <2>3
  <2>4. CASE i = Len(c[g]) /\ j + 1 \in 1..Len(c[h])
    BY <1>1, <1>3, <2>4
  <2> QED BY <1>5, <2>1, <2>2, <2>3, <2>4
<1> QED BY <1>4, <1>6

(* Links that no ring uses may change.                                     *)
LEMMA OutsideSound ==
  ASSUME NEW l, NEW c, NEW V, Sound(l, c, V), NEW m \in Links, NEW x \in Elem,
         ~In(c, x), x \notin V,
         \A y \in Elem \ {x} : m.next[y] = l.next[y] /\ m.prev[y] = l.prev[y]
  PROVE  Sound(m, c, V)
<1>1. c \in Chains /\ V \subseteq Heads
  BY DEF Sound
<1>2. ASSUME NEW h \in V, NEW k \in 0..Len(c[h])
      PROVE  /\ m.next[Ring(c, h, k)] = Ring(c, h, k + 1)
             /\ m.prev[Ring(c, h, k + 1)] = Ring(c, h, k)
  <2>1. /\ Len(c[h]) \in Nat /\ Ring(c, h, 0) = h /\ Ring(c, h, Len(c[h]) + 1) = h
        /\ \A j \in 1..Len(c[h]) : Ring(c, h, j) = c[h][j]
        /\ \A j \in Int : Ring(c, h, j) \in Elem
    BY <1>1, Rings
  <2>2. \A j \in 1..Len(c[h]) : c[h][j] # x
    BY <1>1 DEF In
  <2>3. k = 0 \/ k \in 1..Len(c[h])
    BY <2>1
  <2>4. k + 1 \in 1..Len(c[h]) \/ k = Len(c[h])
    BY <2>1
  <2>5. Ring(c, h, k) \in Elem \ {x} /\ Ring(c, h, k + 1) \in Elem \ {x}
    BY <2>1, <2>2, <2>3, <2>4
  <2>6. l.next[Ring(c, h, k)] = Ring(c, h, k + 1) /\ l.prev[Ring(c, h, k + 1)] = Ring(c, h, k)
    BY DEF Sound, Follows
  <2> QED BY <2>5, <2>6
<1> QED BY <1>2 DEF Sound, Follows

-----------------------------------------------------------------------------
(* __list_add behind the i-th element of a ring: before the next, or, for  *)
(* s = 1, before the one after that, which loses its place to n.           *)
LEMMA PutSound ==
  ASSUME NEW l, NEW c, NEW V, Sound(l, c, V), NEW n \in Nodes, ~In(c, n),
         NEW h \in V, NEW i \in 0..Len(c[h]), NEW s \in {0, 1}, i + s <= Len(c[h]), NEW d \in Chains,
         \A g \in Heads \ {h} : d[g] = c[g],
         Len(d[h]) = Len(c[h]) + 1 - s,
         \A k \in 1..Len(d[h]) :
           d[h][k] = IF k <= i THEN c[h][k] ELSE IF k = i + 1 THEN n ELSE c[h][k - 1 + s]
  PROVE  Sound(L!ListAdd(l, n, Ring(c, h, i), Ring(c, h, i + 1 + s)), d, V)
<1> DEFINE b == Ring(c, h, i)
           a == Ring(c, h, i + 1 + s)
           m == L!ListAdd(l, n, b, a)
<1>1. /\ c \in Chains /\ V \subseteq Heads /\ l \in Links /\ Distinct(c) /\ h \in Heads
      /\ h \notin Nodes /\ Nodes \subseteq Elem /\ Heads \subseteq Elem
  BY Elements DEF Sound
<1>2. /\ Len(c[h]) \in Nat /\ i \in Nat /\ i <= Len(c[h]) /\ i \in Int
      /\ s \in Int /\ s >= 0 /\ s <= 1 /\ i + s <= Len(c[h])
  BY <1>1, Rings
<1>3. /\ b \in Elem /\ a \in Elem
      /\ \A k \in 1..Len(c[h]) : Ring(c, h, k) = c[h][k] /\ c[h][k] # n
      /\ b # n /\ a # n
  <2>1. i = 0 \/ i \in 1..Len(c[h])
    BY <1>2
  <2>2. i + 1 + s \in 1..Len(c[h]) \/ i + 1 + s = Len(c[h]) + 1
    BY <1>2
  <2>3. \A k \in 1..Len(c[h]) : Ring(c, h, k) = c[h][k] /\ c[h][k] # n
    BY <1>1, Rings DEF In
  <2>4. Ring(c, h, 0) = h /\ Ring(c, h, Len(c[h]) + 1) = h /\ h # n
    BY <1>1, Rings
  <2>5. b \in Elem /\ a \in Elem
    BY <1>1, <1>2, Rings
  <2>6. b # n /\ a # n
    BY <2>1, <2>2, <2>3, <2>4
  <2> QED BY <2>3, <2>5, <2>6
<1>4. /\ m \in Links
      /\ \A x \in Elem : m.next[x] = IF x = b THEN n ELSE IF x = n THEN a ELSE l.next[x]
      /\ \A x \in Elem : m.prev[x] = IF x = n THEN b ELSE IF x = a THEN n ELSE l.prev[x]
  BY <1>1, <1>3 DEF L!ListAdd, Links
<1>5. \A k \in 0..Len(c[h]) + 2 - s :
        Ring(d, h, k) = IF k <= i THEN Ring(c, h, k) ELSE IF k = i + 1 THEN n ELSE Ring(c, h, k - 1 + s)
  <2>1. TAKE k \in 0..Len(c[h]) + 2 - s
  <2>2. /\ Len(d[h]) = Len(c[h]) + 1 - s /\ Ring(d, h, 0) = h /\ Ring(d, h, Len(d[h]) + 1) = h
        /\ \A j \in 1..Len(d[h]) : Ring(d, h, j) = d[h][j]
        /\ Ring(c, h, 0) = h /\ Ring(c, h, Len(c[h]) + 1) = h
        /\ \A j \in 1..Len(c[h]) : Ring(c, h, j) = c[h][j]
    BY <1>1, Rings
  <2>3. CASE k = 0
    BY <1>2, <2>2, <2>3
  <2>4. CASE k = Len(c[h]) + 2 - s
    BY <1>2, <2>2, <2>4
  <2>5. CASE k \in 1..Len(c[h]) + 1 - s
    <3>1. Ring(d, h, k) = d[h][k] /\ k \in 1..Len(d[h])
      BY <2>2, <2>5
    <3>2. k <= i => k \in 1..Len(c[h])
      BY <1>2, <2>5
    <3>3. k > i + 1 => k - 1 + s \in 1..Len(c[h])
      BY <1>2, <2>5
    <3>4. CASE k <= i
      BY <1>2, <2>2, <3>1, <3>2, <3>4
    <3>5. CASE k = i + 1
      BY <1>2, <2>2, <3>1, <3>5
    <3>6. CASE k > i + 1
      <4>1. k - 1 + s \in 1..Len(c[h]) /\ ~(k <= i) /\ k # i + 1
        BY <1>2, <3>3, <3>6
      <4>2. Ring(c, h, k - 1 + s) = c[h][k - 1 + s]
        BY <2>2, <4>1
      <4>3. d[h][k] = c[h][k - 1 + s]
        BY <3>1, <4>1
      <4> QED BY <3>1, <4>1, <4>2, <4>3, Zenon
    <3> QED BY <1>2, <2>5, <3>4, <3>5, <3>6
  <2>6. k = 0 \/ k = Len(c[h]) + 2 - s \/ k \in 1..Len(c[h]) + 1 - s
    BY <1>2
  <2> QED BY <2>3, <2>4, <2>5, <2>6, Zenon
<1>6. ASSUME NEW g \in V, NEW k \in 0..Len(d[g])
      PROVE  /\ m.next[Ring(d, g, k)] = Ring(d, g, k + 1)
             /\ m.prev[Ring(d, g, k + 1)] = Ring(d, g, k)
  <2>1. CASE g # h
    <3>1. /\ Ring(d, g, k) = Ring(c, g, k) /\ Ring(d, g, k + 1) = Ring(c, g, k + 1)
          /\ k \in 0..Len(c[g]) /\ g \in Heads
      BY <1>1, <2>1 DEF Ring
    <3>2. Ring(c, g, k) # b /\ Ring(c, g, k + 1) # a
      BY <1>1, <2>1, <3>1, Places
    <3>3. Ring(c, g, k) \in Elem /\ Ring(c, g, k + 1) \in Elem
      BY <1>1, <3>1, Rings
    <3>4. Ring(c, g, k) # n /\ Ring(c, g, k + 1) # n
      <4>1. \A j \in Int : Ring(c, g, j) # n
        BY <1>1, <3>1, Rings, Elements DEF In, Ring
      <4> QED BY <4>1
    <3>5. l.next[Ring(c, g, k)] = Ring(c, g, k + 1) /\ l.prev[Ring(c, g, k + 1)] = Ring(c, g, k)
      BY <3>1 DEF Sound, Follows
    <3> QED BY <1>4, <3>1, <3>2, <3>3, <3>4, <3>5
  <2>2. CASE g = h
    <3> HIDE DEF m, a, b
    <3>1. /\ k \in 0..Len(c[h]) + 1 - s /\ k \in Int /\ s \in {0, 1}
          /\ k \in 0..Len(c[h]) + 2 - s /\ k + 1 \in 0..Len(c[h]) + 2 - s /\ (k + 1) - 1 + s = k + s
      BY <1>2, <2>2
    <3>7. /\ Ring(d, h, k) =
               IF k <= i THEN Ring(c, h, k) ELSE IF k = i + 1 THEN n ELSE Ring(c, h, k - 1 + s)
          /\ Ring(d, h, k + 1) =
               IF k + 1 <= i THEN Ring(c, h, k + 1)
               ELSE IF k + 1 = i + 1 THEN n ELSE Ring(c, h, k + s)
      BY <1>5, <3>1
    <3>2. \A j \in 0..Len(c[h]) :
            /\ l.next[Ring(c, h, j)] = Ring(c, h, j + 1) /\ l.prev[Ring(c, h, j + 1)] = Ring(c, h, j)
            /\ Ring(c, h, j) \in Elem /\ Ring(c, h, j + 1) \in Elem
            /\ Ring(c, h, j) # n /\ Ring(c, h, j + 1) # n
            /\ j # i => Ring(c, h, j) # b
            /\ j # i + s => Ring(c, h, j + 1) # a
      <4> TAKE j \in 0..Len(c[h])
      <4>1. l.next[Ring(c, h, j)] = Ring(c, h, j + 1) /\ l.prev[Ring(c, h, j + 1)] = Ring(c, h, j)
        BY DEF Sound, Follows
      <4>2. Ring(c, h, j) \in Elem /\ Ring(c, h, j + 1) \in Elem
        BY <1>1, Rings
      <4>3. (j # i => Ring(c, h, j) # b) /\ (j # i + s => Ring(c, h, j + 1) # a)
        <5>1. i + s \in 0..Len(c[h]) /\ i + s + 1 = i + 1 + s
          BY <1>2
        <5> QED BY <1>1, <5>1, Places DEF a, b
      <4>4. \A x \in Int : Ring(c, h, x) # n
        BY <1>1, Rings, Elements DEF In, Ring
      <4> QED BY <4>1, <4>2, <4>3, <4>4
    <3>3. CASE k < i
      <4>1. Ring(d, h, k) = Ring(c, h, k) /\ Ring(d, h, k + 1) = Ring(c, h, k + 1) /\ k \in 0..Len(c[h])
        BY <1>2, <3>1, <3>3, <3>7
      <4>2. k # i /\ k # i + s
        BY <1>2, <3>1, <3>3
      <4>3. /\ l.next[Ring(c, h, k)] = Ring(c, h, k + 1) /\ l.prev[Ring(c, h, k + 1)] = Ring(c, h, k)
            /\ Ring(c, h, k) \in Elem /\ Ring(c, h, k + 1) \in Elem
            /\ Ring(c, h, k) # n /\ Ring(c, h, k + 1) # n
            /\ Ring(c, h, k) # b /\ Ring(c, h, k + 1) # a
        BY <3>2, <4>1, <4>2
      <4> QED BY <1>4, <2>2, <4>1, <4>3
    <3>4. CASE k = i
      <4>1. Ring(d, h, k) = b /\ Ring(d, h, k + 1) = n
        BY <1>2, <3>1, <3>4, <3>7 DEF b
      <4> QED BY <1>1, <1>3, <1>4, <2>2, <4>1
    <3>5. CASE k = i + 1
      <4>1. Ring(d, h, k) = n /\ Ring(d, h, k + 1) = a
        BY <1>2, <3>1, <3>5, <3>7 DEF a
      <4> QED BY <1>1, <1>3, <1>4, <2>2, <4>1
    <3>6. CASE k > i + 1
      <4>1. /\ Ring(d, h, k) = Ring(c, h, k - 1 + s) /\ Ring(d, h, k + 1) = Ring(c, h, k + s)
            /\ k - 1 + s \in 0..Len(c[h]) /\ (k - 1 + s) + 1 = k + s
            /\ k - 1 + s # i /\ k - 1 + s # i + s
        <5>1. /\ ~(k <= i) /\ k # i + 1 /\ ~(k + 1 <= i) /\ k + 1 # i + 1
              /\ k - 1 + s \in 0..Len(c[h]) /\ (k - 1 + s) + 1 = k + s
              /\ k - 1 + s # i /\ k - 1 + s # i + s
          <6>1. k > i + 1 /\ k <= Len(c[h]) + 1 - s /\ k \in Int /\ Len(c[h]) \in Int /\ i \in Nat
                /\ (s = 0 \/ s = 1)
            BY <1>2, <3>1, <3>6
          <6> QED BY <6>1
        <5> QED BY <3>7, <5>1
      <4>2. /\ l.next[Ring(c, h, k - 1 + s)] = Ring(c, h, k + s)
            /\ l.prev[Ring(c, h, k + s)] = Ring(c, h, k - 1 + s)
            /\ Ring(c, h, k - 1 + s) \in Elem /\ Ring(c, h, k + s) \in Elem
            /\ Ring(c, h, k - 1 + s) # n /\ Ring(c, h, k + s) # n
            /\ Ring(c, h, k - 1 + s) # b /\ Ring(c, h, k + s) # a
        BY <3>2, <4>1
      <4> QED BY <1>4, <2>2, <4>1, <4>2
    <3> QED BY <1>2, <3>1, <3>3, <3>4, <3>5, <3>6
  <2> QED BY <2>1, <2>2
<1>7. Distinct(d)
  <2>1. SUFFICES ASSUME NEW f \in Heads, NEW g \in Heads, NEW x \in 1..Len(d[f]), NEW y \in 1..Len(d[g]),
                        d[f][x] = d[g][y]
                 PROVE  f = g /\ x = y
    BY DEF Distinct
  <2>2. \A e \in Heads : \A z \in 1..Len(d[e]) :
          \/ e = h /\ z = i + 1 /\ d[e][z] = n
          \/ \E j \in 1..Len(c[e]) : /\ d[e][z] = c[e][j] /\ d[e][z] # n
                                     /\ j = IF e = h /\ z > i + 1 THEN z - 1 + s ELSE z
                                     /\ e = h => z # i + 1
    <3> TAKE e \in Heads
    <3> TAKE z \in 1..Len(d[e])
    <3>1. CASE e # h
      BY <3>1 DEF In
    <3>2. CASE e = h
      <4>1. d[h][z] = IF z <= i THEN c[h][z] ELSE IF z = i + 1 THEN n ELSE c[h][z - 1 + s]
        BY <3>2
      <4>2. z \in 1..Len(c[h]) + 1 - s
        BY <3>2
      <4>3. CASE z <= i
        <5>1. z \in 1..Len(c[h]) /\ d[h][z] = c[h][z] /\ ~(z > i + 1) /\ z # i + 1
          BY <1>2, <4>1, <4>2, <4>3
        <5> QED BY <1>3, <3>2, <5>1
      <4>4. CASE z = i + 1
        BY <1>2, <3>2, <4>1, <4>4
      <4>5. CASE z > i + 1
        <5>1. z - 1 + s \in 1..Len(c[h]) /\ d[h][z] = c[h][z - 1 + s] /\ z # i + 1
          BY <1>2, <4>1, <4>2, <4>5
        <5>2. c[h][z - 1 + s] # n
          BY <1>3, <5>1
        <5> QED BY <1>3, <3>2, <4>5, <5>1
      <4> QED BY <1>2, <4>2, <4>3, <4>4, <4>5
    <3> QED BY <3>1, <3>2
  <2>3. \A e, e2 \in Heads : \A j \in 1..Len(c[e]), j2 \in 1..Len(c[e2]) :
          c[e][j] = c[e2][j2] => e = e2 /\ j = j2
    BY <1>1 DEF Distinct
  <2>4. CASE d[f][x] = n
    <3>1. f = h /\ x = i + 1
      BY <2>2, <2>4
    <3>2. g = h /\ y = i + 1
      BY <2>1, <2>2, <2>4
    <3> QED BY <3>1, <3>2
  <2>5. CASE d[f][x] # n
    <3>1. PICK j \in 1..Len(c[f]) : /\ d[f][x] = c[f][j]
                                    /\ j = IF f = h /\ x > i + 1 THEN x - 1 + s ELSE x
                                    /\ f = h => x # i + 1
      BY <2>2, <2>5
    <3>2. PICK j2 \in 1..Len(c[g]) : /\ d[g][y] = c[g][j2]
                                     /\ j2 = IF g = h /\ y > i + 1 THEN y - 1 + s ELSE y
                                     /\ g = h => y # i + 1
      BY <2>1, <2>2, <2>5
    <3>3. f = g /\ j = j2
      <4>1. c[f][j] = c[g][j2]
        BY <2>1, <3>1, <3>2
      <4>2. \A y2 \in 1..Len(c[f]), z2 \in 1..Len(c[g]) : c[f][y2] = c[g][z2] => f = g /\ y2 = z2
        BY <2>3
      <4> QED BY <4>1, <4>2, Zenon
    <3>4. x \in Int /\ y \in Int /\ i \in Int
      <4>1. Len(d[f]) \in Nat /\ Len(d[g]) \in Nat
        BY Rings
      <4> QED BY <1>2, <4>1
    <3> QED BY <3>1, <3>2, <3>3, <3>4
  <2> QED BY <2>4, <2>5
<1>8. \A g \in Heads \ V : Len(d[g]) = 0
  BY DEF Sound
<1> QED BY <1>1, <1>4, <1>6, <1>7, <1>8 DEF Sound, Follows

(* The links of a sound ring, and how its elements differ from others.     *)
LEMMA Edges ==
  ASSUME NEW l, NEW c, NEW V, Sound(l, c, V), NEW g \in V, NEW h \in V,
         NEW i \in 0..Len(c[g]), NEW k \in 0..Len(c[h])
  PROVE  /\ l.next[Ring(c, h, k)] = Ring(c, h, k + 1) /\ l.prev[Ring(c, h, k + 1)] = Ring(c, h, k)
         /\ Ring(c, h, k) \in Elem /\ Ring(c, h, k + 1) \in Elem
         /\ g # h \/ i # k => /\ Ring(c, h, k) # Ring(c, g, i)
                              /\ Ring(c, h, k + 1) # Ring(c, g, i + 1)
<1>1. l.next[Ring(c, h, k)] = Ring(c, h, k + 1) /\ l.prev[Ring(c, h, k + 1)] = Ring(c, h, k)
  BY DEF Sound, Follows
<1>2. c \in Chains /\ Distinct(c) /\ g \in Heads /\ h \in Heads
  BY DEF Sound
<1>3. Ring(c, h, k) \in Elem /\ Ring(c, h, k + 1) \in Elem
  BY <1>2, Rings
<1>4. /\ Ring(c, h, k) = Ring(c, g, i) => g = h /\ i = k
      /\ Ring(c, h, k + 1) = Ring(c, g, i + 1) => g = h /\ i = k
  BY <1>2, Places
<1> QED BY <1>1, <1>3, <1>4

(* __list_del of the i-th node of a ring.                                  *)
LEMMA CutSound ==
  ASSUME NEW l, NEW c, NEW V, Sound(l, c, V), NEW h \in V, NEW i \in 1..Len(c[h]),
         NEW d \in Chains, \A g \in Heads \ {h} : d[g] = c[g],
         Len(d[h]) = Len(c[h]) - 1,
         \A k \in 1..Len(d[h]) : d[h][k] = IF k < i THEN c[h][k] ELSE c[h][k + 1]
  PROVE  /\ Sound(L!ListUnlink(l, l.prev[c[h][i]], l.next[c[h][i]]), d, V)
         /\ ~In(d, c[h][i])
<1> DEFINE n == c[h][i]
           b == Ring(c, h, i - 1)
           a == Ring(c, h, i + 1)
           m == L!ListUnlink(l, b, a)
<1>1. /\ c \in Chains /\ V \subseteq Heads /\ l \in Links /\ Distinct(c) /\ h \in Heads
  BY Elements DEF Sound
<1>2. /\ Len(c[h]) \in Nat /\ i \in Int /\ 1 <= i /\ i <= Len(c[h]) /\ i \in 0..Len(c[h])
      /\ i - 1 \in 0..Len(c[h]) /\ (i - 1) + 1 = i /\ i - 1 \in Int
  BY <1>1, Rings
<1>3. /\ Ring(c, h, 0) = h /\ Ring(c, h, Len(c[h]) + 1) = h
      /\ \A k \in 1..Len(c[h]) : Ring(c, h, k) = c[h][k]
      /\ Ring(d, h, 0) = h /\ Ring(d, h, Len(c[h])) = h
      /\ \A k \in 1..Len(d[h]) : Ring(d, h, k) = d[h][k]
  <2>1. Len(d[h]) + 1 = Len(c[h])
    BY <1>2
  <2> QED BY <1>1, <2>1, Rings
<1>4. n = Ring(c, h, i) /\ l.prev[n] = b /\ l.next[n] = a /\ b \in Elem /\ a \in Elem
  <2>1. n = Ring(c, h, i)
    BY <1>3
  <2>2. l.prev[Ring(c, h, (i - 1) + 1)] = b /\ b \in Elem
    BY <1>2, Edges
  <2>3. l.next[Ring(c, h, i)] = a /\ a \in Elem
    BY <1>2, Edges
  <2> QED BY <1>2, <2>1, <2>2, <2>3
<1>5. /\ m \in Links
      /\ \A x \in Elem : m.next[x] = IF x = b THEN a ELSE l.next[x]
      /\ \A x \in Elem : m.prev[x] = IF x = a THEN b ELSE l.prev[x]
  BY <1>1, <1>4 DEF L!ListUnlink, Links
<1> HIDE DEF m, a, b, n
<1>6. \A k \in 0..Len(c[h]) : Ring(d, h, k) = IF k < i THEN Ring(c, h, k) ELSE Ring(c, h, k + 1)
  <2> TAKE k \in 0..Len(c[h])
  <2>1. CASE k = 0
    BY <1>2, <1>3, <2>1
  <2>2. CASE k = Len(c[h])
    BY <1>2, <1>3, <2>2
  <2>3. CASE k \in 1..Len(c[h]) - 1
    <3>1. /\ k \in 1..Len(d[h]) /\ k \in 1..Len(c[h]) /\ k + 1 \in 1..Len(c[h])
      BY <1>2, <2>3
    <3>2. /\ Ring(d, h, k) = d[h][k] /\ Ring(c, h, k) = c[h][k] /\ Ring(c, h, k + 1) = c[h][k + 1]
          /\ d[h][k] = IF k < i THEN c[h][k] ELSE c[h][k + 1]
      BY <1>3, <3>1
    <3> QED BY <3>2
  <2>4. k = 0 \/ k = Len(c[h]) \/ k \in 1..Len(c[h]) - 1
    BY <1>2
  <2> QED BY <2>1, <2>2, <2>3, <2>4, Zenon
<1>7. ASSUME NEW g \in V, NEW k \in 0..Len(d[g])
      PROVE  /\ m.next[Ring(d, g, k)] = Ring(d, g, k + 1)
             /\ m.prev[Ring(d, g, k + 1)] = Ring(d, g, k)
  <2>1. CASE g # h
    <3>1. /\ Ring(d, g, k) = Ring(c, g, k) /\ Ring(d, g, k + 1) = Ring(c, g, k + 1)
          /\ k \in 0..Len(c[g])
      BY <1>1, <2>1 DEF Ring
    <3>2. /\ l.next[Ring(c, g, k)] = Ring(c, g, k + 1) /\ l.prev[Ring(c, g, k + 1)] = Ring(c, g, k)
          /\ Ring(c, g, k) \in Elem /\ Ring(c, g, k + 1) \in Elem
          /\ Ring(c, g, k) # b /\ Ring(c, g, k + 1) # a
      <4>1. Ring(c, g, k) # b
        BY <1>2, <2>1, <3>1, Edges DEF b
      <4>2. Ring(c, g, k + 1) # a
        BY <1>2, <2>1, <3>1, Edges DEF a
      <4> QED BY <1>2, <3>1, <4>1, <4>2, Edges
    <3> QED BY <1>5, <3>1, <3>2
  <2>2. CASE g = h
    <3>1. k \in Int /\ 0 <= k /\ k < Len(c[h]) /\ k \in 0..Len(c[h]) /\ k + 1 \in 0..Len(c[h])
      BY <1>2, <2>2
    <3>2. /\ Ring(d, h, k) = IF k < i THEN Ring(c, h, k) ELSE Ring(c, h, k + 1)
          /\ Ring(d, h, k + 1) = IF k + 1 < i THEN Ring(c, h, k + 1) ELSE Ring(c, h, (k + 1) + 1)
      BY <1>6, <3>1
    <3>3. \A j \in 0..Len(c[h]) :
            /\ l.next[Ring(c, h, j)] = Ring(c, h, j + 1) /\ l.prev[Ring(c, h, j + 1)] = Ring(c, h, j)
            /\ Ring(c, h, j) \in Elem /\ Ring(c, h, j + 1) \in Elem
            /\ j # i - 1 => Ring(c, h, j) # b
            /\ j # i => Ring(c, h, j + 1) # a
      <4> TAKE j \in 0..Len(c[h])
      <4>1. j # i - 1 => Ring(c, h, j) # b
        BY <1>2, Edges DEF b
      <4>2. j # i => Ring(c, h, j + 1) # a
        BY <1>2, Edges DEF a
      <4> QED BY <1>2, <4>1, <4>2, Edges
    <3>4. CASE k < i - 1
      <4>1. Ring(d, h, k) = Ring(c, h, k) /\ Ring(d, h, k + 1) = Ring(c, h, k + 1) /\ k # i - 1 /\ k # i
        BY <1>2, <3>1, <3>2, <3>4
      <4> QED BY <1>5, <2>2, <3>1, <3>3, <4>1
    <3>5. CASE k = i - 1
      <4>1. Ring(d, h, k) = b /\ Ring(d, h, k + 1) = a
        BY <1>2, <3>1, <3>2, <3>5 DEF a, b
      <4> QED BY <1>4, <1>5, <2>2, <4>1
    <3>6. CASE k >= i
      <4>1. /\ Ring(d, h, k) = Ring(c, h, k + 1) /\ Ring(d, h, k + 1) = Ring(c, h, (k + 1) + 1)
            /\ k + 1 # i - 1 /\ k + 1 # i
        BY <1>2, <3>1, <3>2, <3>6
      <4> QED BY <1>5, <2>2, <3>1, <3>3, <4>1
    <3> QED BY <1>2, <3>1, <3>4, <3>5, <3>6
  <2> QED BY <2>1, <2>2
<1>8. \A e \in Heads : \A z \in 1..Len(d[e]) :
        \E j \in 1..Len(c[e]) : /\ d[e][z] = c[e][j] /\ (e = h => j # i)
                                 /\ j = IF e = h /\ z >= i THEN z + 1 ELSE z
  <2> TAKE e \in Heads
  <2> TAKE z \in 1..Len(d[e])
  <2>1. CASE e # h
    BY <2>1
  <2>2. CASE e = h
    <3>1. /\ z \in 1..Len(c[h]) - 1 /\ z \in Int
          /\ d[h][z] = IF z < i THEN c[h][z] ELSE c[h][z + 1]
      <4>1. z \in 1..Len(d[h])
        BY <2>2
      <4>2. d[h][z] = IF z < i THEN c[h][z] ELSE c[h][z + 1]
        BY <4>1
      <4> QED BY <1>2, <4>1, <4>2
    <3>2. CASE z < i
      BY <1>2, <2>2, <3>1, <3>2
    <3>3. CASE z >= i
      <4>1. d[h][z] = c[h][z + 1] /\ z + 1 \in 1..Len(c[h]) /\ z + 1 # i
        BY <1>2, <3>1, <3>3
      <4> QED BY <2>2, <3>3, <4>1
    <3> QED BY <1>2, <3>1, <3>2, <3>3
  <2> QED BY <2>1, <2>2
<1>9. Distinct(d)
  <2>1. SUFFICES ASSUME NEW f \in Heads, NEW g \in Heads, NEW x \in 1..Len(d[f]), NEW y \in 1..Len(d[g]),
                        d[f][x] = d[g][y]
                 PROVE  f = g /\ x = y
    BY DEF Distinct
  <2>2. PICK j \in 1..Len(c[f]) : d[f][x] = c[f][j] /\ j = IF f = h /\ x >= i THEN x + 1 ELSE x
    BY <1>8
  <2>3. PICK j2 \in 1..Len(c[g]) : d[g][y] = c[g][j2] /\ j2 = IF g = h /\ y >= i THEN y + 1 ELSE y
    BY <1>8
  <2>4. c[f][j] = c[g][j2]
    BY <2>1, <2>2, <2>3
  <2>5. f = g /\ j = j2
    <3>1. \A y2 \in 1..Len(c[f]), z2 \in 1..Len(c[g]) : c[f][y2] = c[g][z2] => f = g /\ y2 = z2
      BY <1>1 DEF Distinct
    <3> QED BY <2>4, <3>1, Zenon
  <2>6. x \in Int /\ y \in Int
    <3>1. Len(d[f]) \in Nat /\ Len(d[g]) \in Nat
      BY Rings
    <3> QED BY <3>1
  <2> QED BY <1>2, <2>2, <2>3, <2>5, <2>6
<1>10. ~In(d, n)
  <2>1. SUFFICES ASSUME NEW e \in Heads, NEW z \in 1..Len(d[e]), d[e][z] = n
                 PROVE  FALSE
    BY DEF In
  <2>2. PICK j \in 1..Len(c[e]) : d[e][z] = c[e][j] /\ (e = h => j # i)
    BY <1>8
  <2>3. c[e][j] = c[h][i]
    BY <2>1, <2>2 DEF n
  <2>4. \A y2 \in 1..Len(c[e]), z2 \in 1..Len(c[h]) : c[e][y2] = c[h][z2] => e = h /\ y2 = z2
    BY <1>1 DEF Distinct
  <2> QED BY <2>2, <2>3, <2>4, Zenon
<1>11. \A g \in Heads \ V : Len(d[g]) = 0
  BY DEF Sound
<1>12. Sound(m, d, V)
  BY <1>1, <1>5, <1>7, <1>9, <1>11 DEF Sound, Follows
<1> QED BY <1>4, <1>10, <1>12 DEF m, n

(* list_replace of a head by one that is not in use.                       *)
LEMMA TakeOverSound ==
  ASSUME NEW l, NEW c, NEW V, Sound(l, c, V), NEW g \in V, NEW h \in Heads \ V,
         NEW d \in Chains, d[g] = <<>>, d[h] = c[g], \A f \in Heads \ {g, h} : d[f] = c[f]
  PROVE  Sound(L!list_replace_init(l, g, h), d, V \cup {h})
<1> DEFINE r == L!list_replace(l, g, h)
           m == L!list_init(r, g)
           a == Ring(c, g, 1)
           b == Ring(c, g, Len(c[g]))
<1>1. /\ c \in Chains /\ V \subseteq Heads /\ l \in Links /\ Distinct(c)
      /\ g \in Heads /\ h \in Heads /\ g # h /\ g \in Elem /\ h \in Elem
      /\ g \notin Nodes /\ h \notin Nodes
  BY Elements DEF Sound
<1>2. /\ Len(c[g]) \in Nat /\ 0 \in 0..Len(c[g]) /\ Len(c[g]) \in 0..Len(c[g])
      /\ Ring(c, g, 0) = g /\ Ring(c, g, Len(c[g]) + 1) = g
      /\ \A k \in 1..Len(c[g]) : Ring(c, g, k) = c[g][k] /\ c[g][k] \in Nodes
      /\ a \in Elem /\ b \in Elem
  BY <1>1, Rings
<1>3. /\ d[g] = <<>> /\ d[h] = c[g] /\ \A f \in Heads \ {g, h} : d[f] = c[f]
  OBVIOUS
<1>4. /\ l.next[g] = a /\ l.prev[g] = b
  <2>1. l.next[Ring(c, g, 0)] = Ring(c, g, 0 + 1)
    BY <1>2, Edges
  <2>2. l.prev[Ring(c, g, Len(c[g]) + 1)] = Ring(c, g, Len(c[g]))
    BY <1>2, Edges
  <2> QED BY <1>2, <2>1, <2>2
<1>5. a # h /\ b # h
  BY <1>1, <1>2
<1>6. (a = g <=> Len(c[g]) = 0) /\ (b = g <=> Len(c[g]) = 0)
  <2>1. CASE Len(c[g]) = 0
    BY <1>2, <2>1
  <2>2. CASE Len(c[g]) # 0
    <3>1. 1 \in 1..Len(c[g]) /\ Len(c[g]) \in 1..Len(c[g])
      BY <1>2, <2>2
    <3> QED BY <1>1, <1>2, <2>2, <3>1
  <2> QED BY <2>1, <2>2
<1> HIDE DEF a, b
<1>7. /\ m \in Links
      /\ m.next[g] = g /\ m.prev[g] = g
      /\ m.next[h] = IF Len(c[g]) = 0 THEN h ELSE a
      /\ m.prev[h] = IF Len(c[g]) = 0 THEN h ELSE b
      /\ \A x \in Elem \ {g, h} : m.next[x] = IF x = b THEN h ELSE l.next[x]
      /\ \A x \in Elem \ {g, h} : m.prev[x] = IF x = a THEN h ELSE l.prev[x]
  <2> DEFINE p1 == [l.prev EXCEPT ![a] = h]
             p2 == [p1 EXCEPT ![h] = p1[g]]
             n1 == [l.next EXCEPT ![h] = a]
             n2 == [n1 EXCEPT ![p2[h]] = h]
  <2>1. r = [next |-> n2, prev |-> p2]
    BY <1>4 DEF L!list_replace
  <2>2. l.next \in [Elem -> Elem \cup {Null}] /\ l.prev \in [Elem -> Elem \cup {Null}]
    BY <1>1 DEF Links
  <2>3. /\ p1 \in [Elem -> Elem \cup {Null}] /\ p1[g] = IF Len(c[g]) = 0 THEN h ELSE b
        /\ \A x \in Elem : p1[x] = IF x = a THEN h ELSE l.prev[x]
    BY <1>1, <1>2, <1>4, <1>6, <2>2
  <2> HIDE DEF p1
  <2>4. /\ p2 \in [Elem -> Elem \cup {Null}] /\ p2[h] = p1[g]
        /\ \A x \in Elem \ {h} : p2[x] = p1[x]
    BY <1>1, <1>2, <2>3
  <2> HIDE DEF p2
  <2>5. /\ n1 \in [Elem -> Elem \cup {Null}] /\ n1[h] = a
        /\ \A x \in Elem \ {h} : n1[x] = l.next[x]
    BY <1>1, <1>2, <2>2
  <2> HIDE DEF n1
  <2>6. p2[h] \in Elem
    BY <1>1, <1>2, <2>3, <2>4
  <2>7. /\ n2 \in [Elem -> Elem \cup {Null}]
        /\ \A x \in Elem : n2[x] = IF x = p2[h] THEN h ELSE n1[x]
    BY <1>1, <2>5, <2>6
  <2> HIDE DEF n2
  <2>8. m = [next |-> [n2 EXCEPT ![g] = g], prev |-> [p2 EXCEPT ![g] = g]]
    BY <2>1 DEF L!list_init
  <2>9. /\ m.next = [n2 EXCEPT ![g] = g] /\ m.prev = [p2 EXCEPT ![g] = g]
    BY <2>8
  <2>10. m \in Links /\ m.next[g] = g /\ m.prev[g] = g
         /\ \A x \in Elem \ {g} : m.next[x] = n2[x] /\ m.prev[x] = p2[x]
    BY <1>1, <2>4, <2>7, <2>8 DEF Links
  <2>11. m.next[h] = (IF Len(c[g]) = 0 THEN h ELSE a) /\ m.prev[h] = (IF Len(c[g]) = 0 THEN h ELSE b)
    BY <1>1, <1>5, <2>3, <2>4, <2>5, <2>7, <2>10
  <2>12. \A x \in Elem \ {g, h} : m.next[x] = IF x = b THEN h ELSE l.next[x]
    BY <1>6, <2>3, <2>4, <2>5, <2>7, <2>10
  <2>13. \A x \in Elem \ {g, h} : m.prev[x] = IF x = a THEN h ELSE l.prev[x]
    BY <2>3, <2>4, <2>10
  <2> QED BY <2>10, <2>11, <2>12, <2>13
<1>8. L!list_replace_init(l, g, h) = m
  BY DEF L!list_replace_init
<1> HIDE DEF m
<1>9. ASSUME NEW f \in V \cup {h}, NEW k \in 0..Len(d[f])
      PROVE  /\ m.next[Ring(d, f, k)] = Ring(d, f, k + 1)
             /\ m.prev[Ring(d, f, k + 1)] = Ring(d, f, k)
  <2>1. CASE f = g
    <3>1. k = 0 /\ Ring(d, f, k) = g /\ Ring(d, f, k + 1) = g
      BY <1>1, <1>3, <2>1 DEF Ring
    <3> QED BY <1>7, <3>1
  <2>2. CASE f = h
    <3>1. /\ k \in 0..Len(c[g]) /\ k \in Int /\ Ring(d, h, 0) = h /\ Ring(d, h, Len(c[g]) + 1) = h
          /\ \A j \in 1..Len(c[g]) : Ring(d, h, j) = Ring(c, g, j) /\ Ring(c, g, j) \in Elem \ {g, h}
      <4>1. /\ k \in 0..Len(c[g]) /\ k \in Int
        BY <1>2, <1>3, <2>2
      <4>2. Ring(d, h, 0) = h /\ Ring(d, h, Len(d[h]) + 1) = h
        BY <1>1, Rings
      <4>3. \A j \in 1..Len(d[h]) : Ring(d, h, j) = d[h][j]
        BY <1>1, Rings
      <4>4. \A j \in 1..Len(c[g]) : c[g][j] \in Elem \ {g, h}
        BY <1>1, <1>2, Elements
      <4> QED BY <1>2, <1>3, <4>1, <4>2, <4>3, <4>4
    <3>2. CASE Len(c[g]) = 0
      <4>1. k = 0 /\ k + 1 = Len(c[g]) + 1
        BY <3>1, <3>2
      <4> QED BY <1>7, <2>2, <3>1, <3>2, <4>1
    <3>3. CASE Len(c[g]) # 0
      <4>1. m.next[Ring(d, h, k)] = Ring(d, h, k + 1)
        <5>1. CASE k = 0
          <6>1. Ring(d, h, 1) = a
            <7>1. 1 \in 1..Len(c[g])
              BY <1>2, <3>3
            <7> QED BY <3>1, <7>1 DEF a
          <6> QED BY <1>7, <3>1, <3>3, <5>1, <6>1
        <5>2. CASE k # 0 /\ k # Len(c[g])
          <6>1. k \in 1..Len(c[g]) /\ k + 1 \in 1..Len(c[g])
            BY <1>2, <3>1, <5>2
          <6>2. l.next[Ring(c, g, k)] = Ring(c, g, k + 1) /\ Ring(c, g, k) # b
            BY <1>2, <3>1, <5>2, Edges DEF b
          <6> QED BY <1>7, <3>1, <6>1, <6>2
        <5>3. CASE k = Len(c[g])
          <6>1. k \in 1..Len(c[g]) /\ Ring(c, g, k) = b
            BY <1>2, <3>1, <3>3, <5>3 DEF b
          <6> QED BY <1>7, <3>1, <5>3, <6>1
        <5> QED BY <3>3, <5>1, <5>2, <5>3
      <4>2. m.prev[Ring(d, h, k + 1)] = Ring(d, h, k)
        <5>1. CASE k = 0
          <6>1. Ring(d, h, 1) = a /\ a \in Elem \ {g, h}
            <7>1. 1 \in 1..Len(c[g])
              BY <1>2, <3>3
            <7> QED BY <3>1, <7>1 DEF a
          <6> QED BY <1>7, <3>1, <5>1, <6>1
        <5>2. CASE k # 0 /\ k # Len(c[g])
          <6>1. k \in 1..Len(c[g]) /\ k + 1 \in 1..Len(c[g])
            BY <1>2, <3>1, <5>2
          <6>2. l.prev[Ring(c, g, k + 1)] = Ring(c, g, k) /\ Ring(c, g, k + 1) # Ring(c, g, 0 + 1)
            BY <1>1, <1>2, <3>1, <5>2, Edges
          <6>3. Ring(d, h, k + 1) \in Elem \ {g, h} /\ Ring(d, h, k + 1) # a
            BY <3>1, <6>1, <6>2 DEF a
          <6> QED BY <1>7, <3>1, <6>1, <6>2, <6>3
        <5>3. CASE k = Len(c[g])
          <6>1. k \in 1..Len(c[g]) /\ Ring(c, g, k) = b
            BY <1>2, <3>1, <3>3, <5>3 DEF b
          <6> QED BY <1>7, <3>1, <3>3, <5>3, <6>1
        <5> QED BY <3>3, <5>1, <5>2, <5>3
      <4> QED BY <2>2, <4>1, <4>2
    <3> QED BY <3>2, <3>3
  <2>3. CASE f # g /\ f # h
    <3>1. /\ Ring(d, f, k) = Ring(c, f, k) /\ Ring(d, f, k + 1) = Ring(c, f, k + 1)
          /\ k \in 0..Len(c[f]) /\ f \in Heads /\ f \in V
      <4>1. f \in Heads /\ f \in V /\ d[f] = c[f]
        BY <1>1, <1>3, <2>3
      <4> QED BY <4>1 DEF Ring
    <3>2. \A j \in Int : Ring(c, f, j) # g /\ Ring(c, f, j) # h
      BY <1>1, <2>3, <3>1, Rings, Elements DEF Ring
    <3>3. /\ l.next[Ring(c, f, k)] = Ring(c, f, k + 1) /\ l.prev[Ring(c, f, k + 1)] = Ring(c, f, k)
          /\ Ring(c, f, k) \in Elem /\ Ring(c, f, k + 1) \in Elem
      BY <3>1, Edges
    <3>4. Ring(c, f, k) # b
      BY <1>2, <2>3, <3>1, Edges DEF b
    <3>5. Ring(c, f, k + 1) # Ring(c, g, 0 + 1)
      BY <1>2, <2>3, <3>1, Edges
    <3>6. k \in Int /\ k + 1 \in Int /\ Ring(c, f, k + 1) # a
      BY <3>5 DEF a
    <3> QED BY <1>7, <3>1, <3>2, <3>3, <3>4, <3>6
  <2> QED BY <2>1, <2>2, <2>3
<1>10. Len(c[h]) = 0 /\ \A f \in Heads \ (V \cup {h}) : Len(d[f]) = 0
  BY <1>1, <1>3 DEF Sound
<1>11. Distinct(d)
  <2>1. SUFFICES ASSUME NEW e \in Heads, NEW f \in Heads, NEW x \in 1..Len(d[e]), NEW y \in 1..Len(d[f]),
                        d[e][x] = d[f][y]
                 PROVE  e = f /\ x = y
    BY DEF Distinct
  <2> DEFINE of(z) == IF z = h THEN g ELSE z
  <2>2. \A z \in Heads : z # g => d[z] = c[of(z)] /\ of(z) \in Heads
    BY <1>1, <1>3
  <2>3. e # g /\ f # g
    BY <1>3
  <2>4. \A y2 \in 1..Len(c[of(e)]), z2 \in 1..Len(c[of(f)]) :
          c[of(e)][y2] = c[of(f)][z2] => of(e) = of(f) /\ y2 = z2
    BY <1>1, <2>2, <2>3 DEF Distinct
  <2>5. of(e) = of(f) /\ x = y
    <3>1. d[e] = c[of(e)] /\ d[f] = c[of(f)]
      BY <2>2, <2>3
    <3>2. x \in 1..Len(c[of(e)]) /\ y \in 1..Len(c[of(f)]) /\ c[of(e)][x] = c[of(f)][y]
      BY <2>1, <3>1
    <3> QED BY <2>4, <3>2
  <2> QED BY <2>3, <2>5
<1> QED BY <1>1, <1>7, <1>8, <1>9, <1>10, <1>11 DEF Sound, Follows

(* __list_splice of a list that is not empty.                              *)
LEMMA SpliceSound ==
  ASSUME NEW l, NEW c, NEW V, Sound(l, c, V), NEW g \in V, NEW h \in V, g # h, Len(c[g]) # 0,
         NEW d \in Chains, d[g] = <<>>, d[h] = c[g] \o c[h],
         \A f \in Heads \ {g, h} : d[f] = c[f]
  PROVE  Sound(L!ListSplice(l, g, h), d, V \ {g})
<1> DEFINE m  == L!ListSplice(l, g, h)
           lg == Len(c[g])
           lh == Len(c[h])
           a  == Ring(c, g, 1)
           b  == Ring(c, g, lg)
           e  == Ring(c, h, 1)
<1>1. /\ c \in Chains /\ V \subseteq Heads /\ l \in Links /\ Distinct(c)
      /\ g \in Heads /\ h \in Heads /\ g \in Elem /\ h \in Elem
      /\ g \notin Nodes /\ h \notin Nodes /\ Nodes \subseteq Elem
  BY Elements DEF Sound
<1>2. /\ lg \in Nat /\ lg > 0 /\ lh \in Nat /\ lg \in 1..lg /\ 1 \in 1..lg
      /\ lg \in 0..lg /\ 0 \in 0..lg /\ 0 \in 0..lh
  BY <1>1, Rings
<1>3. /\ Ring(c, g, 0) = g /\ Ring(c, g, lg + 1) = g /\ Ring(c, h, 0) = h /\ Ring(c, h, lh + 1) = h
      /\ \A k \in 1..lg : Ring(c, g, k) = c[g][k] /\ c[g][k] \in Nodes
      /\ \A k \in 1..lh : Ring(c, h, k) = c[h][k] /\ c[h][k] \in Nodes
      /\ a \in Nodes /\ b \in Nodes /\ e \in Elem
  BY <1>1, <1>2, Rings
<1>4. l.next[g] = a /\ l.prev[g] = b /\ l.next[h] = e
  <2>1. l.next[Ring(c, g, 0)] = Ring(c, g, 0 + 1) /\ l.next[Ring(c, h, 0)] = Ring(c, h, 0 + 1)
    BY <1>2, Edges
  <2>2. l.prev[Ring(c, g, lg + 1)] = Ring(c, g, lg)
    BY <1>2, Edges
  <2> QED BY <1>3, <2>1, <2>2
<1>5. a # e /\ b # h /\ a # h
  <2>1. Ring(c, g, 0 + 1) # Ring(c, h, 0 + 1)
    BY <1>2, Edges
  <2> QED BY <1>1, <1>3, <2>1
<1>6. /\ d[g] = <<>> /\ d[h] = c[g] \o c[h] /\ \A f \in Heads \ {g, h} : d[f] = c[f]
      /\ Len(d[h]) = lg + lh
      /\ \A k \in 1..lg + lh : d[h][k] = IF k <= lg THEN c[g][k] ELSE c[h][k - lg]
  <2>1. c[g] \in Seq(Nodes) /\ c[h] \in Seq(Nodes)
    BY <1>1 DEF Chains
  <2>2. d[g] = <<>> /\ d[h] = c[g] \o c[h] /\ \A f \in Heads \ {g, h} : d[f] = c[f]
    OBVIOUS
  <2>3. /\ Len(c[g] \o c[h]) = lg + lh
        /\ \A k \in 1..lg + lh : (c[g] \o c[h])[k] = IF k <= lg THEN c[g][k] ELSE c[h][k - lg]
    BY <2>1, ConcatProperties
  <2> QED BY <2>2, <2>3
<1> HIDE DEF a, b, e
<1>7. /\ m \in Links
      /\ \A x \in Elem : m.next[x] = IF x = b THEN e ELSE IF x = h THEN a ELSE l.next[x]
      /\ \A x \in Elem : m.prev[x] = IF x = e THEN b ELSE IF x = a THEN h ELSE l.prev[x]
  BY <1>1, <1>3, <1>4, <1>5 DEF L!ListSplice, Links
<1> HIDE DEF m, lg, lh
<1>8. \A k \in 0..lg + lh + 1 :
        Ring(d, h, k) = IF k = 0 THEN h ELSE IF k <= lg THEN Ring(c, g, k) ELSE Ring(c, h, k - lg)
  <2> TAKE k \in 0..lg + lh + 1
  <2>1. /\ Ring(d, h, 0) = h /\ Ring(d, h, lg + lh + 1) = h
        /\ \A j \in 1..lg + lh : Ring(d, h, j) = d[h][j]
    <3>1. /\ Ring(d, h, 0) = h /\ Ring(d, h, Len(d[h]) + 1) = h
          /\ \A j \in 1..Len(d[h]) : Ring(d, h, j) = d[h][j]
      BY <1>1, Rings
    <3>2. Len(d[h]) = lg + lh
      BY <1>6
    <3> QED BY <3>1, <3>2
  <2>2. CASE k = 0
    BY <2>1, <2>2
  <2>3. CASE k = lg + lh + 1
    <3>1. k # 0 /\ ~(k <= lg) /\ k - lg = lh + 1
      BY <1>2, <2>3
    <3> QED BY <1>3, <2>1, <2>3, <3>1 DEF lg, lh
  <2>4. CASE k \in 1..lg
    <3>1. k \in 1..lg + lh /\ k # 0 /\ k <= lg
      BY <1>2, <2>4
    <3> QED BY <1>3, <1>6, <2>1, <2>4, <3>1
  <2>5. CASE k \in lg + 1..lg + lh
    <3>1. k \in 1..lg + lh /\ k # 0 /\ ~(k <= lg) /\ k - lg \in 1..lh
      BY <1>2, <2>5
    <3> QED BY <1>3, <1>6, <2>1, <3>1
  <2>6. k = 0 \/ k = lg + lh + 1 \/ k \in 1..lg \/ k \in lg + 1..lg + lh
    BY <1>2
  <2> QED BY <2>2, <2>3, <2>4, <2>5, <2>6, Zenon
<1>9. ASSUME NEW f \in V \ {g}, NEW k \in 0..Len(d[f])
      PROVE  /\ m.next[Ring(d, f, k)] = Ring(d, f, k + 1)
             /\ m.prev[Ring(d, f, k + 1)] = Ring(d, f, k)
  <2>1. CASE f # h
    <3>1. /\ f \in Heads /\ f # g /\ Ring(d, f, k) = Ring(c, f, k) /\ Ring(d, f, k + 1) = Ring(c, f, k + 1)
          /\ k \in 0..Len(c[f])
      <4>1. f \in Heads /\ f # g /\ d[f] = c[f]
        BY <1>1, <1>6, <2>1
      <4> QED BY <4>1 DEF Ring
    <3>2. /\ l.next[Ring(c, f, k)] = Ring(c, f, k + 1) /\ l.prev[Ring(c, f, k + 1)] = Ring(c, f, k)
          /\ Ring(c, f, k) \in Elem /\ Ring(c, f, k + 1) \in Elem
      BY <3>1, Edges
    <3>3. Ring(c, f, k) # b /\ Ring(c, f, k + 1) # a
      <4>1. Ring(c, f, k) # Ring(c, g, lg)
        BY <1>2, <3>1, Edges DEF lg
      <4>2. Ring(c, f, k + 1) # Ring(c, g, 0 + 1)
        BY <1>2, <3>1, Edges DEF lg
      <4> QED BY <4>1, <4>2 DEF a, b
    <3>4. Ring(c, f, k) # h /\ Ring(c, f, k + 1) # e
      <4>1. Ring(c, f, k) # Ring(c, h, 0) /\ Ring(c, f, k + 1) # Ring(c, h, 0 + 1)
        BY <1>2, <2>1, <3>1, Edges DEF lh
      <4> QED BY <1>3, <4>1 DEF e
    <3> QED BY <1>7, <3>1, <3>2, <3>3, <3>4
  <2>2. CASE f = h
    <3>1. k \in Int /\ 0 <= k /\ k <= lg + lh /\ k \in 0..lg + lh + 1 /\ k + 1 \in 0..lg + lh + 1
      <4>1. Len(d[f]) = lg + lh
        BY <1>6, <2>2
      <4> QED BY <1>2, <4>1
    <3>2. /\ Ring(d, h, k) = IF k = 0 THEN h ELSE IF k <= lg THEN Ring(c, g, k) ELSE Ring(c, h, k - lg)
          /\ Ring(d, h, k + 1) = IF k + 1 <= lg THEN Ring(c, g, k + 1) ELSE Ring(c, h, (k + 1) - lg)
      <4>1. k + 1 # 0
        BY <3>1
      <4> QED BY <1>8, <3>1, <4>1
    <3>3. CASE k = 0
      <4>1. Ring(d, h, k) = h /\ Ring(d, h, k + 1) = a
        BY <1>2, <3>2, <3>3 DEF a
      <4> QED BY <1>1, <1>3, <1>5, <1>7, <2>2, <4>1
    <3>4. CASE 0 < k /\ k < lg
      <4>1. /\ Ring(d, h, k) = Ring(c, g, k) /\ Ring(d, h, k + 1) = Ring(c, g, k + 1)
            /\ k \in 0..lg /\ k # lg /\ k # 0 /\ k \in 1..lg /\ k + 1 \in 1..lg
        BY <1>2, <3>1, <3>2, <3>4
      <4>2. /\ l.next[Ring(c, g, k)] = Ring(c, g, k + 1) /\ l.prev[Ring(c, g, k + 1)] = Ring(c, g, k)
            /\ Ring(c, g, k) \in Elem /\ Ring(c, g, k + 1) \in Elem
            /\ Ring(c, g, k) # b /\ Ring(c, g, k) # h
        BY <1>1, <1>2, <1>3, <4>1, Edges DEF b, lg
      <4>3. Ring(c, g, k + 1) # Ring(c, g, 0 + 1) /\ Ring(c, g, k + 1) # Ring(c, h, 0 + 1)
        BY <1>2, <4>1, Edges DEF lg, lh
      <4> QED BY <1>7, <2>2, <4>1, <4>2, <4>3 DEF a, e
    <3>5. CASE k = lg
      <4>1. Ring(d, h, k) = b /\ Ring(d, h, k + 1) = e
        <5>1. k # 0 /\ ~(k + 1 <= lg) /\ k <= lg /\ (k + 1) - lg = 1
          BY <1>2, <3>5
        <5> QED BY <3>2, <3>5, <5>1 DEF b, e
      <4> QED BY <1>1, <1>3, <1>7, <2>2, <4>1
    <3>6. CASE k > lg
      <4>1. /\ Ring(d, h, k) = Ring(c, h, k - lg) /\ Ring(d, h, k + 1) = Ring(c, h, (k - lg) + 1)
            /\ k - lg \in 0..lh /\ k - lg # 0
        <5>1. k # 0 /\ ~(k <= lg) /\ ~(k + 1 <= lg) /\ (k + 1) - lg = (k - lg) + 1
          BY <1>2, <3>1, <3>6
        <5> QED BY <1>2, <3>1, <3>2, <3>6, <5>1
      <4> DEFINE j == k - lg
      <4> HIDE DEF j
      <4>2. /\ l.next[Ring(c, h, j)] = Ring(c, h, j + 1) /\ l.prev[Ring(c, h, j + 1)] = Ring(c, h, j)
            /\ Ring(c, h, j) \in Elem /\ Ring(c, h, j + 1) \in Elem
        BY <4>1, Edges DEF j, lh
      <4>3. Ring(c, h, j) # Ring(c, h, 0) /\ Ring(c, h, j + 1) # Ring(c, h, 0 + 1)
        BY <1>2, <4>1, Edges DEF j, lh
      <4>4. Ring(c, h, j) # Ring(c, g, lg) /\ Ring(c, h, j + 1) # Ring(c, g, 0 + 1)
        <5>1. j \in 0..Len(c[h]) /\ lg \in 0..Len(c[g]) /\ 0 \in 0..Len(c[g])
          BY <1>2, <4>1 DEF j, lh, lg
        <5>2. Ring(c, h, j) # Ring(c, g, lg)
          BY <5>1, Edges
        <5>3. Ring(c, h, j + 1) # Ring(c, g, 0 + 1)
          BY <5>1, Edges
        <5> QED BY <5>2, <5>3
      <4>5. Ring(c, h, j) # b /\ Ring(c, h, j) # h /\ Ring(c, h, j + 1) # a /\ Ring(c, h, j + 1) # e
        BY <1>3, <4>3, <4>4 DEF a, b, e
      <4> QED BY <1>7, <2>2, <4>1, <4>2, <4>5 DEF j
    <3> QED BY <1>2, <3>1, <3>3, <3>4, <3>5, <3>6
  <2> QED BY <2>1, <2>2
<1>10. \A f \in Heads \ (V \ {g}) : Len(d[f]) = 0
  BY <1>1, <1>6 DEF Sound
<1>11. Distinct(d)
  <2>1. SUFFICES ASSUME NEW p \in Heads, NEW q \in Heads, NEW x \in 1..Len(d[p]), NEW y \in 1..Len(d[q]),
                        d[p][x] = d[q][y]
                 PROVE  p = q /\ x = y
    BY DEF Distinct
  <2> DEFINE of(f, z)    == IF f = h /\ z <= lg THEN g ELSE f
             place(f, z) == IF f = h /\ z > lg THEN z - lg ELSE z
  <2>2. \A f \in Heads : \A z \in 1..Len(d[f]) :
          f # g /\ z \in Int /\ of(f, z) \in Heads /\ place(f, z) \in 1..Len(c[of(f, z)])
            /\ d[f][z] = c[of(f, z)][place(f, z)]
    <3> TAKE f \in Heads
    <3> TAKE z \in 1..Len(d[f])
    <3>1. f # g /\ z \in Int
      <4>1. Len(d[f]) \in Nat
        BY Rings
      <4> QED BY <1>6, <4>1
    <3>2. CASE f # h
      <4>1. d[f] = c[f] /\ of(f, z) = f /\ place(f, z) = z
        BY <1>6, <3>1, <3>2
      <4> QED BY <3>1, <4>1
    <3>3. CASE f = h
      <4>1. z \in 1..lg + lh /\ d[h][z] = IF z <= lg THEN c[g][z] ELSE c[h][z - lg]
        BY <1>6, <3>3
      <4>2. CASE z <= lg
        <5>1. of(f, z) = g /\ place(f, z) = z /\ z \in 1..lg
          BY <1>2, <3>1, <3>3, <4>1, <4>2
        <5> QED BY <1>1, <3>1, <3>3, <4>1, <4>2, <5>1 DEF lg
      <4>3. CASE z > lg
        <5>1. of(f, z) = h /\ place(f, z) = z - lg /\ z - lg \in 1..lh /\ ~(z <= lg)
          BY <1>2, <3>1, <3>3, <4>1, <4>3
        <5> QED BY <1>1, <3>1, <3>3, <4>1, <5>1 DEF lh
      <4> QED BY <1>2, <3>1, <4>2, <4>3
    <3> QED BY <3>2, <3>3
  <2>3. \A s, t \in Heads : \A y2 \in 1..Len(c[s]), z2 \in 1..Len(c[t]) :
          c[s][y2] = c[t][z2] => s = t /\ y2 = z2
    BY <1>1 DEF Distinct
  <2>4. of(p, x) = of(q, y) /\ place(p, x) = place(q, y)
    <3> HIDE DEF of, place
    <3>1. /\ of(p, x) \in Heads /\ place(p, x) \in 1..Len(c[of(p, x)])
          /\ of(q, y) \in Heads /\ place(q, y) \in 1..Len(c[of(q, y)])
          /\ c[of(p, x)][place(p, x)] = c[of(q, y)][place(q, y)]
      BY <2>1, <2>2
    <3> QED BY <2>3, <3>1
  <2>5. p # g /\ q # g /\ x \in Int /\ y \in Int
    BY <2>2
  <2> QED BY <1>2, <2>4, <2>5
<1>12. Follows(m, d, V \ {g})
  BY <1>9 DEF Follows
<1> QED BY <1>1, <1>7, <1>10, <1>11, <1>12 DEF Sound, m

-----------------------------------------------------------------------------
(* The sequences that the actions of Lists build.                          *)
LEMMA Joined ==
  ASSUME NEW s \in Seq(Nodes), NEW n \in Nodes
  PROVE  /\ <<n>> \o s \in Seq(Nodes) /\ Len(<<n>> \o s) = Len(s) + 1
         /\ s \o <<n>> \in Seq(Nodes) /\ Len(s \o <<n>>) = Len(s) + 1
         /\ \A k \in 1..Len(s) + 1 :
              /\ (<<n>> \o s)[k] = IF k = 1 THEN n ELSE s[k - 1]
              /\ (s \o <<n>>)[k] = IF k <= Len(s) THEN s[k] ELSE n
<1>1. <<n>> \in Seq(Nodes) /\ Len(<<n>>) = 1 /\ <<n>>[1] = n /\ Len(s) \in Nat
  BY LenProperties
<1>2. /\ <<n>> \o s \in Seq(Nodes) /\ Len(<<n>> \o s) = 1 + Len(s)
      /\ \A k \in 1..1 + Len(s) : (<<n>> \o s)[k] = IF k <= 1 THEN <<n>>[k] ELSE s[k - 1]
  BY <1>1, ConcatProperties
<1>3. /\ s \o <<n>> \in Seq(Nodes) /\ Len(s \o <<n>>) = Len(s) + 1
      /\ \A k \in 1..Len(s) + 1 : (s \o <<n>>)[k] = IF k <= Len(s) THEN s[k] ELSE <<n>>[k - Len(s)]
  BY <1>1, ConcatProperties
<1>4. ASSUME NEW k \in 1..Len(s) + 1
      PROVE  /\ (<<n>> \o s)[k] = IF k = 1 THEN n ELSE s[k - 1]
             /\ (s \o <<n>>)[k] = IF k <= Len(s) THEN s[k] ELSE n
  <2>1. k \in 1..1 + Len(s) /\ (k <= 1 <=> k = 1) /\ (~(k <= Len(s)) => k - Len(s) = 1)
    BY <1>1
  <2> QED BY <1>1, <1>2, <1>3, <2>1
<1> QED BY <1>1, <1>2, <1>3, <1>4

LEMMA Removed ==
  ASSUME NEW s \in Seq(Nodes), NEW i \in 1..Len(s)
  PROVE  /\ RemoveAt(s, i) \in Seq(Nodes) /\ Len(RemoveAt(s, i)) = Len(s) - 1
         /\ \A k \in 1..Len(s) - 1 : RemoveAt(s, i)[k] = IF k < i THEN s[k] ELSE s[k + 1]
<1> DEFINE f == SubSeq(s, 1, i - 1)
           t == SubSeq(s, i + 1, Len(s))
<1>1. Len(s) \in Nat /\ i \in Int /\ 1 <= i /\ i <= Len(s)
  BY LenProperties
<1>2. /\ f \in Seq(Nodes) /\ Len(f) = i - 1 /\ \A k \in 1..i - 1 : f[k] = s[k]
  <2>1. \A k \in 1..i - 1 : s[k] \in Nodes
    BY <1>1, ElementOfSeq
  <2>2. /\ f \in Seq(Nodes) /\ Len(f) = IF 1 <= i - 1 THEN (i - 1) - 1 + 1 ELSE 0
        /\ \A k \in 1..(i - 1) - 1 + 1 : f[k] = s[1 + k - 1]
    BY <1>1, <2>1, SubSeqProperties
  <2>3. ASSUME NEW k \in 1..i - 1 PROVE f[k] = s[k]
    <3>1. k \in 1..(i - 1) - 1 + 1 /\ 1 + k - 1 = k
      BY <1>1
    <3> QED BY <2>2, <3>1
  <2> QED BY <1>1, <2>2, <2>3
<1>3. /\ t \in Seq(Nodes) /\ Len(t) = Len(s) - i /\ \A k \in 1..Len(s) - i : t[k] = s[i + k]
  <2>1. \A k \in i + 1..Len(s) : s[k] \in Nodes
    BY <1>1, ElementOfSeq
  <2>2. /\ t \in Seq(Nodes) /\ Len(t) = IF i + 1 <= Len(s) THEN Len(s) - (i + 1) + 1 ELSE 0
        /\ \A k \in 1..Len(s) - (i + 1) + 1 : t[k] = s[(i + 1) + k - 1]
    BY <1>1, <2>1, SubSeqProperties
  <2>3. ASSUME NEW k \in 1..Len(s) - i PROVE t[k] = s[i + k]
    <3>1. k \in 1..Len(s) - (i + 1) + 1 /\ (i + 1) + k - 1 = i + k
      BY <1>1
    <3> QED BY <2>2, <3>1
  <2> QED BY <1>1, <2>2, <2>3
<1> HIDE DEF f, t
<1>4. /\ f \o t \in Seq(Nodes) /\ Len(f \o t) = (i - 1) + (Len(s) - i)
      /\ \A k \in 1..(i - 1) + (Len(s) - i) : (f \o t)[k] = IF k <= i - 1 THEN f[k] ELSE t[k - (i - 1)]
  <2>1. /\ f \o t \in Seq(Nodes) /\ Len(f \o t) = Len(f) + Len(t)
        /\ \A k \in 1..Len(f) + Len(t) : (f \o t)[k] = IF k <= Len(f) THEN f[k] ELSE t[k - Len(f)]
    <3>1. f \in Seq(Nodes) /\ t \in Seq(Nodes)
      BY <1>2, <1>3
    <3> QED BY <3>1, ConcatProperties
  <2>2. Len(f) = i - 1 /\ Len(t) = Len(s) - i
    BY <1>2, <1>3
  <2> QED BY <2>1, <2>2
<1>5. ASSUME NEW k \in 1..Len(s) - 1
      PROVE  (f \o t)[k] = IF k < i THEN s[k] ELSE s[k + 1]
  <2>1. (f \o t)[k] = IF k <= i - 1 THEN f[k] ELSE t[k - (i - 1)]
    BY <1>1, <1>4
  <2>2. CASE k < i
    <3>1. k <= i - 1 /\ k \in 1..i - 1
      BY <1>1, <2>2
    <3> QED BY <1>2, <2>1, <2>2, <3>1
  <2>3. CASE ~(k < i)
    <3>1. ~(k <= i - 1) /\ k - (i - 1) \in 1..Len(s) - i /\ i + (k - (i - 1)) = k + 1
      BY <1>1, <2>3
    <3> QED BY <1>3, <2>1, <2>3, <3>1
  <2> QED BY <2>2, <2>3
<1>6. (i - 1) + (Len(s) - i) = Len(s) - 1
  BY <1>1
<1> QED BY <1>4, <1>5, <1>6 DEF RemoveAt, f, t

(* What each call does to sound lists.                                     *)
ListsIInv == Sound(list, chain, live)

LEMMA LinkedIn ==
  ASSUME ListsIInv, NEW n
  PROVE  n \notin Linked => ~In(chain, n)
<1>1. SUFFICES ASSUME NEW h \in Heads, NEW k \in 1..Len(chain[h]), chain[h][k] = n
               PROVE  n \in Linked
  BY DEF In
<1>2. chain \in Chains /\ \A g \in Heads \ live : Len(chain[g]) = 0
  BY DEF ListsIInv, Sound
<1>3. h \in live
  BY <1>2
<1>4. chain[h] \in Seq(Nodes) /\ DOMAIN chain[h] = 1..Len(chain[h])
  BY <1>2, Rings DEF Chains
<1>5. n \in ToSet(chain[h])
  BY <1>1, <1>4 DEF ToSet
<1> QED BY <1>3, <1>5 DEF Linked

LEMMA InitHeadKeeps ==
  ASSUME ListsIInv, NEW h \in Heads, InitHead(h)
  PROVE  ListsIInv'
<1>1. /\ list \in Links /\ chain \in Chains /\ live \subseteq Heads /\ Distinct(chain)
      /\ Follows(list, chain, live) /\ h \in Elem /\ chain[h] = <<>> /\ Len(chain[h]) = 0
  BY Elements DEF ListsIInv, Sound, InitHead
<1>2. /\ list' \in Links /\ list'.next[h] = h /\ list'.prev[h] = h
      /\ \A x \in Elem \ {h} : list'.next[x] = list.next[x] /\ list'.prev[x] = list.prev[x]
  BY <1>1 DEF InitHead, L!list_init, Links
<1>3. Sound(list, chain, live \ {h})
  BY <1>1 DEF ListsIInv, Sound, Follows
<1>4. ~In(chain, h)
  BY <1>1, Rings, Elements DEF In
<1>5. Sound(list', chain, live \ {h})
  BY <1>1, <1>2, <1>3, <1>4, OutsideSound
<1>6. Ring(chain, h, 0) = h /\ Ring(chain, h, 1) = h
  BY <1>1 DEF Ring
<1>7. Sound(list', chain, live \cup {h})
  <2>1. Follows(list', chain, live \cup {h})
    BY <1>1, <1>2, <1>5, <1>6 DEF Sound, Follows
  <2> QED BY <1>1, <1>5, <2>1 DEF Sound
<1> QED BY <1>7 DEF ListsIInv, InitHead

(* list_add and list_add_tail.                                             *)
LEMMA FrontSound ==
  ASSUME NEW l, NEW c, NEW V, Sound(l, c, V), NEW n \in Nodes, ~In(c, n), NEW h \in V,
         NEW d \in Chains, d[h] = <<n>> \o c[h], \A g \in Heads \ {h} : d[g] = c[g]
  PROVE  Sound(L!list_add(l, n, h), d, V)
<1> DEFINE i == 0
           s == 0
<1>1. c \in Chains /\ h \in Heads
  BY DEF Sound
<1>2. c[h] \in Seq(Nodes) /\ Len(c[h]) \in Nat /\ i \in 0..Len(c[h]) /\ i + s <= Len(c[h]) /\ s \in {0, 1}
  BY <1>1, Rings DEF Chains
<1>3. L!list_add(l, n, h) = L!ListAdd(l, n, Ring(c, h, i), Ring(c, h, i + 1 + s))
  <2>1. Ring(c, h, 0) = h /\ 0 \in 0..Len(c[h])
    BY <1>1, <1>2, Rings
  <2>2. l.next[Ring(c, h, 0)] = Ring(c, h, 0 + 1)
    BY <2>1 DEF Sound, Follows
  <2>3. i + 1 + s = 0 + 1 /\ i = 0
    OBVIOUS
  <2> HIDE DEF i, s
  <2> QED BY <2>1, <2>2, <2>3 DEF L!list_add
<1>4. /\ Len(d[h]) = Len(c[h]) + 1 - s
      /\ \A k \in 1..Len(d[h]) :
           d[h][k] = IF k <= i THEN c[h][k] ELSE IF k = i + 1 THEN n ELSE c[h][k - 1 + s]
  BY <1>2, Joined
<1> HIDE DEF i, s
<1>5. h \in V /\ Sound(l, c, V) /\ n \in Nodes /\ ~In(c, n) /\ d \in Chains
      /\ \A g \in Heads \ {h} : d[g] = c[g]
  OBVIOUS
<1>6. i \in 0..Len(c[h]) /\ s \in {0, 1} /\ i + s <= Len(c[h])
  BY <1>2
<1>7. Sound(L!ListAdd(l, n, Ring(c, h, i), Ring(c, h, i + 1 + s)), d, V)
  BY <1>4, <1>5, <1>6, PutSound
<1> QED BY <1>3, <1>7

LEMMA TailSound ==
  ASSUME NEW l, NEW c, NEW V, Sound(l, c, V), NEW n \in Nodes, ~In(c, n), NEW h \in V,
         NEW d \in Chains, d[h] = c[h] \o <<n>>, \A g \in Heads \ {h} : d[g] = c[g]
  PROVE  Sound(L!list_add_tail(l, n, h), d, V)
<1> DEFINE i == Len(c[h])
           s == 0
<1>1. c \in Chains /\ h \in Heads
  BY DEF Sound
<1>2. /\ c[h] \in Seq(Nodes) /\ i \in Nat /\ i \in 0..Len(c[h]) /\ i + s <= Len(c[h])
      /\ s \in {0, 1} /\ i + 1 + s = i + 1
  BY <1>1, Rings DEF Chains
<1>3. L!list_add_tail(l, n, h) = L!ListAdd(l, n, Ring(c, h, i), Ring(c, h, i + 1 + s))
  <2>1. l.prev[Ring(c, h, i + 1)] = Ring(c, h, i)
    BY <1>2 DEF Sound, Follows
  <2>2. Ring(c, h, i + 1) = h
    BY <1>1, Rings
  <2> QED BY <1>2, <2>1, <2>2 DEF L!list_add_tail
<1>4. /\ Len(d[h]) = Len(c[h]) + 1 - s
      /\ \A k \in 1..Len(d[h]) :
           d[h][k] = IF k <= i THEN c[h][k] ELSE IF k = i + 1 THEN n ELSE c[h][k - 1 + s]
  BY <1>2, Joined
<1> HIDE DEF i, s
<1> QED BY <1>2, <1>3, <1>4, PutSound

LEMMA Joining ==
  ASSUME NEW c \in Chains, NEW n \in Nodes, NEW h \in Heads, NEW d,
         d = [c EXCEPT ![h] = <<n>> \o c[h]] \/ d = [c EXCEPT ![h] = c[h] \o <<n>>]
  PROVE  d \in Chains /\ \A g \in Heads \ {h} : d[g] = c[g]
<1>1. c[h] \in Seq(Nodes)
  BY DEF Chains
<1>2. <<n>> \o c[h] \in Seq(Nodes) /\ c[h] \o <<n>> \in Seq(Nodes)
  BY <1>1, Joined
<1> QED BY <1>2 DEF Chains

LEMMA AddKeeps ==
  ASSUME ListsIInv, NEW h \in Heads, NEW n \in Nodes, Add(n, h)
  PROVE  ListsIInv'
<1>1. /\ h \in live /\ live' = live /\ ~In(chain, n) /\ chain \in Chains
  BY LinkedIn DEF Add, ListsIInv, Sound
<1>2. CASE list' = L!list_add(list, n, h) /\ chain' = [chain EXCEPT ![h] = <<n>> \o chain[h]]
  <2>1. chain' \in Chains /\ chain'[h] = <<n>> \o chain[h] /\ \A g \in Heads \ {h} : chain'[g] = chain[g]
    BY <1>1, <1>2, Joining DEF Chains
  <2>2. Sound(list', chain', live)
    BY <1>1, <1>2, <2>1, FrontSound DEF ListsIInv
  <2> QED BY <1>1, <2>2 DEF ListsIInv
<1>3. CASE list' = L!list_add_tail(list, n, h) /\ chain' = [chain EXCEPT ![h] = chain[h] \o <<n>>]
  <2>1. chain' \in Chains /\ chain'[h] = chain[h] \o <<n>> /\ \A g \in Heads \ {h} : chain'[g] = chain[g]
    BY <1>1, <1>3, Joining DEF Chains
  <2>2. Sound(list', chain', live)
    BY <1>1, <1>3, <2>1, TailSound DEF ListsIInv
  <2> QED BY <1>1, <2>2 DEF ListsIInv
<1> QED BY <1>2, <1>3 DEF Add

(* Unlinking the k-th node of the list of g.                               *)
LEMMA UnlinkSound ==
  ASSUME ListsIInv, NEW g \in Heads, NEW k \in DOMAIN chain[g]
  PROVE  /\ g \in live /\ k \in 1..Len(chain[g]) /\ chain[g][k] \in Nodes
         /\ Without(g, k) \in Chains /\ ~In(Without(g, k), chain[g][k])
         /\ Sound(L!ListUnlink(list, list.prev[chain[g][k]], list.next[chain[g][k]]), Without(g, k), live)
<1> DEFINE d == Without(g, k)
<1>1. chain \in Chains /\ \A h \in Heads \ live : Len(chain[h]) = 0
  BY DEF ListsIInv, Sound
<1>2. chain[g] \in Seq(Nodes) /\ k \in 1..Len(chain[g]) /\ chain[g][k] \in Nodes
  BY <1>1, Rings DEF Chains
<1>3. g \in live
  BY <1>1, <1>2
<1>4. d \in Chains /\ d[g] = RemoveAt(chain[g], k) /\ \A h \in Heads \ {g} : d[h] = chain[h]
  BY <1>1, <1>2, Removed DEF Chains, Without
<1>5. /\ Len(d[g]) = Len(chain[g]) - 1
      /\ \A j \in 1..Len(d[g]) : d[g][j] = IF j < k THEN chain[g][j] ELSE chain[g][j + 1]
  <2>1. /\ Len(RemoveAt(chain[g], k)) = Len(chain[g]) - 1
        /\ \A j \in 1..Len(chain[g]) - 1 :
             RemoveAt(chain[g], k)[j] = IF j < k THEN chain[g][j] ELSE chain[g][j + 1]
    BY <1>2, Removed
  <2> QED BY <1>4, <2>1
<1> HIDE DEF d
<1>6. Sound(L!ListUnlink(list, list.prev[chain[g][k]], list.next[chain[g][k]]), d, live) /\ ~In(d, chain[g][k])
  BY <1>2, <1>3, <1>4, <1>5, CutSound DEF ListsIInv
<1> QED BY <1>2, <1>3, <1>4, <1>6 DEF d

LEMMA DelKeeps ==
  ASSUME ListsIInv, NEW g \in Heads, NEW k \in DOMAIN chain[g], Del(g, k)
  PROVE  ListsIInv'
<1> DEFINE n == chain[g][k]
           u == L!ListUnlink(list, list.prev[n], list.next[n])
           d == Without(g, k)
<1>1. g \in live /\ n \in Nodes /\ d \in Chains /\ ~In(d, n) /\ Sound(u, d, live)
  BY UnlinkSound
<1>2. list' = [next |-> [u.next EXCEPT ![n] = Null], prev |-> [u.prev EXCEPT ![n] = Null]]
  BY DEF Del, L!list_del
<1>3. chain' = d /\ live' = live
  BY DEF Del
<1> HIDE DEF n, u, d
<1>4. u \in Links /\ n \in Elem /\ live \subseteq Heads /\ n \notin live
  BY <1>1, Elements DEF Sound
<1>5. /\ list' \in Links
      /\ \A x \in Elem \ {n} : list'.next[x] = u.next[x] /\ list'.prev[x] = u.prev[x]
  BY <1>2, <1>4 DEF Links
<1>6. Sound(list', d, live)
  BY <1>1, <1>4, <1>5, OutsideSound
<1> QED BY <1>3, <1>6 DEF ListsIInv

LEMMA MoveKeeps ==
  ASSUME ListsIInv, NEW g \in Heads, NEW h \in Heads, NEW k \in DOMAIN chain[g], Move(g, k, h)
  PROVE  ListsIInv'
<1> DEFINE n == chain[g][k]
           u == L!ListUnlink(list, list.prev[n], list.next[n])
           d == Without(g, k)
<1>1. n \in Nodes /\ d \in Chains /\ ~In(d, n) /\ Sound(u, d, live)
  BY UnlinkSound
<1>2. /\ h \in live /\ live' = live
      /\ \/ list' = L!list_add(u, n, h) /\ chain' = [d EXCEPT ![h] = <<n>> \o d[h]]
         \/ list' = L!list_add_tail(u, n, h) /\ chain' = [d EXCEPT ![h] = d[h] \o <<n>>]
  BY DEF Move, L!list_move, L!list_move_tail
<1> HIDE DEF n, u, d
<1>3. /\ chain' \in Chains /\ \A f \in Heads \ {h} : chain'[f] = d[f]
      /\ \/ list' = L!list_add(u, n, h) /\ chain'[h] = <<n>> \o d[h]
         \/ list' = L!list_add_tail(u, n, h) /\ chain'[h] = d[h] \o <<n>>
  <2>1. chain' = [d EXCEPT ![h] = <<n>> \o d[h]] \/ chain' = [d EXCEPT ![h] = d[h] \o <<n>>]
    BY <1>2
  <2>2. chain' \in Chains /\ \A f \in Heads \ {h} : chain'[f] = d[f]
    BY <1>1, <2>1, Joining
  <2>3. h \in DOMAIN d
    BY <1>1 DEF Chains
  <2> QED BY <1>2, <2>2, <2>3
<1>4. Sound(list', chain', live)
  BY <1>1, <1>2, <1>3, FrontSound, TailSound
<1> QED BY <1>2, <1>4 DEF ListsIInv

LEMMA ReplaceKeeps ==
  ASSUME ListsIInv, NEW g \in Heads, NEW k \in DOMAIN chain[g], NEW n \in Nodes, Replace(g, k, n)
  PROVE  ListsIInv'
<1> DEFINE o == chain[g][k]
           b == Ring(chain, g, k - 1)
           a == Ring(chain, g, k - 1 + 1 + 1)
           m == L!ListAdd(list, n, b, a)
           d == [chain EXCEPT ![g] = ReplaceAt(chain[g], k, n)]
<1>1. g \in live /\ k \in 1..Len(chain[g]) /\ o \in Nodes /\ ~In(chain, n) /\ live' = live /\ chain' = d
  BY UnlinkSound, LinkedIn DEF Replace
<1>2. /\ chain \in Chains /\ chain[g] \in Seq(Nodes) /\ list \in Links /\ Distinct(chain)
      /\ live \subseteq Heads /\ n \in Elem /\ n \notin Heads
  BY Elements DEF ListsIInv, Sound, Chains
<1>3. /\ Len(chain[g]) \in Nat /\ k \in Int /\ k - 1 \in 0..Len(chain[g]) /\ k \in 0..Len(chain[g])
      /\ k - 1 + 1 <= Len(chain[g]) /\ k - 1 + 1 = k /\ (k - 1) + 1 = k
  BY <1>1, <1>2, Rings
<1>4. /\ o = Ring(chain, g, k) /\ list.next[o] = a /\ list.prev[o] = b
      /\ o # a /\ o \in Elem /\ a \in Elem /\ b \in Elem
  <2>1. o = Ring(chain, g, k)
    BY <1>1, <1>2, Rings
  <2>2. list.next[Ring(chain, g, k)] = a
    BY <1>1, <1>3, Edges DEF ListsIInv
  <2>3. list.prev[Ring(chain, g, (k - 1) + 1)] = b
    BY <1>1, <1>3, Edges DEF ListsIInv
  <2>4. Ring(chain, g, (k - 1) + 1) # Ring(chain, g, k + 1)
    BY <1>1, <1>2, <1>3, Places
  <2>5. o \in Elem /\ a \in Elem /\ b \in Elem
    BY <1>1, <1>2, <1>3, <2>1, Rings
  <2> QED BY <1>3, <2>1, <2>2, <2>3, <2>4, <2>5
<1>5. n # o /\ n # a /\ n # b
  <2>1. \A j \in Int : Ring(chain, g, j) # n
    BY <1>1, <1>2, Rings DEF In, Ring
  <2> QED BY <1>3, <1>4, <2>1
<1> HIDE DEF a, b, o
<1>6. L!list_replace(list, o, n) = m
  <2> DEFINE n1 == [list.next EXCEPT ![n] = a]
             p1 == [list.prev EXCEPT ![a] = n]
             p2 == [p1 EXCEPT ![n] = b]
  <2>1. p1[o] = b /\ p2[n] = b
    BY <1>2, <1>4, <1>5 DEF Links
  <2>2. L!list_replace(list, o, n) = [next |-> [n1 EXCEPT ![p2[n]] = n], prev |-> p2]
    BY <1>4, <2>1 DEF L!list_replace
  <2>3. m = [next |-> [n1 EXCEPT ![b] = n], prev |-> p2]
    BY DEF L!ListAdd
  <2> QED BY <2>1, <2>2, <2>3
<1>7. d \in Chains /\ d[g] = ReplaceAt(chain[g], k, n) /\ \A h \in Heads \ {g} : d[h] = chain[h]
  <2>1. ReplaceAt(chain[g], k, n) \in Seq(Nodes)
    BY <1>1, <1>2, ExceptSeq DEF ReplaceAt
  <2> QED BY <1>2, <2>1 DEF Chains
<1>8. /\ Len(d[g]) = Len(chain[g]) + 1 - 1
      /\ \A j \in 1..Len(d[g]) :
           d[g][j] = IF j <= k - 1 THEN chain[g][j]
                     ELSE IF j = k - 1 + 1 THEN n ELSE chain[g][j - 1 + 1]
  <2>1. /\ Len(ReplaceAt(chain[g], k, n)) = Len(chain[g])
        /\ \A j \in 1..Len(chain[g]) :
             ReplaceAt(chain[g], k, n)[j] = IF j = k THEN n ELSE chain[g][j]
    BY <1>1, <1>2, ExceptSeq DEF ReplaceAt
  <2>2. Len(d[g]) = Len(chain[g])
    BY <1>7, <2>1
  <2>3. ASSUME NEW j \in 1..Len(d[g])
        PROVE  d[g][j] = IF j <= k - 1 THEN chain[g][j]
                         ELSE IF j = k - 1 + 1 THEN n ELSE chain[g][j - 1 + 1]
    <3>1. d[g][j] = IF j = k THEN n ELSE chain[g][j]
      BY <1>7, <2>1, <2>2
    <3>2. j - 1 + 1 = j /\ (j <= k - 1 => j # k) /\ (j = k - 1 + 1 <=> j = k)
      BY <1>3, <2>2
    <3> QED BY <3>1, <3>2
  <2> QED BY <1>3, <2>2, <2>3
<1> HIDE DEF d, m
<1>9. Sound(m, d, live)
  BY <1>1, <1>2, <1>3, <1>7, <1>8, PutSound DEF ListsIInv, a, b, m
<1>10. CASE list' = L!list_replace(list, o, n)
  BY <1>1, <1>6, <1>9, <1>10 DEF ListsIInv
<1>11. CASE list' = L!list_replace_init(list, o, n)
  <2>1. list' = [next |-> [m.next EXCEPT ![o] = o], prev |-> [m.prev EXCEPT ![o] = o]]
    BY <1>6, <1>11 DEF L!list_replace_init, L!list_init
  <2>2. m \in Links
    BY <1>9 DEF Sound
  <2>3. /\ list' \in Links
        /\ \A x \in Elem \ {o} : list'.next[x] = m.next[x] /\ list'.prev[x] = m.prev[x]
    BY <1>4, <2>1, <2>2 DEF Links
  <2>4. ~In(d, o)
    <3>1. SUFFICES ASSUME NEW e \in Heads, NEW j \in 1..Len(d[e]), d[e][j] = o
                   PROVE  FALSE
      BY DEF In
    <3>2. j \in 1..Len(chain[e]) /\ (e = g => j # k) /\ chain[e][j] = o
      <4>1. CASE e # g
        BY <1>7, <3>1, <4>1
      <4>2. CASE e = g
        <5>1. j \in 1..Len(chain[g]) /\ j - 1 + 1 = j
          BY <1>3, <1>8, <4>2
        <5>2. d[g][j] = IF j <= k - 1 THEN chain[g][j] ELSE IF j = k THEN n ELSE chain[g][j]
          BY <1>3, <1>8, <4>2, <5>1
        <5>3. d[g][j] = o
          BY <3>1, <4>2
        <5> QED BY <1>3, <1>5, <4>2, <5>1, <5>2, <5>3
      <4> QED BY <4>1, <4>2
    <3>3. \A y \in 1..Len(chain[e]), z \in 1..Len(chain[g]) : chain[e][y] = chain[g][z] => e = g /\ y = z
      BY <1>1, <1>2 DEF Distinct
    <3> QED BY <1>1, <3>2, <3>3 DEF o
  <2>5. o \notin live
    BY <1>1, <1>2, Elements
  <2>6. Sound(list', d, live)
    BY <1>4, <1>9, <2>3, <2>4, <2>5, OutsideSound
  <2> QED BY <1>1, <2>6 DEF ListsIInv
<1> QED BY <1>10, <1>11 DEF Replace, o

LEMMA TakeOverKeeps ==
  ASSUME ListsIInv, NEW g \in Heads, NEW h \in Heads, TakeOver(g, h)
  PROVE  ListsIInv'
<1>1. g \in live /\ h \in Heads \ live /\ g # h /\ chain \in Chains /\ live' = live \cup {h}
  BY DEF ListsIInv, Sound, TakeOver
<1>2. /\ chain' \in Chains /\ chain'[g] = <<>> /\ chain'[h] = chain[g]
      /\ \A f \in Heads \ {g, h} : chain'[f] = chain[f]
  <2>1. <<>> \in Seq(Nodes) /\ chain[g] \in Seq(Nodes)
    BY <1>1 DEF Chains
  <2> QED BY <1>1, <2>1 DEF Chains, TakeOver
<1>3. Sound(list', chain', live \cup {h})
  BY <1>1, <1>2, TakeOverSound DEF ListsIInv, TakeOver
<1> QED BY <1>1, <1>3 DEF ListsIInv

LEMMA SpliceKeeps ==
  ASSUME ListsIInv, NEW g \in Heads, NEW h \in Heads, Splice(g, h)
  PROVE  ListsIInv'
<1>1. g \in live /\ h \in live /\ g # h /\ chain \in Chains
  BY DEF ListsIInv, Sound, Splice
<1>2. chain[g] \in Seq(Nodes) /\ chain[h] \in Seq(Nodes) /\ <<>> \in Seq(Nodes)
      /\ (chain[g] = <<>> <=> Len(chain[g]) = 0) /\ g \in Elem
  BY <1>1, Elements DEF Chains
<1>3. /\ chain' \in Chains /\ chain'[g] = <<>> /\ chain'[h] = chain[g] \o chain[h]
      /\ \A f \in Heads \ {g, h} : chain'[f] = chain[f]
  <2>1. chain[g] \o chain[h] \in Seq(Nodes)
    BY <1>2, ConcatProperties
  <2> QED BY <1>1, <1>2, <2>1 DEF Chains, Splice
<1>4. list.next[g] = Ring(chain, g, 1) /\ (Ring(chain, g, 1) = g <=> Len(chain[g]) = 0)
  <2>1. Len(chain[g]) \in Nat /\ 0 \in 0..Len(chain[g]) /\ Ring(chain, g, 0) = g
    BY <1>1, Rings
  <2>2. list.next[Ring(chain, g, 0)] = Ring(chain, g, 0 + 1)
    BY <1>1, <2>1, Edges DEF ListsIInv
  <2>3. CASE Len(chain[g]) = 0
    BY <2>1, <2>2, <2>3 DEF Ring
  <2>4. CASE Len(chain[g]) # 0
    <3>1. 1 \in 1..Len(chain[g])
      BY <2>1, <2>4
    <3>2. Ring(chain, g, 1) \in Nodes
      BY <1>1, <3>1, Rings
    <3> QED BY <1>1, <2>1, <2>2, <2>4, <3>2, Elements
  <2> QED BY <2>3, <2>4
<1>5. CASE Len(chain[g]) = 0
  <2>1. list' = list /\ live' = live
    BY <1>2, <1>4, <1>5 DEF Splice, L!list_splice, L!list_empty
  <2>2. chain' = chain
    <3>1. chain[g] = <<>> /\ <<>> \o chain[h] = chain[h]
      BY <1>2, <1>5, ConcatEmptySeq
    <3>2. chain'[g] = chain[g] /\ chain'[h] = chain[h]
      BY <1>3, <3>1
    <3>3. \A f \in Heads : chain'[f] = chain[f]
      BY <1>3, <3>2
    <3>4. chain \in [Heads -> Seq(Nodes)] /\ chain' \in [Heads -> Seq(Nodes)]
      BY <1>1, <1>3 DEF Chains
    <3> HIDE <1>1, <1>3
    <3> QED BY <3>3, <3>4
  <2> QED BY <2>1, <2>2 DEF ListsIInv
<1>6. CASE Len(chain[g]) # 0
  <2>1. list' = L!ListSplice(list, g, h) /\ live' = live \ {g}
    BY <1>2, <1>4, <1>6 DEF Splice, L!list_splice, L!list_empty
  <2>2. Sound(list', chain', live \ {g})
    BY <1>1, <1>3, <1>6, <2>1, SpliceSound DEF ListsIInv
  <2> QED BY <2>1, <2>2 DEF ListsIInv
<1> QED BY <1>5, <1>6

-----------------------------------------------------------------------------
LEMMA ListsInitIInv == ListsInit => ListsIInv
<1> SUFFICES ASSUME ListsInit PROVE ListsIInv
  OBVIOUS
<1>1. list \in Links /\ live = {}
  BY DEF ListsInit, Links
<1>2. chain \in Chains /\ \A h \in Heads : Len(chain[h]) = 0
  BY DEF ListsInit, Chains
<1>3. Distinct(chain)
  BY <1>2 DEF Distinct
<1> QED BY <1>1, <1>2, <1>3 DEF ListsIInv, Sound, Follows

LEMMA ListsNextIInv == ListsIInv /\ [ListsNext]_listVars => ListsIInv'
<1> SUFFICES ASSUME ListsIInv, [ListsNext]_listVars PROVE ListsIInv'
  OBVIOUS
<1>1. CASE \E h \in Heads : InitHead(h) \/ \E n \in Nodes : Add(n, h)
  BY <1>1, InitHeadKeeps, AddKeeps
<1>2. CASE \E g, h \in Heads : Splice(g, h) \/ TakeOver(g, h)
  BY <1>2, SpliceKeeps, TakeOverKeeps
<1>3. CASE \E g \in Heads : \E k \in DOMAIN chain[g] :
             Del(g, k) \/ (\E n \in Nodes : Replace(g, k, n)) \/ (\E h \in Heads : Move(g, k, h))
  BY <1>3, DelKeeps, ReplaceKeeps, MoveKeeps
<1>4. CASE UNCHANGED listVars
  BY <1>4 DEF listVars, ListsIInv
<1> QED BY <1>1, <1>2, <1>3, <1>4 DEF ListsNext

(* After any sequence of calls that keep to the duties of list.h, every    *)
(* head in use closes a ring of distinct nodes linked both ways.           *)
THEOREM ListsInvariance == ListsSpec => []ListsIInv
BY ListsInitIInv, ListsNextIInv, PTL DEF ListsSpec

LEMMA LinksFollow == ListsIInv => LinksFollowChains
<1> SUFFICES ASSUME ListsIInv, NEW h \in live PROVE
      LET ring == <<h>> \o chain[h] \o <<h>>
      IN  \A k \in 1..Len(ring) - 1 :
            list.next[ring[k]] = ring[k + 1] /\ list.prev[ring[k + 1]] = ring[k]
  BY DEF LinksFollowChains
<1> DEFINE s    == chain[h]
           ring == <<h>> \o s \o <<h>>
<1>1. h \in Heads /\ chain \in Chains
  BY DEF ListsIInv, Sound
<1>2. s \in Seq(Elem) /\ <<h>> \in Seq(Elem) /\ Len(<<h>>) = 1 /\ <<h>>[1] = h /\ Len(s) \in Nat
  <2>1. s \in Seq(Nodes) /\ h \in Elem
    BY <1>1, Elements DEF Chains
  <2>2. Seq(Nodes) \subseteq Seq(Elem)
    BY Elements
  <2> QED BY <2>1, <2>2
<1>3. /\ <<h>> \o s \in Seq(Elem) /\ Len(<<h>> \o s) = 1 + Len(s)
      /\ \A k \in 1..1 + Len(s) : (<<h>> \o s)[k] = IF k <= 1 THEN <<h>>[k] ELSE s[k - 1]
  BY <1>2, ConcatProperties
<1>4. /\ Len(ring) = Len(s) + 2
      /\ \A k \in 1..Len(s) + 2 :
           ring[k] = IF k <= 1 + Len(s) THEN (<<h>> \o s)[k] ELSE <<h>>[k - (1 + Len(s))]
  <2>1. /\ Len(ring) = (1 + Len(s)) + 1
        /\ \A k \in 1..(1 + Len(s)) + 1 :
             ring[k] = IF k <= 1 + Len(s) THEN (<<h>> \o s)[k] ELSE <<h>>[k - (1 + Len(s))]
    <3> DEFINE u == <<h>> \o s
               v == <<h>>
    <3>1. u \in Seq(Elem) /\ v \in Seq(Elem) /\ Len(u) = 1 + Len(s) /\ Len(v) = 1 /\ ring = u \o v
      BY <1>2, <1>3
    <3> HIDE DEF u, v, ring
    <3>2. /\ Len(u \o v) = Len(u) + Len(v)
          /\ \A k \in 1..Len(u) + Len(v) : (u \o v)[k] = IF k <= Len(u) THEN u[k] ELSE v[k - Len(u)]
      BY <3>1, ConcatProperties
    <3>3. /\ Len(ring) = (1 + Len(s)) + 1
          /\ \A k \in 1..(1 + Len(s)) + 1 :
               ring[k] = IF k <= 1 + Len(s) THEN u[k] ELSE v[k - (1 + Len(s))]
      BY <3>1, <3>2
    <3> QED BY <3>3 DEF u, v
  <2>2. (1 + Len(s)) + 1 = Len(s) + 2
    BY <1>2
  <2> QED BY <2>1, <2>2
<1> HIDE DEF ring
<1>5. \A k \in 1..Len(s) + 2 : ring[k] = Ring(chain, h, k - 1)
  <2> TAKE k \in 1..Len(s) + 2
  <2>1. /\ Ring(chain, h, 0) = h /\ Ring(chain, h, Len(s) + 1) = h
        /\ \A j \in 1..Len(s) : Ring(chain, h, j) = s[j]
    BY <1>1, Rings
  <2>2. CASE k = 1
    <3>1. k <= 1 + Len(s) /\ k <= 1 /\ k - 1 = 0 /\ k \in 1..1 + Len(s)
      BY <1>2, <2>2
    <3>2. ring[k] = (<<h>> \o s)[k]
      BY <1>4, <3>1
    <3>3. (<<h>> \o s)[k] = <<h>>[k]
      BY <1>3, <3>1
    <3> QED BY <1>2, <2>1, <2>2, <3>1, <3>2, <3>3
  <2>3. CASE k = Len(s) + 2
    <3>1. ~(k <= 1 + Len(s)) /\ k - (1 + Len(s)) = 1 /\ k - 1 = Len(s) + 1
      BY <1>2, <2>3
    <3> QED BY <1>2, <1>4, <2>1, <3>1
  <2>4. CASE k \in 2..Len(s) + 1
    <3>1. k <= 1 + Len(s) /\ ~(k <= 1) /\ k - 1 \in 1..Len(s) /\ k \in 1..1 + Len(s)
      BY <1>2, <2>4
    <3> QED BY <1>3, <1>4, <2>1, <3>1
  <2>5. k = 1 \/ k = Len(s) + 2 \/ k \in 2..Len(s) + 1
    BY <1>2
  <2> QED BY <2>2, <2>3, <2>4, <2>5
<1>6. ASSUME NEW k \in 1..Len(ring) - 1
      PROVE  list.next[ring[k]] = ring[k + 1] /\ list.prev[ring[k + 1]] = ring[k]
  <2>1. /\ k - 1 \in 0..Len(s) /\ k \in 1..Len(s) + 2 /\ k + 1 \in 1..Len(s) + 2
        /\ (k - 1) + 1 = (k + 1) - 1
    BY <1>2, <1>4
  <2>2. ring[k] = Ring(chain, h, k - 1) /\ ring[k + 1] = Ring(chain, h, (k + 1) - 1)
    BY <1>5, <2>1
  <2>3. /\ list.next[Ring(chain, h, k - 1)] = Ring(chain, h, (k - 1) + 1)
        /\ list.prev[Ring(chain, h, (k - 1) + 1)] = Ring(chain, h, k - 1)
    BY <2>1, Edges DEF ListsIInv
  <2> QED BY <2>1, <2>2, <2>3
<1> QED BY <1>6 DEF ring

(* From a head around its list and back, forwards and backwards, the links *)
(* visit the nodes the calls put there, in their order (ds/list.h).        *)
THEOREM ListsAreFollowed == ListsSpec => []LinksFollowChains
BY ListsInvariance, LinksFollow, PTL
=============================================================================
