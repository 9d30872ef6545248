-------------------------------- MODULE Foc ---------------------------------
(***************************************************************************)
(* The state machines of the motor control in foc/ and of the polarity     *)
(* identification in obs/hfi.h.  The control loop calls foc_exec; between  *)
(* two calls the application sets the state, mode, angle source and        *)
(* observer in the structure.  A call is one step, as nothing runs beside  *)
(* it, and is put together from the functions it calls, each an operator   *)
(* from structure to structure.                                            *)
(*                                                                         *)
(* Angles are whole fractions of a turn, electrical; voltages, speeds and  *)
(* positions, the control loops and the modulation are left out, and of    *)
(* the currents there is the d reference and the reading of the ADC.       *)
(***************************************************************************)
EXTENDS Integers

CONSTANTS
  Tau,            \* fractions of an electrical turn
  Step,           \* force_omega / exec_freq while calibrating
  Npp,            \* pole pairs: electrical turns per mechanical one
  Hold,           \* theta_cali_cnt_max
  AdcLog,         \* adc_cali_cnt_max, the logarithm of the number of samples
  Raw,            \* what the ADC reads at no current
  PolarMax,       \* polar_cnt_max
  Lag,            \* how far from its goal friction lets the rotor stop
  Zeros,          \* where the sensor may stand when the electrical angle is 0
  NoAngle         \* inf or NaN

ASSUME FocAssumption ==
  /\ {Step, Npp, Hold, PolarMax} \subseteq Nat \ {0} /\ {AdcLog, Raw, Lag} \subseteq Nat
  /\ Tau \in Nat /\ Tau % 2 = 0 /\ Tau > 2 * (Step + Lag) /\ Zeros \subseteq 0..Tau-1
  /\ NoAngle \notin Int

VARIABLES
  foc,         \* the structure
  zero, rotor, \* external: the true offset, the angle of the rotor times Npp
  whole        \* history: no calibration was left before its end

focVars == <<foc, zero, rotor, whole>>

FocInit ==
  /\ foc = [state |-> "null", mode |-> "null", last |-> "null", theta |-> "null", obs |-> "null",
            cali |-> "init", drv |-> FALSE, refd |-> "none", force |-> 0, sensor |-> 0,
            adc |-> [offset |-> 0, cnt |-> 0],
            off |-> [sum |-> 0, cnt |-> 0, hold |-> 0, theta |-> 0],
            hfi |-> [st |-> "ready", cnt |-> 0, pos |-> 0, neg |-> 0, id |-> "none"]]
  /\ zero \in Zeros /\ rotor = zero /\ whole = TRUE

-----------------------------------------------------------------------------
(* The remainder has the sign of its dividend; TAU itself stays TAU.       *)
WARP_TAU(a) ==
  LET m == IF a > Tau THEN a % Tau ELSE IF -a > Tau THEN -((-a) % Tau) ELSE a
  IN  IF m < 0 THEN m + Tau ELSE m

foc_rotor_cal(f) ==
  [f EXCEPT !.sensor = IF f.off.theta = NoAngle THEN NoAngle ELSE WARP_TAU(rotor - f.off.theta)]

(* hfi_polar_idf: one call of the identification; h.pos and h.neg are the  *)
(* numbers of samples in id_pos and id_neg.                                *)
PolarIdf(h) ==
  LET over(k) == h.cnt = k * PolarMax
      next    == [h EXCEPT !.cnt = h.cnt + 1]
  IN  CASE h.st = "ready" -> [next EXCEPT !.st = IF over(1) THEN "positive" ELSE "ready"]
        [] h.st = "positive" ->
             [next EXCEPT !.id = "hfi_id", !.pos = h.pos + 1,
                          !.st = IF over(2) THEN "negative" ELSE "positive"]
        [] h.st = "negative" ->
             [next EXCEPT !.id = "-hfi_id", !.neg = h.neg + 1,
                          !.st = IF over(3) THEN "finish" ELSE "negative"]
        [] h.st = "finish" -> [h EXCEPT !.id = "none", !.cnt = 0]

(* A mistake: the call that ends a phase does not count.                   *)
PolarStepUncounted(h) ==
  LET n == PolarIdf(h) IN IF n.st # h.st THEN [n EXCEPT !.cnt = h.cnt] ELSE n

PolarStep(h) == PolarIdf(h)

(* The HFI observer runs in the state ENABLE only, not while calibrating.  *)
foc_obs_i_dq(f) ==
  IF f.obs # "hfi" \/ f.state # "enable" THEN f
  ELSE LET h == PolarStep(f.hfi) IN [f EXCEPT !.hfi = h, !.refd = h.id]

foc_select_mode(f) == [f EXCEPT !.last = f.mode]

foc_enable(f) == foc_select_mode(foc_obs_i_dq([f EXCEPT !.drv = TRUE]))

(* The outputs are cleared, of the HFI observer too; the rest is kept.     *)
foc_disable(f) == [f EXCEPT !.drv = FALSE, !.hfi.id = "none"]

(* A sample is added; the last one turns the sum into the offset.          *)
foc_adc_cali(f) ==
  LET sum  == f.adc.offset + Raw
      last == f.adc.cnt + 1 >= 2 ^ AdcLog
  IN  [f EXCEPT !.drv = ~last,
                !.adc = [offset |-> IF last THEN sum \div 2 ^ AdcLog ELSE sum, cnt |-> f.adc.cnt + 1]]

CaliInit(f) ==
  LET g == foc_adc_cali(f)
  IN  IF g.drv THEN g
      ELSE [g EXCEPT !.refd = "cali_id", !.mode = "cur", !.theta = "force", !.cali = "cw"]

(* CW turns the field from 0 to TAU, CCW back, Npp times each.  At the end *)
(* of a turn it is held, the sensor is read, and either the field restarts *)
(* at the other end of the turn or the phase is over.                      *)
CaliTurn(f, from, to, turns, phase) ==
  LET g    == foc_enable(f)
      held == g.off.hold + 1
      cnt  == g.off.cnt + 1
      off  == [g.off EXCEPT !.hold = 0, !.cnt = cnt,
                 !.sum = IF NoAngle \in {g.sensor, @} THEN NoAngle ELSE @ + g.sensor]
      there == IF from < to THEN g.force >= to ELSE g.force <= to
  IN  IF ~there
      THEN IF g.off.hold > 0 THEN g
           ELSE [g EXCEPT !.force = IF from < to THEN @ + Step ELSE @ - Step]
      ELSE IF held < Hold THEN [g EXCEPT !.force = to, !.off.hold = held]
      ELSE IF cnt >= turns THEN [g EXCEPT !.force = to, !.off = off, !.cali = phase]
      ELSE [g EXCEPT !.force = from, !.off = off]

(* A mistake: the samples of the way back are not waited for.              *)
CaliCcwShort(f) == CaliTurn(f, Tau, 0, Npp + 1, "finish")

CaliCcw(f) == CaliTurn(f, Tau, 0, 2 * Npp, "finish")

(* A mistake: the d current of the calibration stays.                      *)
CaliFinishDriven(f) ==
  [foc_disable(f) EXCEPT
     !.off.theta = IF f.off.cnt = 0 \/ f.off.sum = NoAngle THEN NoAngle ELSE f.off.sum \div f.off.cnt,
     !.off.cnt = 0, !.adc.cnt = 0, !.force = 0, !.mode = "null", !.theta = "null", !.state = "ready"]

(* Without a sample since the last calibration this divides by zero.       *)
CaliFinish(f) ==
  [foc_disable(f) EXCEPT
     !.off.theta = IF f.off.cnt = 0 \/ f.off.sum = NoAngle THEN NoAngle ELSE f.off.sum \div f.off.cnt,
     !.off.cnt = 0, !.adc.cnt = 0, !.refd = "none", !.force = 0,
     !.mode = "null", !.theta = "null", !.state = "ready"]

foc_cali(f) ==
  CASE f.cali = "init"   -> CaliInit(f)
    [] f.cali = "cw"     -> CaliTurn(f, 0, Tau, Npp, "ccw")
    [] f.cali = "ccw"    -> CaliCcw(f)
    [] f.cali = "finish" -> CaliFinish(f)

(* READY and NULL do nothing.                                              *)
foc_exec(g) ==
  LET f == foc_rotor_cal(g)
  IN  CASE f.state = "cali"    -> foc_cali(f)
        [] f.state = "disable" -> foc_disable(f)
        [] f.state = "enable"  -> foc_enable(f)
        [] OTHER -> f

(* External: a held current turns the rotor towards the field's angle, and *)
(* friction stops it Lag before.                                           *)
Follow(f, x) ==
  LET d  == (f.force + zero - x) % Tau
      to == IF 2 * d > Tau THEN d - Tau ELSE d
  IN  IF ~f.drv \/ f.refd # "cali_id" \/ f.mode # "cur" \/ f.theta # "force" THEN x
      ELSE (x + (IF to > Lag THEN to - Lag ELSE IF to < -Lag THEN to + Lag ELSE 0)) % (Npp * Tau)

Exec ==
  /\ foc' = foc_exec(foc)
  /\ rotor' = Follow(foc', rotor)
  /\ UNCHANGED <<zero, whole>>

-----------------------------------------------------------------------------
(* The application; it leaves the mode and the angle to a calibration.     *)
Calibrating == foc.state = "cali" /\ foc.cali # "init"

SetState(s) ==
  /\ s # foc.state
  /\ foc' = [foc EXCEPT !.state = s]
  /\ whole' = (whole /\ foc.state # "cali")
  /\ UNCHANGED <<zero, rotor>>

SetControl(mode, theta, obs) ==
  /\ Calibrating => mode = foc.mode /\ theta = foc.theta
  /\ foc' = [foc EXCEPT !.mode = mode, !.theta = theta, !.obs = obs]
  /\ UNCHANGED <<zero, rotor, whole>>

FocNext ==
  \/ Exec
  \/ \E s \in {"cali", "ready", "disable", "enable"} : SetState(s)
  \/ \E c \in {<<foc.mode, foc.theta>>, <<"vel", "sensor">>}, o \in {"null", "hfi"} :
       SetControl(c[1], c[2], o)

FocSpec == FocInit /\ [][FocNext]_focVars

-----------------------------------------------------------------------------
(* A calibration that was not left before its end finds the offset of the  *)
(* sensor and that of the ADC: the lag of the rotor, which falls behind    *)
(* the field in both directions, cancels out over the turns.  This takes a *)
(* sensor that does not pass from TAU to 0 between the two places where it *)
(* is read, else the mean of angles is off by half a turn; and the first   *)
(* calibration only, as any later call in the state CALI divides by zero.  *)
OffsetIsRight ==
  (whole /\ foc.cali = "finish" /\ foc.state = "ready" /\ Lag < zero /\ zero + Lag < Tau)
    => foc.off.theta \in {zero, NoAngle} /\ foc.adc.offset = Raw

(* The polarity is decided on as many samples with current in one          *)
(* direction as in the other, however often the drive or the observer was  *)
(* switched meanwhile.                                                     *)
PolarityWindowsAreEqual ==
  foc.hfi.st = "finish" => foc.hfi.pos = PolarMax /\ foc.hfi.neg = PolarMax

(* Once the calibration and the identification that put a current on the   *)
(* d axis have come to their end, none is left in the reference, whatever  *)
(* state is called next.  One that is broken off leaves it there.          *)
NoCurrentIsLeft ==
  LET calibrating == foc.cali \in {"cw", "ccw"} \/ foc.off.cnt > 0
      identifying == foc.hfi.st \in {"positive", "negative"} \/ foc.hfi.cnt > 3 * PolarMax
  IN  /\ foc.refd = "cali_id" => calibrating
      /\ foc.refd \in {"hfi_id", "-hfi_id"} => identifying
=============================================================================
