----------------------------- MODULE ServoPulse -----------------------------
(***************************************************************************)
(* The numbers of hal_servo.c: the pulse and the duty cycle of an angle,   *)
(* the angle a move may lead to, and the angles the servo task passes      *)
(* through on the way.  Integers of C divide towards zero; a product with  *)
(* the floating-point step may miss a whole number from below.             *)
(***************************************************************************)
EXTENDS Integers

CONSTANTS MinY, MaxY, StepMs    \* CONFIG_WATCHER_SERVO_Y_MIN_DEG, _Y_MAX_DEG, _SMOOTH_STEP_MS

ASSUME PulseAssumption == MinY \in 0 .. 180 /\ MaxY \in MinY .. 180 /\ StepMs \in 5 .. 50

MinPulse     == 500
NeutralPulse == 1500
MaxPulse     == 2500
Period       == 20000   \* microseconds
Resolution   == 16384   \* DUTY_RESOLUTION
Neutral      == 90      \* SERVO_LOGICAL_NEUTRAL_DEG

Limited(v, low, high) == IF v < low THEN low ELSE IF v > high THEN high ELSE v

\* div_round_nearest: a half goes away from zero.
Nearest(a, b) ==
    IF a >= 0 THEN (a + b \div 2) \div b ELSE -((b \div 2 - a) \div b)

\* The direction of rotation is that of the axis; the range is that of the angle.
Relative(angle) == Limited(angle, 0, 180) - Neutral

PulseWidth(angle) ==
    Limited(NeutralPulse + Nearest(Relative(angle) * (MaxPulse - NeutralPulse), Neutral),
            MinPulse, MaxPulse)

Duty(pulse) == Nearest(Limited(pulse, MinPulse, MaxPulse) * Resolution, Period)

AngleDuty(angle) == Duty(PulseWidth(angle))

-----------------------------------------------------------------------------
(* A smooth move *)

\* Only axis y has mechanical limits.
Target(axis, angle) == IF axis = "y" THEN Limited(angle, MinY, MaxY) ELSE angle

\* A move shorter than a step is one step.
Steps(duration) == IF duration \div StepMs < 1 THEN 1 ELSE duration \div StepMs

\* Where step i of n on the way from start to target may set the axis: as far as the product
\* has come, cut to whole degrees, and one less where it is whole.
StepAngles(start, target, n, i) ==
    IF i = n THEN {target}
    ELSE IF target >= start
         THEN {a \in start .. target : /\ (a - start) * n <= (target - start) * i
                                       /\ (target - start) * i <= (a - start + 1) * n}
         ELSE {a \in target .. start : /\ (start - a) * n <= (start - target) * i
                                       /\ (start - target) * i <= (start - a + 1) * n}

=============================================================================
