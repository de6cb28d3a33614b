---------------------------- MODULE PendulumAngle ----------------------------
(***************************************************************************)
(* The pendulum's angle on its way to the estimator's rate: the synthetic  *)
(* sensor of tools/sitl/src/rotary.rs turns it into an ADC reading, the    *)
(* calibration of plant/measurement-model turns the reading back into an   *)
(* angle, and BasicEstimator differences consecutive angles.  Each of the  *)
(* three wraps at a seam of its own: the reading at the modulus, the angle *)
(* half a turn from upright, the difference at half a turn.                *)
(*                                                                         *)
(* The plant's angle is in parts of a count, Parts to a count; a turn is   *)
(* AdcModulus counts, as in parameters/reference-assembly.json.            *)
(***************************************************************************)
EXTENDS Integers

CONSTANTS
  NoAngle,
  AdcModulus,     \* 4096
  UprightAdc,     \* 2928
  Parts,          \* resolution of the plant's angle
  PendulumTravel  \* bound on the plant's angle

ASSUME AngleAssumption ==
  /\ {AdcModulus, Parts} \subseteq Nat \ {0} /\ AdcModulus % 2 = 0
  /\ UprightAdc \in 0..AdcModulus - 1
  /\ PendulumTravel \in Nat

VARIABLES
  pendulum,         \* the plant's theta, which does not wrap
  pendulum_direction,
  previous_theta,   \* BasicEstimator::previous: counts from upright, or NoAngle
  primed_at,        \* history: the count the estimator was primed at, without
                    \* wrap; NoAngle once half a turn has passed between samples
  followed          \* history: sum of the differences since then

angleVars ==
  <<pendulum, pendulum_direction, previous_theta, primed_at, followed>>

Directions == {-1, 1}

AngleInit ==
  /\ pendulum = 0
  /\ pendulum_direction \in Directions
  /\ previous_theta = NoAngle
  /\ primed_at = NoAngle
  /\ followed = 0
---------------------------------------------------------------------------
Absolute(x) == IF x < 0 THEN -x ELSE x

(* f32::round, of x parts of a count: halves are rounded away from zero.   *)
Rounded(x) ==
  LET counts == (2 * Absolute(x) + Parts) \div (2 * Parts)
  IN  IF x < 0 THEN -counts ELSE counts

(* wrap_pi, which leaves half a turn to either side alone.                 *)
WrapPi(x, turn) ==
  LET r == x % turn
  IN  IF 2 * Absolute(x) <= turn THEN x
      ELSE IF 2 * r > turn \/ (x < 0 /\ 2 * r = turn) THEN r - turn
      ELSE r

(* How far the pendulum is from a measured angle, whole turns aside.       *)
Error(theta, at) == WrapPi(at - Parts * theta, Parts * AdcModulus)

(* SyntheticSensors::observe.                                              *)
AdcRaw(theta) ==
  (UprightAdc + Rounded(pendulum_direction * WrapPi(theta, Parts * AdcModulus)))
    % AdcModulus

(* PendulumCalibration::angle.                                             *)
Angle(adc_raw) == WrapPi((adc_raw - UprightAdc) * pendulum_direction, AdcModulus)

(* Mutant: the difference is wrapped on one side only.                     *)
ShortestCircularDelta_OneSided(delta) ==
  IF 2 * delta > AdcModulus THEN delta - AdcModulus ELSE delta

ShortestCircularDelta(delta) ==
  IF 2 * delta > AdcModulus THEN delta - AdcModulus
  ELSE IF 2 * delta < -AdcModulus THEN delta + AdcModulus
  ELSE delta

(* BasicEstimator::step on a later measurement: it is primed by the first  *)
(* one and by one that comes after too long a gap.                         *)
Prime(theta) ==
  /\ previous_theta' = theta
  /\ primed_at' = (pendulum' - Error(theta, pendulum')) \div Parts
  /\ followed' = 0

Lost == 2 * (Absolute(pendulum' - pendulum) + Parts) >= Parts * AdcModulus

Difference(theta) ==
  /\ previous_theta # NoAngle
  /\ previous_theta' = theta
  /\ IF primed_at = NoAngle \/ Lost
       THEN primed_at' = NoAngle /\ followed' = 0
       ELSE /\ followed' = followed + ShortestCircularDelta(theta - previous_theta)
            /\ UNCHANGED primed_at

(* One sample, and all the movement since the one before.                  *)
SampleAngle(moved_to) ==
  LET theta == Angle(AdcRaw(moved_to))
  IN  /\ pendulum' = moved_to
      /\ Prime(theta) \/ Difference(theta)
      /\ UNCHANGED pendulum_direction

AngleNext == \E moved_to \in -PendulumTravel..PendulumTravel : SampleAngle(moved_to)

AngleSpec == AngleInit /\ [][AngleNext]_angleVars
---------------------------------------------------------------------------
(* The measured angle is the true one to half a count, wherever the three  *)
(* seams lie and whichever way round the sensor is mounted; and as long as *)
(* the pendulum moves less than half a turn between samples, the rates of  *)
(* any number of samples add up to its true movement: rounding does not    *)
(* accumulate and no turn is lost or invented at a seam.                   *)
PendulumFollows ==
  /\ previous_theta # NoAngle =>
       2 * Absolute(Error(previous_theta, pendulum)) <= Parts
  /\ primed_at # NoAngle =>
       2 * Absolute(Parts * (primed_at + followed) - pendulum) <= Parts
=============================================================================
