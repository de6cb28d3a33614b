-------------------------- MODULE EncoderAccumulator --------------------------
(***************************************************************************)
(* firmware/sensors/arm-encoder: EncoderCounterAccumulator extends the     *)
(* STM32 timer's wrapping counter to a signed count.  The timer follows    *)
(* the arm by itself; the main loop samples it, however late it runs and   *)
(* however far the arm has moved since.                                    *)
(***************************************************************************)
EXTENDS Integers

CONSTANTS
  CounterModulus,   \* 2^16
  CountLimit,       \* i32::MAX
  ArmTravel         \* bound on the arm's distance from where it started

ASSUME CounterAssumption ==
  /\ CounterModulus \in Nat \ {0} /\ CounterModulus % 2 = 0
  /\ {CountLimit, ArmTravel} \subseteq Nat

VARIABLES
  arm,                \* true position since start, in counts
  counter,            \* the timer's counter
  previous_counter, accumulated_count,
  moved,              \* history: counts moved since the last sample
  outrun              \* history: moved too far between samples, or saturated

accumulatorVars ==
  <<arm, counter, previous_counter, accumulated_count, moved, outrun>>

Counters == 0..CounterModulus - 1

AccumulatorInit ==
  /\ arm = 0
  /\ counter \in Counters
  /\ previous_counter = counter
  /\ accumulated_count = 0
  /\ moved = 0
  /\ outrun = FALSE

(* The timer counts every edge, modulo its width.                          *)
Move(direction) ==
  /\ arm + direction \in -ArmTravel..ArmTravel
  /\ arm' = arm + direction
  /\ counter' = (counter + direction) % CounterModulus
  /\ moved' = moved + direction
  /\ UNCHANGED <<previous_counter, accumulated_count, outrun>>

(* counter.wrapping_sub(previous) as i16.                                  *)
(* Mutant: half the range counts as a step forward.                        *)
SignedDelta_HalfForward(now, before) ==
  LET difference == (now - before) % CounterModulus
  IN  IF 2 * difference <= CounterModulus THEN difference
      ELSE difference - CounterModulus

SignedDelta(now, before) ==
  LET difference == (now - before) % CounterModulus
  IN  IF 2 * difference < CounterModulus THEN difference
      ELSE difference - CounterModulus

(* i32::saturating_add.                                                    *)
Saturated(count) ==
  IF count > CountLimit THEN CountLimit
  ELSE IF count < -CountLimit - 1 THEN -CountLimit - 1
  ELSE count

Sample ==
  LET sum == accumulated_count + SignedDelta(counter, previous_counter)
  IN  /\ accumulated_count' = Saturated(sum)
      /\ previous_counter' = counter
      /\ outrun' = (outrun \/ sum # Saturated(sum)
                      \/ 2 * moved >= CounterModulus \/ 2 * moved < -CounterModulus)
      /\ moved' = 0
      /\ UNCHANGED <<arm, counter>>

AccumulatorNext == Sample \/ \E direction \in {-1, 1} : Move(direction)

AccumulatorSpec == AccumulatorInit /\ [][AccumulatorNext]_accumulatorVars
---------------------------------------------------------------------------
(* Across any number of counter wraps in both directions, the count and    *)
(* the movement not yet sampled add up to where the arm is, as long as it  *)
(* never moves half the counter's range between two samples and never      *)
(* leaves the range of the count.                                          *)
AccumulatorFollows == ~outrun => accumulated_count + moved = arm
=============================================================================
