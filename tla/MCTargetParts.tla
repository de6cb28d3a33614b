---------------------------- MODULE MCTargetParts ----------------------------
(* Six small machines of the targets and the simulation, each on a small   *)
(* instance.  They share nothing: which one runs is chosen at the start,   *)
(* and the others rest.                                                    *)
EXTENDS OpportunityClock, QuadratureDecoder, EncoderAccumulator,
        PendulumAngle, ShadowTiming, LocalUi

MCTicks == {0, 1}
MCAcquire == {1}
MCStep == {2, 12, 27}
MCBackground == {0, 6}

VARIABLE machine

mcVars == <<machine, clockVars, quadratureVars, accumulatorVars, angleVars, timingVars,
            uiVars>>

(* A machine that rests rests in one of its initial states.                *)
MCInit ==
  /\ machine \in {"Clock", "Quadrature", "Accumulator", "Angle", "Timing", "Keys"}
  /\ ClockInit /\ QuadratureInit /\ AccumulatorInit /\ AngleInit /\ TimingInit /\ UiInit
  /\ machine # "Quadrature" => shaft = 0
  /\ machine # "Accumulator" => counter = 0
  /\ machine # "Angle" => pendulum_direction = 1
  /\ machine # "Timing" => lost_ticks = 0
  /\ machine # "Keys" => key = "M"

MCNext ==
  /\ UNCHANGED machine
  /\ \/ /\ machine = "Clock" /\ ClockNext
        /\ UNCHANGED <<quadratureVars, accumulatorVars, angleVars, timingVars, uiVars>>
     \/ /\ machine = "Quadrature" /\ QuadratureNext
        /\ UNCHANGED <<clockVars, accumulatorVars, angleVars, timingVars, uiVars>>
     \/ /\ machine = "Accumulator" /\ AccumulatorNext
        /\ UNCHANGED <<clockVars, quadratureVars, angleVars, timingVars, uiVars>>
     \/ /\ machine = "Angle" /\ AngleNext
        /\ UNCHANGED <<clockVars, quadratureVars, accumulatorVars, timingVars, uiVars>>
     \/ /\ machine = "Timing" /\ TimingNext
        /\ UNCHANGED <<clockVars, quadratureVars, accumulatorVars, angleVars, uiVars>>
     \/ /\ machine = "Keys" /\ UiNext
        /\ UNCHANGED <<clockVars, quadratureVars, accumulatorVars, angleVars, timingVars>>

MCSpec == MCInit /\ [][MCNext]_mcVars
---------------------------------------------------------------------------
(* Both sensors are followed: the arm's counter through its wraps, and the *)
(* pendulum's angle through its seams.                                     *)
SensorsFollow == AccumulatorFollows /\ PendulumFollows
=============================================================================
