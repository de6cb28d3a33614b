-------------------------- MODULE MCControlRuntime --------------------------
(* ControlRuntime on a small instance: three arm positions, one defect of  *)
(* each kind an observation can carry, and a clock of a few units.         *)
EXTENDS ControlRuntime, ActuatorModel

At(theta) == [c \in Coordinates |-> IF c = "theta" THEN theta ELSE 0]

MCLimits == [sample_age |-> 1, coordinate |->
               [c \in Coordinates |-> IF c = "theta" THEN 4 ELSE None]]

Nominal(theta) ==
  [coordinate |-> At(theta), finite |-> TRUE, sensor_valid |-> TRUE,
   sample_age |-> 0, timing |-> "Healthy", watchdog |-> "Healthy"]

(* upright, hanging outside the entry bound, outside the operating limits, *)
(* then one observation per defect.                                        *)
MCObservations ==
  {Nominal(0), Nominal(-3), Nominal(5),
   [Nominal(0) EXCEPT !.finite = FALSE],
   [Nominal(0) EXCEPT !.sensor_valid = FALSE],
   [Nominal(0) EXCEPT !.sample_age = 2],
   [Nominal(0) EXCEPT !.timing = "Late"],
   [Nominal(0) EXCEPT !.watchdog = "Expired"],
   [Nominal(0) EXCEPT !.timing = "Startup", !.watchdog = "Disarmed"]}

MCTimes == 1..5
MCCommands == {CommandForDemand(demand).command : demand \in {-4, 0, 1, 2}}
MCProfiles == {[max_abs |-> 2, slew |-> 1], [max_abs |-> 1, slew |-> 2]}
MCAdmission == {2}
MCRequests == {"SwingUp", "Balance"}
=============================================================================
