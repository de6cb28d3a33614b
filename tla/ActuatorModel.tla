---------------------------- MODULE ActuatorModel ----------------------------
(***************************************************************************)
(* plant/actuator-model: ArmActuatorModel, which turns the torque that a   *)
(* controller demands into a bounded command and predicts the torque of a  *)
(* command.  The unit of torque is such that FullTorque is what the full   *)
(* command gives; the unit of command is such that one unit above the      *)
(* deadzone gives one unit of torque, so that 1.0 is FullScale.          *)
(***************************************************************************)
EXTENDS Integers

CONSTANTS
  FullTorque,  \* torque_per_effective_command_nm
  Deadzone     \* command_deadzone

(* ArmActuatorParameters::is_valid.                                        *)
ASSUME ActuatorAssumption ==
  /\ FullTorque \in Nat \ {0}
  /\ Deadzone \in Nat

FullScale == Deadzone + FullTorque

(* effective_command, times the torque it gives.                           *)
PredictedTorque(command) ==
  IF command > Deadzone THEN command - Deadzone
  ELSE IF command < -Deadzone THEN command + Deadzone
  ELSE 0

BoundedTorque(demand) ==
  IF demand > FullTorque THEN FullTorque
  ELSE IF demand < -FullTorque THEN -FullTorque
  ELSE demand

(* inverse_effective_command.                                              *)
InverseCommand(torque) ==
  IF torque = 0 THEN 0
  ELSE IF torque > 0 THEN Deadzone + torque
  ELSE torque - Deadzone

CommandForDemand(demand) ==
  LET command == InverseCommand(BoundedTorque(demand))
  IN  [command |-> command,
       saturated |-> demand # BoundedTorque(demand),
       predicted |-> PredictedTorque(command)]
=============================================================================
