---------------------------- MODULE Tb6612Mapper ----------------------------
(***************************************************************************)
(* firmware/actuators/tb6612: the electrical frames of one TB6612 channel  *)
(* and the mapping from a bounded command to a frame.  A duty fraction is  *)
(* an integer count out of FullDuty.                                       *)
(***************************************************************************)
EXTENDS Integers

CONSTANTS
  FullDuty,                       \* the duty that stands for 1.0
  PositiveCommandIsPositiveDrive  \* Tb6612Mapper's wiring flag

ASSUME MapperAssumption ==
  /\ FullDuty \in Nat \ {0}
  /\ PositiveCommandIsPositiveDrive \in BOOLEAN

BridgeModes == {"Coast", "DrivePositive", "DriveNegative", "Brake"}

Frame(mode, duty) == [duty |-> duty, mode |-> mode]
Frames == [duty : 0..FullDuty, mode : BridgeModes]

SafeOffFrame == Frame("Coast", 0)

BoundedCommands == -FullDuty..FullDuty

MapCommand(command) ==
  IF command = 0 THEN SafeOffFrame
  ELSE Frame(IF (command > 0) = PositiveCommandIsPositiveDrive
               THEN "DrivePositive" ELSE "DriveNegative",
             IF command > 0 THEN command ELSE -command)
=============================================================================
