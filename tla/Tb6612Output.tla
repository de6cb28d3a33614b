---------------------------- MODULE Tb6612Output ----------------------------
(***************************************************************************)
(* firmware/actuators/tb6612: Tb6612Output over the generic PWM/direction  *)
(* backend.  apply_frame is four fallible writes; each is a step of its    *)
(* own because each can fail, return early and leave the bridge half       *)
(* programmed.  The peripherals are the environment: a write that reports  *)
(* an error may or may not have reached the pin.                           *)
(***************************************************************************)
EXTENDS Tb6612Mapper

CONSTANT Commands   \* commands the authorization tokens may carry

ASSUME CommandAssumption == Commands \subseteq BoundedCommands

VARIABLES
  duty, in1, in2,   \* what the PWM and the two direction pins hold
  writing,          \* the write apply_frame is about to make, or "None"
  frame,            \* argument of the call in progress or last made
  result,           \* what the last call returned
  driven            \* history: frame of the last call to reach its last write

pins == <<duty, in1, in2>>
vars == <<pins, writing, frame, result, driven>>

Writes == {"Zero", "In1", "In2", "Duty"}
Results == {"None", "Ok", "Pwm", "In1", "In2"}

(* The level of each pin and the duty in a bridge mode.                    *)
In1Level(f) == f.mode \in {"DrivePositive", "Brake"}
In2Level(f) == f.mode \in {"DriveNegative", "Brake"}
DutyLevel(f) == IF f.mode \in {"Coast", "Brake"} THEN 0 ELSE f.duty

Programmed(f) ==
  duty = DutyLevel(f) /\ in1 = In1Level(f) /\ in2 = In2Level(f)

(* The constructor touches no pin: they hold whatever board start-up left. *)
Init ==
  /\ duty = 0
  /\ in1 \in BOOLEAN
  /\ in2 \in BOOLEAN
  /\ writing = "None"
  /\ frame = SafeOffFrame
  /\ result = "None"
  /\ driven = SafeOffFrame
---------------------------------------------------------------------------
ApplyFrame(f) ==
  /\ writing = "None"
  /\ frame' = f
  /\ writing' = "Zero"
  /\ result' = "None"
  /\ UNCHANGED <<pins, driven>>

(* apply_closed_loop and apply_maintenance map their token's command.      *)
Apply(command) == ApplyFrame(MapCommand(command))
SafeOff == ApplyFrame(SafeOffFrame)

(* A write that succeeds goes on to the next one.                          *)
Continue(next) == writing' = next /\ UNCHANGED <<frame, result>>

(* A write that fails returns at once, whatever the pin now holds.         *)
Return(outcome) ==
  /\ writing' = "None"
  /\ result' = outcome
  /\ UNCHANGED frame

(* Mutant: the first write to the PWM is not made.                         *)
WriteZero_Skipped ==
  /\ writing = "Zero"
  /\ UNCHANGED <<pins, driven>>
  /\ Continue("In1")

WriteZero ==
  /\ writing = "Zero"
  /\ UNCHANGED <<in1, in2, driven>>
  /\ \/ duty' = 0 /\ Continue("In1")
     \/ duty' \in {duty, 0} /\ Return("Pwm")

WriteIn1 ==
  /\ writing = "In1"
  /\ UNCHANGED <<duty, in2, driven>>
  /\ \/ in1' = In1Level(frame) /\ Continue("In2")
     \/ in1' \in {in1, In1Level(frame)} /\ Return("In1")

(* Mutant: an error of the second pin is ignored.                          *)
WriteIn2_Ignored ==
  /\ writing = "In2"
  /\ UNCHANGED <<duty, in1, driven>>
  /\ in2' \in {in2, In2Level(frame)}
  /\ Continue("Duty")

WriteIn2 ==
  /\ writing = "In2"
  /\ UNCHANGED <<duty, in1, driven>>
  /\ \/ in2' = In2Level(frame) /\ Continue("Duty")
     \/ in2' \in {in2, In2Level(frame)} /\ Return("In2")

(* Mutant: an error of the last PWM write is swallowed.                    *)
WriteDuty_Swallowed ==
  /\ writing = "Duty"
  /\ driven' = frame
  /\ UNCHANGED <<in1, in2>>
  /\ duty' \in {duty, DutyLevel(frame)}
  /\ Return("Ok")

WriteDuty ==
  /\ writing = "Duty"
  /\ driven' = frame
  /\ UNCHANGED <<in1, in2>>
  /\ \/ duty' = DutyLevel(frame) /\ Return("Ok")
     \/ duty' \in {duty, DutyLevel(frame)} /\ Return("Pwm")

Next ==
  \/ \E command \in Commands : Apply(command)
  \/ SafeOff
  \/ WriteZero \/ WriteIn1 \/ WriteIn2 \/ WriteDuty

Spec == Init /\ [][Next]_vars
---------------------------------------------------------------------------
TypeOK ==
  /\ duty \in 0..FullDuty
  /\ in1 \in BOOLEAN
  /\ in2 \in BOOLEAN
  /\ writing \in Writes \cup {"None"}
  /\ frame \in Frames
  /\ driven \in Frames
  /\ result \in Results

(* The bridge is powered only in a direction and at a duty that one frame  *)
(* asked for together: a call cut short by an error never leaves the duty  *)
(* of one frame on the direction pins of another, however many calls fail. *)
DrivesWhatWasAsked == duty # 0 => Programmed(driven)

(* A call that returned Ok left exactly its frame on the pins; in          *)
(* particular a safe_off that returned Ok left the bridge coasting.        *)
OkMeansApplied == result = "Ok" => Programmed(frame)

(* Direction pins are never changed while a non-zero PWM request remains   *)
(* applied (lib.rs 126-128).                                               *)
BreakBeforeMake ==
  [][<<in1, in2>>' # <<in1, in2>> => duty = 0 /\ duty' = 0]_vars

(* The inductive invariant the proofs rest on.                             *)
IInv ==
  /\ TypeOK
  /\ writing # "None" => result = "None"
  /\ writing \in {"In1", "In2", "Duty"} => duty = 0
  /\ writing \in {"In2", "Duty"} => in1 = In1Level(frame)
  /\ writing = "Duty" => in2 = In2Level(frame)
  /\ DrivesWhatWasAsked
  /\ OkMeansApplied
=============================================================================
