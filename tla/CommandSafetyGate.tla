------------------------- MODULE CommandSafetyGate -------------------------
(***************************************************************************)
(* supervisor/actuator-safety: the output-safety gate between the          *)
(* controller and the closed-loop token.  It clamps a command to the       *)
(* profile's magnitude and to a slew rate, counted from zero at the first  *)
(* command after configure or reset_history.                               *)
(* Commands are integers; a slew rate is in command units per time unit.   *)
(***************************************************************************)
EXTENDS RuntimePolicy

Profiles == [max_abs : Nat \ {0}, slew : Nat \ {0}]

ASSUME ProfileAssumption == None \notin Profiles

Gates == [profile : Profiles \cup {None},
          last_command : Int,
          last_timestamp : Nat \cup {None}]

Clamp(x, lo, hi) == IF x < lo THEN lo ELSE IF x > hi THEN hi ELSE x

Gate(profile, command, timestamp) ==
  [last_command |-> command, last_timestamp |-> timestamp, profile |-> profile]

NewGate == Gate(None, 0, None)

ResetHistory(gate) == Gate(gate.profile, 0, None)

Configure(gate, profile) ==
  ResetHistory(Gate(profile, gate.last_command, gate.last_timestamp))

(* The two errors of constrain: no profile, or time running backwards.     *)
ConstrainFails(gate, at) ==
  \/ gate.profile = None
  \/ gate.last_timestamp # None /\ at < gate.last_timestamp

BoundedMagnitude(gate, requested) ==
  Clamp(requested, -gate.profile.max_abs, gate.profile.max_abs)

(* Mutant: the allowance grows with absolute time.                         *)
SlewAllowance_Absolute(gate, at) == gate.profile.slew * at

SlewAllowance(gate, at) == gate.profile.slew * (at - gate.last_timestamp)

(* Mutant: the first command after a reset passes at full magnitude.       *)
Constrained_FirstFree(gate, requested, at) ==
  IF gate.last_timestamp = None THEN BoundedMagnitude(gate, requested)
  ELSE Clamp(BoundedMagnitude(gate, requested),
             gate.last_command - SlewAllowance(gate, at),
             gate.last_command + SlewAllowance(gate, at))

Constrained(gate, requested, at) ==
  IF gate.last_timestamp = None THEN 0
  ELSE Clamp(BoundedMagnitude(gate, requested),
             gate.last_command - SlewAllowance(gate, at),
             gate.last_command + SlewAllowance(gate, at))

ConstraintReasons(gate, requested, at) ==
  Flag(BoundedMagnitude(gate, requested) # requested, "MAGNITUDE")
    \cup Flag(Constrained(gate, requested, at)
                # BoundedMagnitude(gate, requested), "SLEW")

AfterConstrain(gate, requested, at) ==
  Gate(gate.profile, Constrained(gate, requested, at), at)
=============================================================================
