------------------------------ MODULE RotaryLive ------------------------------
(***************************************************************************)
(* tools/sitl/src/bin/rip_sitl_live.rs: the second driver of RotarySitl.   *)
(* It has no scheduler and no end: each turn of its loop integrates the    *)
(* plant, calls the handlers one after the other at one virtual time,      *)
(* merges what they return and writes one viewer sample.  Duration is the  *)
(* virtual time at which the model lets checked_add fail.                  *)
(***************************************************************************)
EXTENDS Integers, FiniteSets

CONSTANTS Duration, SensorPeriod, RuntimePeriod,
          None, MissedTolerance, LateFactor, Commands,
          FullDuty, PositiveCommandIsPositiveDrive

VARIABLES
  at, last_at,  \* time of this turn, and of the one before
  first,        \* no turn has been completed
  stage,        \* what the turn does next
  plant_at,     \* virtual time up to which the plant has been integrated
  merged,       \* the payloads of this turn: what each part was taken from
  emitted       \* the last sample written, or None

liveVars == <<at, last_at, first, stage, plant_at, merged, emitted>>

VARIABLES
  previous, gate, authority, runtime_state, admission_limits,
  closed_loop_request, last_admission, last_run_permit,
  last_command_safety, cycle, granted_at, last_event, last_kick,
  pending_raw, source, pending_authorized, actuator, aborted

systemVars ==
  <<previous, gate, authority, runtime_state, admission_limits,
    closed_loop_request, last_admission, last_run_permit,
    last_command_safety, cycle, granted_at, last_event, last_kick,
    pending_raw, source, pending_authorized, actuator, aborted>>

Handlers == {"SensorSample", "ObservationDelivery", "ProductionRuntime",
             "ActuationCommit"}

Stages == {"Turn", "ScenarioStart", "Emit"} \cup Handlers

(* The schedule this driver stands for: nothing is ever missed.            *)
Event(time, kind) == [at |-> time, kind |-> kind]

Turns == {time \in 0..Duration : time % RuntimePeriod = 0}

Plan ==
  {Event(0, "ScenarioStart")}
    \cup {Event(time, kind) : time \in Turns, kind \in Handlers}

Begun == ~(first /\ stage = "Turn")

(* What is left of the turn at a stage.                                    *)
Left ==
  [s \in Stages |->
     CASE s = "ScenarioStart" -> Handlers \cup {"ScenarioStart"}
       [] s = "SensorSample" -> Handlers
       [] s = "ObservationDelivery" -> Handlers \ {"SensorSample"}
       [] s = "ProductionRuntime" -> {"ProductionRuntime", "ActuationCommit"}
       [] s = "ActuationCommit" -> {"ActuationCommit"}
       [] s \in {"Emit", "Turn"} -> {}]

Queue == {e \in Plan : e.at > at \/ ~Begun}
Slice == {Event(at, kind) : kind \in Left[stage]}
Done(kind) == Cardinality({e \in Plan \ (Queue \cup Slice) : e.kind = kind})
Slices == IF Begun THEN at \div RuntimePeriod + 1 ELSE 0

Tally ==
  [c \in Handlers \cup {"ScenarioStart", "RuntimeOpportunityMissed",
                        "TimeSlice", "TimeAdvance"} |->
     CASE c = "TimeSlice" -> Slices
       [] c = "TimeAdvance" -> IF Begun THEN Slices - 1 ELSE 0
       [] OTHER -> Done(c)]

Scheduled == INSTANCE RotarySitl WITH
  missed <- {}, queue <- Queue, slice <- Slice, now <- at, tally <- Tally

NothingMerged ==
  [true_at |-> None, estimated_at |-> None, token |-> None, applied |-> None]

LiveInit ==
  /\ at = 0 /\ last_at = 0
  /\ first = TRUE
  /\ stage = "Turn"
  /\ plant_at = 0
  /\ merged = NothingMerged
  /\ emitted = None

Init == LiveInit /\ Scheduled!Init
---------------------------------------------------------------------------
(* The head of the loop; advance_physical_time integrates from the last    *)
(* turn to this one, and a first turn announces the start instead.         *)
BeginTurn ==
  /\ stage = "Turn" /\ ~aborted
  /\ at' = IF first THEN 0 ELSE at + RuntimePeriod
  /\ at' \in Turns
  /\ plant_at' = plant_at + (at' - last_at)
  /\ stage' = IF first THEN "ScenarioStart" ELSE "SensorSample"
  /\ merged' = NothingMerged
  /\ UNCHANGED <<last_at, first, emitted, systemVars>>

(* Mutant: the commit is called before the runtime.                        *)
Following_CommitFirst ==
  [kind \in Handlers \cup {"ScenarioStart"} |->
     CASE kind = "ScenarioStart" -> "SensorSample"
       [] kind = "SensorSample" -> "ObservationDelivery"
       [] kind = "ObservationDelivery" -> "ActuationCommit"
       [] kind = "ActuationCommit" -> "ProductionRuntime"
       [] kind = "ProductionRuntime" -> "Emit"]

Following ==
  [kind \in Handlers \cup {"ScenarioStart"} |->
     CASE kind = "ScenarioStart" -> "SensorSample"
       [] kind = "SensorSample" -> "ObservationDelivery"
       [] kind = "ObservationDelivery" -> "ProductionRuntime"
       [] kind = "ProductionRuntime" -> "ActuationCommit"
       [] kind = "ActuationCommit" -> "Emit"]

(* Every payload carries the true state; the estimate and the demand are   *)
(* there if the cycle computed them, the torque after the commit.          *)
Merge(kind) ==
  [true_at |-> plant_at,
   estimated_at |-> IF kind = "ProductionRuntime" /\ cycle'.kind = "Computed"
                      THEN cycle'.at ELSE merged.estimated_at,
   token |-> IF kind = "ProductionRuntime" THEN cycle'.authorized
             ELSE merged.token,
   applied |-> IF kind \in {"ScenarioStart", "ActuationCommit"} THEN actuator'
               ELSE merged.applied]

Call ==
  /\ stage \in DOMAIN Following /\ ~aborted
  /\ Scheduled!Handle(Event(at, stage))
  /\ merged' = Merge(stage)
  /\ stage' = Following[stage]
  /\ UNCHANGED <<at, last_at, first, plant_at, emitted>>

(* viewer_sample: a turn without a commit would count as no torque.        *)
ViewerSample ==
  [at |-> at, true_at |-> merged.true_at, estimated_at |-> merged.estimated_at,
   token |-> merged.token,
   applied |-> IF merged.applied = None THEN Scheduled!SafeOffFrame ELSE merged.applied]

(* Mutant: the end of a turn forgets to move `previous` on.                *)
Emit_KeepsPrevious ==
  /\ stage = "Emit" /\ ~aborted
  /\ emitted' = ViewerSample
  /\ first' = FALSE
  /\ stage' = "Turn"
  /\ UNCHANGED <<at, last_at, plant_at, merged, systemVars>>

(* The sample is written, and the loop's variables move on.                *)
Emit ==
  /\ stage = "Emit" /\ ~aborted
  /\ emitted' = ViewerSample
  /\ first' = FALSE
  /\ last_at' = at
  /\ stage' = "Turn"
  /\ UNCHANGED <<at, plant_at, merged, systemVars>>

Next == BeginTurn \/ Call \/ Emit

Spec == Init /\ [][Next]_<<liveVars, systemVars>>
---------------------------------------------------------------------------
(* Everything in a sample is of its own instant: the plant as integrated   *)
(* to the sample's time, an estimate of that time or none, and the torque  *)
(* that the bridge applies for the very cycle the sample reports           *)
(* (rip_sitl_live.rs 102-114: one map per turn).                           *)
SampleIsOneInstant ==
  emitted # None =>
    /\ emitted.true_at = emitted.at
    /\ emitted.estimated_at \in {None, emitted.at}
    /\ emitted.applied = IF emitted.token = None THEN Scheduled!SafeOffFrame
                         ELSE Scheduled!MapCommand(emitted.token)

(* The live driver implements the scheduled one: whatever it does is a run *)
(* of the scheduler on the scenario that misses nothing.                   *)
LiveImplementsScheduler == Scheduled!Spec
=============================================================================
