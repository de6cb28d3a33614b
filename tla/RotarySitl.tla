----------------------------- MODULE RotarySitl -----------------------------
(***************************************************************************)
(* tools/sitl/src/rotary.rs: the whole closed loop under the virtual-time  *)
(* scheduler.  Sensor samples, deliveries, production-runtime cycles and   *)
(* actuation commits of SitlScheduler drive the production ControlRuntime, *)
(* the timing monitor, the control watchdog and the TB6612 mapping; a      *)
(* scenario may drop any runtime opportunities.  The plant is the          *)
(* environment: it only decides what the controller asks for.              *)
(***************************************************************************)
EXTENDS SitlScheduler, Tb6612Mapper

CONSTANTS
  None,
  MissedTolerance,  \* the factor 20 of rotary.rs 361 and 396
  LateFactor,       \* the factor 5 of rotary.rs 393
  Commands          \* commands the actuator model may map a demand to

ASSUME SitlAssumption ==
  /\ SensorPeriod = RuntimePeriod
  /\ MissedTolerance \in Nat
  /\ LateFactor \in 2..MissedTolerance
  /\ Commands \subseteq BoundedCommands

MaxGap == RuntimePeriod * MissedTolerance
WatchdogTimeout == SensorPeriod * MissedTolerance
TimingLimits ==
  [late |-> SensorPeriod * LateFactor, timeout |-> SensorPeriod * MissedTolerance]

VARIABLES
  previous, gate, authority, runtime_state, admission_limits,
  closed_loop_request, last_admission, last_run_permit,
  last_command_safety, cycle, granted_at,
  last_event,         \* SensorTimingMonitor::last_event_at_us
  last_kick,          \* ControlWatchdog::last_kick_us
  pending_raw,        \* capture time of the sample awaiting delivery, or None
  source,             \* observation awaiting the runtime, or None
  pending_authorized, \* command of the token awaiting its commit, or None
  actuator,           \* the frame the virtual TB6612 holds
  aborted             \* a handler returned an error: the run is over

(* RuntimeLimits::observe_only() bounds nothing.                           *)
ObserveOnly ==
  [sample_age |-> None,
   coordinate |-> [c \in {"theta", "phi", "theta_dot", "phi_dot"} |-> None]]

Runtime == INSTANCE ControlRuntime WITH
  RuntimeLimits <- ObserveOnly, Observations <- {}, Times <- {},
  ProfileChoices <- {}, AdmissionChoices <- {}, RequestChoices <- {}

runtimeVars ==
  <<previous, gate, authority, runtime_state, admission_limits,
    closed_loop_request, last_admission, last_run_permit,
    last_command_safety, cycle, granted_at>>
monitorVars == <<last_event, last_kick>>
handoverVars == <<pending_raw, source, pending_authorized>>
vars == <<schedulerVars, runtimeVars, monitorVars, handoverVars,
          actuator, aborted>>

(* The simulation profile: full magnitude, and a slew limit of 2.0 per     *)
(* period, which lets one cycle reverse the command.                       *)
SimulationProfile == [max_abs |-> FullDuty, slew |-> 2 * FullDuty]

(* RotarySitlSystem::new: configure, then request swing-up, before the     *)
(* first event.  The entry bound does not concern a swing-up request.      *)
SystemInit ==
  /\ previous = None
  /\ gate = Runtime!Configure(Runtime!NewGate, SimulationProfile)
  /\ authority = "Disarmed"
  /\ runtime_state = Runtime!Ready
  /\ admission_limits = 1
  /\ closed_loop_request = "SwingUp"
  /\ last_admission = None
  /\ last_run_permit = None
  /\ last_command_safety = None
  /\ cycle = Runtime!WithoutToken("None")
  /\ granted_at = None
  /\ last_event = None
  /\ last_kick = None
  /\ pending_raw = None
  /\ source = None
  /\ pending_authorized = None
  /\ actuator = SafeOffFrame
  /\ aborted = FALSE

Init == SchedulerInit /\ SystemInit
---------------------------------------------------------------------------
(* on_event, one handler per kind of event.                                *)
Idle(kind) ==
  /\ kind \in {"ScenarioStart", "RuntimeOpportunityMissed"}
  /\ UNCHANGED <<runtimeVars, monitorVars, handoverVars, actuator, aborted>>

SensorSample(at) ==
  /\ pending_raw' = at
  /\ UNCHANGED <<runtimeVars, monitorVars, source, pending_authorized,
                 actuator, aborted>>

(* A healthy synthetic measurement with the verdicts of the two monitors.  *)
Delivered(captured_at, timing, watchdog) ==
  [coordinate |-> [c \in Runtime!Coordinates |-> 0], finite |-> TRUE,
   sensor_valid |-> TRUE, sample_age |-> 0,
   timing |-> timing, watchdog |-> watchdog, captured_at |-> captured_at]

ObservationDelivery(at) ==
  /\ pending_raw' = None
  /\ IF pending_raw = None
       THEN /\ aborted' = TRUE
            /\ UNCHANGED <<last_event, source>>
       ELSE /\ source' = Delivered(pending_raw,
                           Runtime!OnEvent(TimingLimits, last_event, at),
                           Runtime!WatchdogVerdict(WatchdogTimeout, last_kick, at))
            /\ last_event' = at
            /\ UNCHANGED aborted
  /\ UNCHANGED <<runtimeVars, last_kick, pending_authorized, actuator>>

(* None is no time, profile, regime, frame or observation.                 *)
ASSUME AbsentAssumption ==
  /\ None \notin Int
  /\ None \notin Frames
  /\ None \notin Runtime!Profiles
  /\ None \notin Runtime!Regimes
  /\ None \notin {Delivered(at, timing, watchdog) :
                    at \in 0..Duration, timing \in Runtime!TimingHealth,
                    watchdog \in Runtime!WatchdogHealth}

RuntimeStep ==
  IF source = None THEN Runtime!ObserveFails
  ELSE Runtime!StepOn(source, source.captured_at)

(* Mutant: the watchdog is kicked only by a computed cycle.                *)
ProductionRuntime_KickComputed(at) ==
  /\ RuntimeStep
  /\ source' = None
  /\ pending_authorized' = cycle'.authorized
  /\ aborted' = (cycle'.kind \in Runtime!Failures)
  /\ last_kick' = IF cycle'.kind = "Computed" THEN at ELSE last_kick
  /\ UNCHANGED <<last_event, pending_raw, actuator>>

ProductionRuntime(at) ==
  /\ RuntimeStep
  /\ source' = None
  /\ pending_authorized' = cycle'.authorized
  /\ aborted' = (cycle'.kind \in Runtime!Failures)
  /\ last_kick' = IF aborted' THEN last_kick ELSE at
  /\ UNCHANGED <<last_event, pending_raw, actuator>>

(* Mutant: a commit without a token leaves the frame alone.                *)
ActuationCommit_HoldFrame ==
  /\ actuator' = IF pending_authorized = None THEN actuator
                 ELSE MapCommand(pending_authorized)
  /\ pending_authorized' = None
  /\ UNCHANGED <<runtimeVars, monitorVars, pending_raw, source, aborted>>

ActuationCommit ==
  /\ actuator' = IF pending_authorized = None THEN SafeOffFrame
                 ELSE MapCommand(pending_authorized)
  /\ pending_authorized' = None
  /\ UNCHANGED <<runtimeVars, monitorVars, pending_raw, source, aborted>>

Handle(e) ==
  \/ Idle(e.kind)
  \/ e.kind = "SensorSample" /\ SensorSample(e.at)
  \/ e.kind = "ObservationDelivery" /\ ObservationDelivery(e.at)
  \/ e.kind = "ProductionRuntime" /\ ProductionRuntime(e.at)
  \/ e.kind = "ActuationCommit" /\ ActuationCommit

(* advance_physical_time integrates the plant and touches nothing else.    *)
Advance ==
  /\ ~aborted
  /\ NextSlice
  /\ UNCHANGED <<runtimeVars, monitorVars, handoverVars, actuator, aborted>>

Dispatch == ~aborted /\ \E e \in slice : Process(e) /\ Handle(e)

Next == Advance \/ Dispatch

Spec == Init /\ [][Next]_vars

(* execute_with_system is a loop that runs until the heap is empty.        *)
FairSpec == Spec /\ WF_vars(Next)
---------------------------------------------------------------------------
TypeOK ==
  /\ SchedulerTypeOK
  /\ Runtime!TypeOK
  /\ last_event \in 0..Duration \cup {None}
  /\ last_kick \in 0..Duration \cup {None}
  /\ pending_raw \in 0..Duration \cup {None}
  /\ source = None \/ source.captured_at \in 0..Duration
  /\ pending_authorized \in BoundedCommands \cup {None}
  /\ actuator \in Frames
  /\ aborted \in BOOLEAN

(* However many opportunities are dropped, a runtime cycle only ever sees  *)
(* an observation captured at its own virtual time, although a dropped     *)
(* opportunity leaves its observation unconsumed in the source; the only   *)
(* error that can end a run is one of the controller or actuator model.    *)
OnlyFreshObservations ==
  /\ cycle.kind = "Computed" => cycle.at = previous /\ cycle.at = last_kick
  /\ aborted => cycle.kind = "Controller"

(* Between time slices the motor carries exactly the command of the last   *)
(* runtime cycle that ran: no token is lost, applied twice or applied      *)
(* late, and a cycle without a token always ends in safe-off.              *)
MotorFollowsCycle ==
  slice = {} /\ ~aborted =>
    actuator = IF cycle.authorized = None THEN SafeOffFrame
               ELSE MapCommand(cycle.authorized)

(* The opportunities that have run so far, and what the estimator, the     *)
(* timing monitor, the watchdog, admission and the run permit must make of *)
(* them together: authority is granted at the first pair closer than the   *)
(* gap limit, and lost for good at the first wider pair after that.        *)
Ran == {e.at : e \in {e \in Processed : e.kind = "ProductionRuntime"}}

Pairs == {p \in Ran \X Ran :
            p[1] < p[2] /\ ~\E t \in Ran : p[1] < t /\ t < p[2]}
Close == {p \in Pairs : p[2] - p[1] <= MaxGap}
Wide == Pairs \ Close

Lost == \E p \in Close, q \in Wide : p[2] <= q[1]

AuthorityFollowsMisses ==
  ~aborted =>
    /\ (closed_loop_request = None) = Lost
    /\ Runtime!IsActive(runtime_state) = (Close # {} /\ ~Lost)

(* A run that loses authority reaches safe-off and never drives again.     *)
LossReachesMotor ==
  closed_loop_request = None ~> [](actuator = SafeOffFrame)
=============================================================================
