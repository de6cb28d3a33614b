--------------------------- MODULE ControlRuntime ---------------------------
(***************************************************************************)
(* supervisor/control-runtime: the portable composition of estimator,      *)
(* qualification, admission, run permit, controller, output-safety gate    *)
(* and authority.  One action per public operation; step() is split at its *)
(* early returns.  The observation source, the controller and the actuator *)
(* model are the environment: an observation carries the measurement and   *)
(* the health evidence, and the controller answers with a mapped command   *)
(* or an error.                                                            *)
(***************************************************************************)
EXTENDS CommandSafetyGate

CONSTANTS
  MaxGap,             \* EstimatorConfig::max_gap_us
  RuntimeLimits,      \* the configured operating limits
  Observations,       \* health, age and coordinates a source may deliver
  Times,              \* values of captured_at
  Commands,           \* commands the actuator model may map a demand to
  ProfileChoices,     \* profiles a caller may configure
  AdmissionChoices,   \* near-upright entry bounds a caller may configure
  RequestChoices      \* regimes a caller may request

Coordinate == [Coordinates -> Int]

Observation ==
  [coordinate : Coordinate, finite : BOOLEAN, sensor_valid : BOOLEAN,
   sample_age : Nat, timing : TimingHealth, watchdog : WatchdogHealth]

ASSUME RuntimeAssumption ==
  /\ MaxGap \in Nat \ {0}
  /\ RuntimeLimits.sample_age \in Nat \cup {None}
  /\ \A c \in Coordinates : RuntimeLimits.coordinate[c] \in Int \cup {None}
  /\ Observations \subseteq Observation
  /\ Times \subseteq Nat
  /\ Commands \subseteq Int
  /\ ProfileChoices \subseteq Profiles
  /\ AdmissionChoices \subseteq Nat \ {0}
  /\ RequestChoices \subseteq Regimes

VARIABLES
  previous,            \* estimator: captured_at of the previous measurement
  gate,                \* command_safety
  authority,           \* RuntimeAuthority::mode
  runtime_state,
  admission_limits,    \* entry bound, or None
  closed_loop_request, \* requested regime, or None
  last_admission,      \* reasons of the last admission decision, or None
  last_run_permit,     \* reasons of the last run permit, or None
  last_command_safety, \* reasons of the last gate outcome, or None
  cycle,               \* what the last step() returned
  granted_at           \* history: estimate time at which authority was granted

supervision == <<authority, runtime_state, closed_loop_request, granted_at>>
config == <<admission_limits>>
reports == <<last_admission, last_run_permit>>
vars == <<previous, gate, supervision, config, reports,
          last_command_safety, cycle>>

CycleKinds == {"None", "Primed", "Rejected", "Computed",
               "Source", "Estimator", "Controller", "CommandSafety"}
Failures == {"Source", "Estimator", "Controller", "CommandSafety"}

(* Result of step(): the variant, the estimate's time, the token.          *)
Result(kind, at, token) == [kind |-> kind, at |-> at, authorized |-> token]
WithoutToken(kind) == Result(kind, None, None)

Init ==
  /\ previous = None
  /\ gate = NewGate
  /\ authority = "Disarmed"
  /\ runtime_state = Ready
  /\ admission_limits = None
  /\ closed_loop_request = None
  /\ last_admission = None
  /\ last_run_permit = None
  /\ last_command_safety = None
  /\ cycle = WithoutToken("None")
  /\ granted_at = None
---------------------------------------------------------------------------
(* Caller operations.  A call that returns an error changes nothing, so    *)
(* only the accepting cases are steps.                                     *)
ConfigureAdmissionLimits(limit) ==
  /\ admission_limits' = limit
  /\ UNCHANGED <<previous, gate, supervision, reports, last_command_safety, cycle>>

ConfigureCommandSafety(profile) ==
  /\ runtime_state \in {Ready, Disabled}
  /\ gate' = Configure(gate, profile)
  /\ last_command_safety' = None
  /\ UNCHANGED <<previous, supervision, config, reports, cycle>>

RequestClosedLoop(regime) ==
  /\ runtime_state = Ready
  /\ gate.profile # None
  /\ closed_loop_request' = regime
  /\ UNCHANGED <<previous, gate, authority, runtime_state, granted_at,
                 config, reports, last_command_safety, cycle>>

(* release_closed_loop_authority, with the runtime state it ends in.       *)
ReleaseAuthority(state) ==
  /\ authority' = ReleaseMode(authority)
  /\ gate' = ResetHistory(gate)
  /\ last_command_safety' = None
  /\ runtime_state' = state
  /\ granted_at' = None

(* Mutant: losing authority leaves the request pending.                    *)
ReleaseAfterLoss_KeepsRequest ==
  /\ UNCHANGED closed_loop_request
  /\ ReleaseAuthority(Ready)

ReleaseAfterLoss ==
  /\ closed_loop_request' = None
  /\ ReleaseAuthority(Ready)

Withdrawn(state) ==
  /\ closed_loop_request' = None
  /\ last_admission' = None
  /\ last_run_permit' = None
  /\ ReleaseAuthority(state)
  /\ UNCHANGED <<previous, config, cycle>>

(* Mutant: cancelling releases the mode but forgets the runtime state.     *)
CancelClosedLoop_KeepsState == Withdrawn(runtime_state)

CancelClosedLoop ==
  Withdrawn(IF IsActive(runtime_state) THEN Ready ELSE runtime_state)

Disable == Withdrawn(Disabled)

EnableReady ==
  /\ runtime_state = Disabled
  /\ runtime_state' = Ready
  /\ UNCHANGED <<previous, gate, authority, closed_loop_request, granted_at,
                 config, reports, last_command_safety, cycle>>
---------------------------------------------------------------------------
(* step(), cut short by the source or by the estimator: the error returns  *)
(* before the run permit is looked at, so authority is left as it is.      *)
Aborted(kind) ==
  /\ last_command_safety' = None
  /\ cycle' = WithoutToken(kind)
  /\ UNCHANGED <<previous, gate, supervision, config, reports>>

ObserveFails == Aborted("Source")

(* Timestamps are checked only against a previous measurement.             *)
EstimatorFails(obs, at) ==
  /\ obs.finite => previous # None /\ at <= previous
  /\ Aborted("Estimator")

Primes(at) == previous # None => at - previous > MaxGap

Prime(obs, at) ==
  /\ obs.finite
  /\ previous # None => at > previous
  /\ Primes(at)
  /\ previous' = at
  /\ cycle' = WithoutToken("Primed")
  /\ IF IsActive(runtime_state)
       THEN ReleaseAfterLoss
       ELSE /\ last_command_safety' = None
            /\ UNCHANGED <<gate, supervision>>
  /\ UNCHANGED <<config, reports>>
---------------------------------------------------------------------------
(* step() with a Ready estimate.  Entered* is the state after a possible   *)
(* admission; the run permit is then evaluated on it.                      *)

(* Mutant: a timestamp that does not advance is still differentiated.      *)
EstimateReady_AnyOrder(obs, at) ==
  /\ obs.finite
  /\ previous # None
  /\ ~Primes(at)

EstimateReady(obs, at) ==
  /\ obs.finite
  /\ previous # None
  /\ at > previous
  /\ ~Primes(at)

Qualification(obs) ==
  Qualify(obs, obs.sensor_valid, obs.sample_age, RuntimeLimits)

Evidence(obs) ==
  [timing |-> obs.timing, watchdog |-> obs.watchdog,
   qualified |-> Allowed(Qualification(obs))]

Consulted == runtime_state = Ready /\ closed_loop_request # None

Admission(obs) ==
  Admit(closed_loop_request, obs, runtime_state, authority, Evidence(obs),
        admission_limits)

Admits(obs) == Consulted /\ Allowed(Admission(obs))

EnteredState(obs) ==
  IF Admits(obs) THEN Active(closed_loop_request) ELSE runtime_state

EnteredMode(obs) ==
  IF Admits(obs) THEN EnterMode(authority, "ClosedLoop") ELSE authority

Permit(obs) == RunPermit(EnteredState(obs), EnteredMode(obs), Evidence(obs))

(* The part of every such cycle that precedes the controller.              *)
Estimated(obs, at) ==
  /\ EstimateReady(obs, at)
  /\ previous' = at
  /\ last_admission' = IF Consulted THEN Admission(obs) ELSE None
  /\ last_run_permit' = IF IsActive(EnteredState(obs)) THEN Permit(obs) ELSE None
  /\ UNCHANGED config

(* A cycle that ends without authority: rejected, failed in the            *)
(* controller, or computed in the shadow.  `demand` is None when the       *)
(* controller or the actuator model returns an error.                      *)
ResultWithoutAuthority(obs, at, demand) ==
  IF ~Allowed(Qualification(obs)) THEN WithoutToken("Rejected")
  ELSE IF demand = None THEN WithoutToken("Controller")
  ELSE Result("Computed", at,
              IF Allowed(Evaluate(runtime_state', authority', Evidence(obs)))
                THEN demand ELSE None)

ShadowCycle(obs, at, demand) ==
  /\ Estimated(obs, at)
  /\ ~IsActive(EnteredState(obs))
  /\ last_command_safety' = None
  /\ UNCHANGED <<gate, supervision>>
  /\ cycle' = ResultWithoutAuthority(obs, at, demand)

(* Active, or just admitted, and refused by the run permit.                *)
LossCycle(obs, at, demand) ==
  /\ Estimated(obs, at)
  /\ IsActive(EnteredState(obs))
  /\ ~Allowed(Permit(obs))
  /\ ReleaseAfterLoss
  /\ cycle' = ResultWithoutAuthority(obs, at, demand)

(* Active with a run permit: the demand passes the output-safety gate and  *)
(* becomes a token.                                                        *)
LiveCycle(obs, at, demand) ==
  /\ Estimated(obs, at)
  /\ IsActive(EnteredState(obs))
  /\ Allowed(Permit(obs))
  /\ IF demand # None /\ ConstrainFails(gate, at)
       THEN /\ ReleaseAfterLoss
            /\ cycle' = WithoutToken("CommandSafety")
       ELSE /\ runtime_state' = EnteredState(obs)
            /\ authority' = EnteredMode(obs)
            /\ granted_at' = IF Admits(obs) THEN at ELSE granted_at
            /\ UNCHANGED closed_loop_request
            /\ IF demand = None
                 THEN /\ cycle' = WithoutToken("Controller")
                      /\ last_command_safety' = None
                      /\ UNCHANGED gate
                 ELSE /\ gate' = AfterConstrain(gate, demand, at)
                      /\ last_command_safety' = ConstraintReasons(gate, demand, at)
                      /\ cycle' = Result("Computed", at,
                           IF Allowed(Evaluate(runtime_state', authority',
                                               Evidence(obs)))
                             THEN Constrained(gate, demand, at) ELSE None)

StepOn(obs, at) ==
  \/ EstimatorFails(obs, at)
  \/ Prime(obs, at)
  \/ \E demand \in Commands \cup {None} :
       \/ ShadowCycle(obs, at, demand)
       \/ LossCycle(obs, at, demand)
       \/ LiveCycle(obs, at, demand)

Step == ObserveFails \/ \E obs \in Observations, at \in Times : StepOn(obs, at)

Call ==
  \/ \E limit \in AdmissionChoices : ConfigureAdmissionLimits(limit)
  \/ \E profile \in ProfileChoices : ConfigureCommandSafety(profile)
  \/ \E regime \in RequestChoices : RequestClosedLoop(regime)
  \/ CancelClosedLoop
  \/ Disable
  \/ EnableReady

Next == Step \/ Call

Spec == Init /\ [][Next]_vars
---------------------------------------------------------------------------
(* Every variable stays in the range the Rust types give it.               *)
TypeOK ==
  /\ previous \in Nat \cup {None}
  /\ gate \in Gates
  /\ authority \in AuthorityModes
  /\ runtime_state \in RuntimeStates
  /\ admission_limits \in (Nat \ {0}) \cup {None}
  /\ closed_loop_request \in Regimes \cup {None}
  /\ granted_at \in Nat \cup {None}
  /\ cycle \in [kind : CycleKinds, at : Nat \cup {None},
                authorized : Int \cup {None}]

(* Authority mode, runtime state, request, configuration and gate move     *)
(* together although each is written by a different call: closed-loop      *)
(* authority is held exactly while Active, Active is always backed by the  *)
(* explicit request that bought it, an installed output-safety profile and *)
(* an admission boundary, and nothing survives outside Active.             *)
AuthorityCoherent ==
  /\ authority = IF IsActive(runtime_state) THEN "ClosedLoop" ELSE "Disarmed"
  /\ IsActive(runtime_state) => /\ runtime_state = Active(closed_loop_request)
                                /\ gate.profile # None
                                /\ admission_limits # None
  /\ runtime_state = Disabled => closed_loop_request = None
  /\ closed_loop_request # None => gate.profile # None

(* Slew history exists only while Active (lib.rs 401-413): the next grant  *)
(* of authority always starts from a zero command.                         *)
HistoryOnlyWhileActive ==
  ~IsActive(runtime_state) =>
    gate.last_timestamp = None /\ gate.last_command = 0

(* The gate's clock never runs ahead of the estimator's, so the            *)
(* NonMonotonicTimestamp and Unconfigured errors of the gate cannot occur: *)
(* step() never returns CycleError::CommandSafety.                         *)
GateNeverFails ==
  /\ gate.last_timestamp # None =>
       previous # None /\ gate.last_timestamp <= previous
  /\ cycle.kind # "CommandSafety"

(* However the calls interleave with errors, gaps and re-grants, the       *)
(* command the gate has let through never exceeds what the slew limit      *)
(* allows since authority was granted, nor the profile's magnitude.        *)
CommandIsEarned ==
  gate.last_timestamp # None =>
    /\ granted_at # None /\ granted_at <= gate.last_timestamp
    /\ Magnitude(gate.last_command)
         <= gate.profile.slew * (gate.last_timestamp - granted_at)
    /\ Magnitude(gate.last_command) <= gate.profile.max_abs

(* The grant is dated, and by an estimate the runtime has already seen.    *)
GrantDated ==
  IsActive(runtime_state) =>
    granted_at # None /\ previous # None /\ granted_at <= previous

(* The inductive invariant the proofs rest on.                             *)
IInv ==
  /\ TypeOK
  /\ AuthorityCoherent
  /\ HistoryOnlyWhileActive
  /\ GateNeverFails
  /\ CommandIsEarned
  /\ GrantDated

(* A token is only ever returned by a step that leaves the runtime Active, *)
(* and it is exactly the command the gate remembers.                       *)
TokenIsGated ==
  [][cycle' # cycle /\ cycle'.authorized # None =>
       /\ IsActive(runtime_state')
       /\ cycle'.authorized = gate'.last_command
       /\ cycle'.at = gate'.last_timestamp]_vars

(* The tokens that two consecutive cycles return, the runtime staying      *)
(* Active from the one to the other, differ by at most the slew limit over *)
(* the time between their estimates.  A failed cycle returns no token to   *)
(* compare with: what holds across one is CommandIsEarned.                 *)
SlewBounded ==
  [][/\ IsActive(runtime_state)
     /\ cycle.authorized # None
     /\ cycle'.authorized # None
     /\ cycle' # cycle
     => Magnitude(cycle'.authorized - cycle.authorized)
          <= gate.profile.slew * (cycle'.at - cycle.at)]_vars

(* AuthorityLease seen through the runtime: the phase is a function of the *)
(* runtime state and the request, the token that of the last cycle.        *)
LeasePhase ==
  IF runtime_state = Disabled THEN "Off"
  ELSE IF IsActive(runtime_state) THEN "Live"
  ELSE IF closed_loop_request # None THEN "Pending"
  ELSE "Idle"

Lease == INSTANCE AuthorityLease WITH
  phase <- LeasePhase, regime <- closed_loop_request, token <- cycle.authorized

(* The runtime implements the lease: no silent restart after a loss, no    *)
(* grant without a request, no non-zero first token.                       *)
ImplementsLease == Lease!Spec

(* reset_history is to be called on any transition that returns the        *)
(* physical output to safe-off (supervisor/actuator-safety lib.rs          *)
(* 150-153), and a cycle that hands over no token does return it there: so *)
(* the first token after such a cycle must be zero.                        *)
SafeOffRestartsFromZero ==
  [][/\ cycle' # cycle
     /\ cycle.authorized = None
     /\ cycle'.authorized # None
     => cycle'.authorized = 0]_vars
=============================================================================
