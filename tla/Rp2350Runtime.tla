---------------------------- MODULE Rp2350Runtime ----------------------------
(***************************************************************************)
(* rp2350a/src/runtime.cpp: the C++ port of the supervisor.  It has no     *)
(* admission boundary and no operating limits, grants authority without    *)
(* looking at the run permit again, keeps the regime of a request that is  *)
(* gone, and takes any output-safety limits, remembering whether they were *)
(* usable.  One action per public operation; step() is split at its        *)
(* returns.  The gate with unusable limits is the gate without a profile:  *)
(* its limits are never read.                                              *)
(***************************************************************************)
EXTENDS CommandSafetyGate

CONSTANTS
  MaxGap,           \* EstimatorConfig::max_gap_us
  FullCommand,      \* the normalized command 1.0
  Observations,     \* what a cycle may be given
  Times,            \* values of captured_at
  Commands,         \* commands the actuator model may map a demand to
  LimitChoices,     \* limits a caller may configure, unusable ones included
  RequestChoices    \* regimes a caller may request

Observation ==
  [finite : BOOLEAN, sensor_valid : BOOLEAN,
   timing : TimingHealth, watchdog : WatchdogHealth]

ASSUME PortAssumption ==
  /\ MaxGap \in Nat \ {0}
  /\ FullCommand \in Nat \ {0}
  /\ Observations \subseteq Observation
  /\ Times \subseteq Nat
  /\ Commands \subseteq -FullCommand .. FullCommand
  /\ LimitChoices \subseteq [max_abs : Int, slew : Int]
  /\ RequestChoices \subseteq Regimes

VARIABLES
  previous,               \* estimator: captured_at of the previous measurement
  gate,                   \* command_safety_
  authority_mode,
  runtime_state,
  closed_loop_requested,
  requested_regime,
  cycle,                  \* what the last step() returned
  granted_at              \* history: estimate time at which authority was granted

supervision ==
  <<authority_mode, runtime_state, closed_loop_requested, requested_regime, granted_at>>
vars == <<previous, gate, supervision, cycle>>

Result(kind, at, token) == [kind |-> kind, at |-> at, authorized |-> token]
WithoutToken(kind) == Result(kind, None, None)

Init ==
  /\ previous = None
  /\ gate = NewGate
  /\ authority_mode = "Disarmed"
  /\ runtime_state = Ready
  /\ closed_loop_requested = FALSE
  /\ requested_regime = "SwingUp"
  /\ cycle = WithoutToken("None")
  /\ granted_at = None
---------------------------------------------------------------------------
(* Caller operations.                                                      *)
Usable(limits) == limits \in Profiles /\ limits.max_abs <= FullCommand

ConfigureCommandSafety(limits) ==
  /\ authority_mode # "ClosedLoop"
  /\ gate' = Configure(gate, IF Usable(limits) THEN limits ELSE None)
  /\ UNCHANGED <<previous, supervision, cycle>>

RequestClosedLoop(regime) ==
  /\ runtime_state = Ready
  /\ gate.profile # None
  /\ closed_loop_requested' = TRUE
  /\ requested_regime' = regime
  /\ UNCHANGED <<previous, gate, authority_mode, runtime_state, granted_at, cycle>>

(* Mutant: the request outlives the authority it bought.                   *)
Released_KeepsRequest(state) ==
  /\ authority_mode' = "Disarmed"
  /\ runtime_state' = state
  /\ gate' = ResetHistory(gate)
  /\ granted_at' = None
  /\ UNCHANGED <<closed_loop_requested, requested_regime>>

(* Mutant: the next session inherits the gate's history.                   *)
Released_KeepsHistory(state) ==
  /\ closed_loop_requested' = FALSE
  /\ authority_mode' = "Disarmed"
  /\ runtime_state' = state
  /\ granted_at' = None
  /\ UNCHANGED <<gate, requested_regime>>

(* cancel_closed_loop and the loss branch of update_authority, with the    *)
(* runtime state they end in.                                              *)
Released(state) ==
  /\ closed_loop_requested' = FALSE
  /\ authority_mode' = "Disarmed"
  /\ runtime_state' = state
  /\ gate' = ResetHistory(gate)
  /\ granted_at' = None
  /\ UNCHANGED requested_regime

CancelClosedLoop ==
  /\ Released(IF IsActive(runtime_state) THEN Ready ELSE runtime_state)
  /\ UNCHANGED <<previous, cycle>>

Disable == Released(Disabled) /\ UNCHANGED <<previous, cycle>>

EnableReady ==
  /\ runtime_state = Disabled
  /\ runtime_state' = Ready
  /\ UNCHANGED <<previous, gate, authority_mode, closed_loop_requested,
                 requested_regime, granted_at, cycle>>
---------------------------------------------------------------------------
(* step(), when the estimator has no estimate.                             *)
EstimatorFails(obs, at) ==
  /\ obs.finite => previous # None /\ at <= previous
  /\ cycle' = WithoutToken("Error")
  /\ UNCHANGED <<previous, gate, supervision>>

Primes(at) == previous # None => at - previous > MaxGap

Prime(obs, at) ==
  /\ obs.finite
  /\ previous # None => at > previous
  /\ Primes(at)
  /\ previous' = at
  /\ cycle' = WithoutToken("Primed")
  /\ IF IsActive(runtime_state) THEN Released(Ready)
     ELSE UNCHANGED <<gate, supervision>>

(* step() with an estimate.  update_authority grants only from Ready and   *)
(* permits or releases only while Active: never both in one cycle.         *)
EstimateReady(obs, at) ==
  /\ obs.finite
  /\ previous # None
  /\ at > previous
  /\ ~Primes(at)

Evidence(obs) ==
  [timing |-> obs.timing, watchdog |-> obs.watchdog, qualified |-> obs.sensor_valid]

Permitted(obs) == Allowed(RunPermit(runtime_state, authority_mode, Evidence(obs)))

Grants(obs) ==
  /\ runtime_state = Ready
  /\ closed_loop_requested
  /\ gate.profile # None
  /\ authority_mode = "Disarmed"
  /\ Allowed(EvidenceReasons(Evidence(obs)))

(* What a cycle without authority returns; demand is None when the         *)
(* controller or the actuator model fails.                                 *)
Unauthorized(obs, at, demand) ==
  IF ~obs.sensor_valid THEN WithoutToken("Rejected")
  ELSE IF demand = None THEN WithoutToken("Error")
  ELSE Result("Computed", at, None)

ShadowCycle(obs, at, demand) ==
  /\ EstimateReady(obs, at)
  /\ ~IsActive(runtime_state) /\ ~Grants(obs)
  /\ previous' = at
  /\ cycle' = Unauthorized(obs, at, demand)
  /\ UNCHANGED <<gate, supervision>>

LossCycle(obs, at, demand) ==
  /\ EstimateReady(obs, at)
  /\ IsActive(runtime_state) /\ ~Permitted(obs)
  /\ previous' = at
  /\ cycle' = Unauthorized(obs, at, demand)
  /\ Released(Ready)

Authorized(demand, at) == Result("Computed", at, Constrained(gate, demand, at))

(* Granted in this cycle, or permitted to go on.                           *)
LiveCycle(obs, at, demand) ==
  /\ EstimateReady(obs, at)
  /\ IF IsActive(runtime_state) THEN Permitted(obs) ELSE Grants(obs)
  /\ previous' = at
  /\ IF demand # None /\ ConstrainFails(gate, at)
       THEN /\ Released(Ready)
            /\ cycle' = WithoutToken("Error")
       ELSE /\ authority_mode' = "ClosedLoop"
            /\ runtime_state' = Active(requested_regime)
            /\ granted_at' = IF IsActive(runtime_state) THEN granted_at ELSE at
            /\ UNCHANGED <<closed_loop_requested, requested_regime>>
            /\ IF demand = None
                 THEN cycle' = WithoutToken("Error") /\ UNCHANGED gate
                 ELSE /\ gate' = AfterConstrain(gate, demand, at)
                      /\ cycle' = Authorized(demand, at)

Step ==
  \E obs \in Observations, at \in Times :
    \/ EstimatorFails(obs, at)
    \/ Prime(obs, at)
    \/ \E demand \in Commands \cup {None} :
         \/ ShadowCycle(obs, at, demand)
         \/ LossCycle(obs, at, demand)
         \/ LiveCycle(obs, at, demand)

Call ==
  \/ \E limits \in LimitChoices : ConfigureCommandSafety(limits)
  \/ \E regime \in RequestChoices : RequestClosedLoop(regime)
  \/ CancelClosedLoop
  \/ Disable
  \/ EnableReady

Next == Step \/ Call

Spec == Init /\ [][Next]_vars
---------------------------------------------------------------------------
(* Every variable keeps the range of its C++ type; Fault and Maintenance   *)
(* are never entered.                                                      *)
TypeOK ==
  /\ previous \in Nat \cup {None}
  /\ gate \in Gates
  /\ authority_mode \in {"Disarmed", "ClosedLoop"}
  /\ runtime_state \in RuntimeStates
  /\ closed_loop_requested \in BOOLEAN
  /\ requested_regime \in Regimes
  /\ granted_at \in Nat \cup {None}
  /\ cycle \in [kind : {"None", "Primed", "Rejected", "Computed", "Error"},
                at : Nat \cup {None}, authorized : Int \cup {None}]

(* Authority, state, request and gate of the port move together.           *)
PortCoherent ==
  /\ authority_mode = IF IsActive(runtime_state) THEN "ClosedLoop" ELSE "Disarmed"
  /\ IsActive(runtime_state) =>
       /\ runtime_state = Active(requested_regime)
       /\ closed_loop_requested
       /\ gate.profile # None
       /\ granted_at # None /\ previous # None /\ granted_at <= previous
  /\ runtime_state = Disabled => ~closed_loop_requested
  /\ gate.last_timestamp # None =>
       IsActive(runtime_state) /\ gate.last_timestamp <= previous

(* However calls, errors, gaps and grants interleave, the command the port *)
(* lets through is covered by its slew limit since the grant and by its    *)
(* magnitude limit, although limits may be replaced by unusable ones while *)
(* a request is pending (CommandSafetyGate::configure, constrain).         *)
PortCommandIsEarned ==
  gate.last_timestamp # None =>
    /\ granted_at # None /\ granted_at <= gate.last_timestamp
    /\ Magnitude(gate.last_command)
         <= gate.profile.slew * (gate.last_timestamp - granted_at)
    /\ Magnitude(gate.last_command) <= gate.profile.max_abs

IInv == TypeOK /\ PortCoherent /\ PortCommandIsEarned

(* AuthorityLease seen through the port: the remembered regime counts only *)
(* while a request or a session stands behind it.                          *)
LeasePhase ==
  IF runtime_state = Disabled THEN "Off"
  ELSE IF IsActive(runtime_state) THEN "Live"
  ELSE IF closed_loop_requested THEN "Pending"
  ELSE "Idle"

Lease == INSTANCE AuthorityLease WITH
  phase <- LeasePhase,
  regime <- IF closed_loop_requested THEN requested_regime ELSE None,
  token <- cycle.authorized

(* The port makes the promise the production runtime makes: no grant       *)
(* without a request, no silent restart after a loss, a zero first token   *)
(* (rp2350a/README.md: "preserving the production/runtime semantics").     *)
PortImplementsLease == Lease!Spec
=============================================================================
