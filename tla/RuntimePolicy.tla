--------------------------- MODULE RuntimePolicy ---------------------------
(***************************************************************************)
(* The pure decisions of supervisor/runtime-state: sample qualification,   *)
(* closed-loop admission, the continuous run permit, the evaluation of     *)
(* physical-output authority, and the timing monitor and control watchdog  *)
(* whose verdicts they consume.  The reason bitmasks of the code are sets  *)
(* of reason names: a decision is "allowed" when its set is empty.         *)
(***************************************************************************)
EXTENDS Integers

CONSTANT None      \* Rust's Option::None

Regimes == {"SwingUp", "Capture", "Balance"}
TimingHealth == {"Startup", "Healthy", "Late", "Timeout"}
WatchdogHealth == {"Disarmed", "Healthy", "Expired"}
ASSUME NoneAssumption == None \notin Int /\ None # {} /\ None \notin Regimes

AuthorityModes == {"Disarmed", "ClosedLoop", "Maintenance", "Fault"}
Coordinates == {"theta", "phi", "theta_dot", "phi_dot"}

(* The operating state; Active carries the regime that was requested.     *)
Disabled == [mode |-> "Disabled", regime |-> None]
Ready == [mode |-> "Ready", regime |-> None]
Active(regime) == [mode |-> "Active", regime |-> regime]
IsActive(state) == state.mode = "Active"
RuntimeStates == {Disabled, Ready} \cup {Active(r) : r \in Regimes}

Magnitude(x) == IF x < 0 THEN -x ELSE x
SaturatingSub(a, b) == IF a > b THEN a - b ELSE 0
Flag(raised, reason) == IF raised THEN {reason} ELSE {}
Allowed(reasons) == reasons = {}
---------------------------------------------------------------------------
(* Sample qualification.  limits.coordinate holds one optional bound per   *)
(* coordinate, limits.sample_age the optional age bound.                   *)
LimitsValid(limits) ==
  \A c \in Coordinates :
    limits.coordinate[c] = None \/ limits.coordinate[c] > 0

Exceeds(value, limit) == limit # None /\ Magnitude(value) > limit

Qualify(estimate, sensor_valid, sample_age, limits) ==
  Flag(~LimitsValid(limits), "LIMIT_CONFIG")
    \cup Flag(~sensor_valid, "SENSOR_INVALID")
    \cup Flag(limits.sample_age # None /\ sample_age > limits.sample_age,
              "SAMPLE_TIMEOUT")
    \cup {c \in Coordinates :
            Exceeds(estimate.coordinate[c], limits.coordinate[c])}
---------------------------------------------------------------------------
(* The three decisions about authority.  `evidence` is what one            *)
(* observation contributes: the timing and watchdog verdicts and whether   *)
(* the sample qualified.  BasicEstimator marks every estimate it returns   *)
(* Valid and finite, so the ESTIMATE_INVALID reason is never raised.       *)
EvidenceReasons(evidence) ==
  Flag(evidence.timing # "Healthy", "SENSOR_TIMING")
    \cup Flag(evidence.watchdog # "Healthy", "WATCHDOG")
    \cup Flag(~evidence.qualified, "RUNTIME_QUALIFICATION")

NearUpright(regime) == regime \in {"Capture", "Balance"}

LimitUsable(limit) == limit # None /\ limit > 0

Admit(regime, estimate, state, mode, evidence, limit) ==
  EvidenceReasons(evidence)
    \cup Flag(~LimitUsable(limit), "LIMIT_CONFIG")
    \cup Flag(state # Ready, "RUNTIME_STATE")
    \cup Flag(mode # "Disarmed", "AUTHORITY_BUSY")
    \cup Flag(/\ NearUpright(regime)
              /\ LimitUsable(limit)
              /\ Magnitude(estimate.coordinate["theta"]) > limit,
              "ENTRY_THETA")

RunPermit(state, mode, evidence) ==
  EvidenceReasons(evidence)
    \cup Flag(~IsActive(state), "RUNTIME_STATE")
    \cup Flag(mode # "ClosedLoop", "AUTHORITY")

(* RuntimeAuthority::evaluate: a token is produced iff nothing is denied.  *)
(* Actuator saturation only marks the decision and is left out.            *)
Evaluate(state, mode, evidence) ==
  EvidenceReasons(evidence)
    \cup Flag(mode # "ClosedLoop", "MODE")
    \cup Flag(~IsActive(state), "RUNTIME_STATE")

(* RuntimeAuthority::enter and ::release.                                  *)
EnterMode(mode, target) == IF mode = "Disarmed" THEN target ELSE mode
ReleaseMode(mode) == IF mode = "Fault" THEN mode ELSE "Disarmed"
---------------------------------------------------------------------------
(* SensorTimingMonitor: limits.late and limits.timeout partition the time  *)
(* between two delivered events.                                           *)
ClassifyElapsed(limits, elapsed) ==
  IF elapsed >= limits.timeout THEN "Timeout"
  ELSE IF elapsed >= limits.late THEN "Late"
  ELSE "Healthy"

OnEvent(limits, last_event, at) ==
  IF last_event = None THEN "Startup"
  ELSE ClassifyElapsed(limits, SaturatingSub(at, last_event))

(* ControlWatchdog::health.                                                *)
WatchdogVerdict(timeout, last_kick, now) ==
  IF last_kick = None THEN "Disarmed"
  ELSE IF SaturatingSub(now, last_kick) <= timeout THEN "Healthy"
  ELSE "Expired"
=============================================================================
