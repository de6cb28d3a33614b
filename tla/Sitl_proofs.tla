------------------------------ MODULE Sitl_proofs ----------------------------
(***************************************************************************)
(* The simulation, for every duration, period, tolerance, set of commands  *)
(* and set of dropped opportunities: the scheduled rotary system consumes  *)
(* fresh observations only, its motor follows its cycles, its authority    *)
(* follows the misses; and the live driver implements the scheduled one.   *)
(***************************************************************************)
EXTENDS MCSitl, SitlScheduler_proofs, TLAPS

---------------------------------------------------------------------------
(* One runtime step on a fresh observation.                                *)

(* The gate is configured, and its clock is never ahead of the estimator.  *)
GateInv ==
  /\ previous \in Nat \cup {None}
  /\ gate.profile = SimulationProfile
  /\ gate.last_timestamp \in Nat \cup {None}
  /\ gate.last_timestamp # None => previous # None /\ gate.last_timestamp <= previous

Outcomes == {"Primed", "Rejected", "Computed", "Controller"}

(* The widest gap is a time, and the watchdog's.                           *)
LEMMA GapIsNat == MaxGap \in Nat /\ MaxGap = WatchdogTimeout
BY SitlAssumption, ScenarioAssumption DEF MaxGap, WatchdogTimeout

(* The simulation always has a command profile.                            *)
LEMMA ProfileIsSome == SimulationProfile # None
BY AbsentAssumption, MapperAssumption DEF SimulationProfile, Runtime!Profiles

(* An observation later than the last one is neither out of order nor      *)
(* refused by the gate: all that can fail is the controller.               *)
LEMMA FreshStep ==
  ASSUME NEW at \in Nat, NEW timing, NEW watchdog, GateInv,
         previous # None => previous < at,
         Runtime!StepOn(Delivered(at, timing, watchdog), at)
  PROVE  /\ GateInv'
         /\ previous' = at
         /\ cycle'.kind \in Outcomes
         /\ cycle'.kind = "Computed" => cycle'.at = at
<1> DEFINE obs == Delivered(at, timing, watchdog)
<1>1. obs.finite
  BY DEF Delivered
<1> HIDE DEF obs
<1>2. at # None /\ at \in Nat \cup {None}
  BY AbsentAssumption
<1>3. ~Runtime!EstimatorFails(obs, at)
  BY <1>1, <1>2 DEF GateInv, Runtime!EstimatorFails
<1>4. ~Runtime!ConstrainFails(gate, at)
  BY <1>2, ProfileIsSome, AbsentAssumption DEF GateInv, Runtime!ConstrainFails
<1>5. CASE Runtime!Prime(obs, at)
  <2>1. /\ previous' = at /\ cycle'.kind = "Primed"
        /\ gate' = gate \/ gate' = Runtime!ResetHistory(gate)
    BY <1>5 DEF Runtime!Prime, Runtime!ReleaseAfterLoss, Runtime!ReleaseAuthority,
      Runtime!WithoutToken, Runtime!Result
  <2> QED
    BY <1>2, <2>1 DEF GateInv, Runtime!ResetHistory, Runtime!Gate, Outcomes
<1>6. ASSUME NEW demand \in Commands \cup {None}, Runtime!ShadowCycle(obs, at, demand)
      PROVE  /\ GateInv' /\ previous' = at /\ cycle'.kind \in Outcomes
             /\ cycle'.kind = "Computed" => cycle'.at = at
  <2>1. /\ previous' = at /\ gate' = gate
        /\ cycle' = Runtime!ResultWithoutAuthority(obs, at, demand)
    BY <1>6 DEF Runtime!ShadowCycle, Runtime!Estimated
  <2> QED
    BY <1>2, <2>1 DEF GateInv, Outcomes, Runtime!ResultWithoutAuthority,
      Runtime!WithoutToken, Runtime!Result
<1>7. ASSUME NEW demand \in Commands \cup {None}, Runtime!LossCycle(obs, at, demand)
      PROVE  /\ GateInv' /\ previous' = at /\ cycle'.kind \in Outcomes
             /\ cycle'.kind = "Computed" => cycle'.at = at
  <2>1. /\ previous' = at /\ gate' = Runtime!ResetHistory(gate)
        /\ cycle' = Runtime!ResultWithoutAuthority(obs, at, demand)
    BY <1>7 DEF Runtime!LossCycle, Runtime!Estimated, Runtime!ReleaseAfterLoss,
      Runtime!ReleaseAuthority
  <2> QED
    BY <1>2, <2>1 DEF GateInv, Outcomes, Runtime!ResultWithoutAuthority,
      Runtime!WithoutToken, Runtime!Result, Runtime!ResetHistory, Runtime!Gate
<1>8. ASSUME NEW demand \in Commands \cup {None}, Runtime!LiveCycle(obs, at, demand)
      PROVE  /\ GateInv' /\ previous' = at /\ cycle'.kind \in Outcomes
             /\ cycle'.kind = "Computed" => cycle'.at = at
  <2>1. /\ previous' = at
        /\ \/ gate' = gate /\ cycle' = Runtime!WithoutToken("Controller")
           \/ /\ gate' = Runtime!AfterConstrain(gate, demand, at)
              /\ \E token : cycle' = Runtime!Result("Computed", at, token)
    BY <1>4, <1>8 DEF Runtime!LiveCycle, Runtime!Estimated
  <2> QED
    BY <1>2, <2>1 DEF GateInv, Outcomes, Runtime!WithoutToken, Runtime!Result,
      Runtime!AfterConstrain, Runtime!Gate
<1> QED
  BY <1>3, <1>5, <1>6, <1>7, <1>8 DEF obs, Runtime!StepOn
---------------------------------------------------------------------------
(* The hand-over between the handlers of one time slice.                   *)
Due(kind) == Event(now, kind) \in slice

(* A sample, an observation and a token each wait only for the next event  *)
(* of their own slice, and the motor has the last token as soon as none    *)
(* waits.                                                                  *)
HandoverInv ==
  /\ Due("ObservationDelivery") /\ ~Due("SensorSample") => pending_raw = now
  /\ Due("ProductionRuntime") /\ ~Due("ObservationDelivery") =>
       \E timing \in Runtime!TimingHealth, watchdog \in Runtime!WatchdogHealth :
         source = Delivered(now, timing, watchdog)

MotorOf(token) == IF token = None THEN SafeOffFrame ELSE MapCommand(token)

MotorInv ==
  IF Due("ActuationCommit") /\ ~Due("ProductionRuntime")
    THEN pending_authorized = cycle.authorized
    ELSE pending_authorized = None /\ actuator = MotorOf(cycle.authorized)

(* The estimator has seen nothing later than now, and nothing of now while *)
(* the runtime is still due.                                               *)
EstimatorInv ==
  /\ GateInv
  /\ ~Started => previous = None
  /\ previous # None => previous <= now
  /\ Due("ProductionRuntime") => previous # now
  /\ last_kick = previous

CycleInv == cycle.kind = "Computed" => cycle.at = previous /\ cycle.at = last_kick

SystemInv ==
  /\ FrontierInv
  /\ CycleInv
  /\ aborted \in BOOLEAN
  /\ aborted => cycle.kind = "Controller"
  /\ ~aborted => HandoverInv /\ MotorInv /\ EstimatorInv

(* What is planned for a time at which the runtime runs, and the order of  *)
(* the phases, as far as the hand-over needs them.                         *)
LEMMA MemberOfEvents ==
  ASSUME NEW at, NEW kind, NEW kinds, NEW times
  PROVE  Event(at, kind) \in Events(kinds, times) <=> at \in times /\ kind \in kinds
<1>1. \A a, k : Event(at, kind) = Event(a, k) <=> at = a /\ kind = k
  BY DEF Event
<1> QED
  BY <1>1 DEF Events

(* Which events a run plans, by kind and time.                             *)
LEMMA MemberOfPlanned ==
  ASSUME NEW at, NEW kind
  PROVE  Event(at, kind) \in Planned <=>
           \/ at = 0 /\ kind = "ScenarioStart"
           \/ at \in Grid(SensorPeriod) /\ kind \in {"SensorSample", "ObservationDelivery"}
           \/ at \in Grid(RuntimePeriod) \cap missed /\ kind = "RuntimeOpportunityMissed"
           \/ /\ at \in Grid(RuntimePeriod) \ missed
              /\ kind \in {"ProductionRuntime", "ActuationCommit"}
<1>1. Event(at, kind) = Event(0, "ScenarioStart") <=> at = 0 /\ kind = "ScenarioStart"
  BY DEF Event
<1> QED
  BY <1>1, MemberOfEvents DEF Planned, Schedule

(* A runtime step is planned with a sample, its delivery and a commit.     *)
LEMMA RuntimeIsFed ==
  ASSUME NEW at, Event(at, "ProductionRuntime") \in Planned
  PROVE  /\ Event(at, "SensorSample") \in Planned
         /\ Event(at, "ObservationDelivery") \in Planned
         /\ Event(at, "ActuationCommit") \in Planned
<1>1. at \in Grid(RuntimePeriod) \ missed
  BY MemberOfPlanned
<1> QED
  BY <1>1, SitlAssumption, MemberOfPlanned

(* A commit is only planned with a runtime step.                           *)
LEMMA CommitFollowsRuntime ==
  ASSUME NEW at, Event(at, "ActuationCommit") \in Planned
  PROVE  Event(at, "ProductionRuntime") \in Planned
BY MemberOfPlanned

(* A delivery is only planned with a sample.                               *)
LEMMA DeliveryFollowsSample ==
  ASSUME NEW at, Event(at, "ObservationDelivery") \in Planned
  PROVE  Event(at, "SensorSample") \in Planned
BY MemberOfPlanned

(* Which events are still due when an event is processed, and after it.    *)
LEMMA DueOrder ==
  ASSUME FrontierInv, NEW e \in slice, Process(e)
  PROVE  /\ e = Event(now, e.kind) /\ e.kind \in EventKinds
         /\ now' = now /\ now \in 0..Duration
         /\ \A kind : Due(kind)' <=> (Due(kind) /\ kind # e.kind)
         /\ \A kind \in EventKinds : Due(kind) => Phase[e.kind] <= Phase[kind]
         /\ e.kind = "ProductionRuntime" => Due("ActuationCommit")
<1>1. /\ slice' = slice \ {e} /\ UNCHANGED <<missed, queue, now>>
      /\ \A other \in slice : Phase[e.kind] <= Phase[other.kind]
  BY DEF Process
<1>2. e \in Planned /\ e.at = now /\ now \in 0..Duration
  BY ProcessFrontier DEF FrontierInv
<1>3. e \in [at : 0..Duration, kind : EventKinds]
  BY <1>2, PlannedIsFinite
<1>4. e = Event(now, e.kind) /\ e.kind \in EventKinds
  BY <1>2, <1>3 DEF Event
<1>5. \A kind : Due(kind)' <=> (Due(kind) /\ kind # e.kind)
  BY <1>1, <1>4 DEF Due, Event
<1>6. \A kind \in EventKinds : Due(kind) => Phase[e.kind] <= Phase[kind]
  BY <1>1 DEF Due, Event
<1>7. ASSUME e.kind = "ProductionRuntime" PROVE Due("ActuationCommit")
  <2>1. Event(now, "ActuationCommit") \in Planned
    BY <1>2, <1>4, <1>7, RuntimeIsFed
  <2>2. Phase[e.kind] < Phase["ActuationCommit"]
    BY <1>7 DEF Phase, EventKinds
  <2> QED
    BY <2>1, <2>2 DEF FrontierInv, Due, Event
<1> QED
  BY <1>1, <1>2, <1>4, <1>5, <1>6, <1>7

(* The system starts in it, with nothing delivered and the motor off.      *)
LEMMA SystemInvInit == Init => SystemInv
<1> SUFFICES ASSUME Init PROVE SystemInv
  OBVIOUS
<1>1. FrontierInv /\ slice = {} /\ ~Started
  BY FrontierInit DEF Init, SchedulerInit, Started, Counters
<1>2. /\ previous = None /\ last_kick = None /\ pending_authorized = None
      /\ actuator = SafeOffFrame /\ aborted = FALSE
      /\ cycle = Runtime!WithoutToken("None")
      /\ gate = Runtime!Configure(Runtime!NewGate, SimulationProfile)
  BY DEF Init, SystemInit
<1>3. /\ cycle.kind = "None" /\ cycle.authorized = None
      /\ gate.profile = SimulationProfile /\ gate.last_timestamp = None
  BY <1>2 DEF Runtime!WithoutToken, Runtime!Result, Runtime!Configure,
    Runtime!ResetHistory, Runtime!Gate
<1>4. HandoverInv /\ MotorInv
  BY <1>1, <1>2, <1>3 DEF HandoverInv, MotorInv, MotorOf, Due
<1>5. EstimatorInv
  BY <1>1, <1>2, <1>3 DEF EstimatorInv, GateInv, Due
<1> QED
  BY <1>1, <1>2, <1>3, <1>4, <1>5 DEF SystemInv, CycleInv

(* Time passes only between slices, when nothing waits to be handed over.  *)
LEMMA AdvanceInv ==
  ASSUME SystemInv, Advance
  PROVE  SystemInv'
<1>1. ~aborted /\ NextSlice /\ FrontierInv
  BY DEF Advance, SystemInv
<1>2. /\ FrontierInv' /\ Started' /\ slice = {} /\ UNCHANGED missed
      /\ slice' = {e \in Planned : e.at = now'} /\ (Started => now < now')
  BY <1>1, NextSliceFrontier
<1>3. UNCHANGED <<runtimeVars, monitorVars, handoverVars, actuator, aborted>>
  BY DEF Advance
<1>4. \A kind : ~Due(kind) /\ (Due(kind)' <=> Event(now', kind) \in Planned)
  BY <1>2 DEF Due, Event
<1>5. now \in 0..Duration /\ now' \in 0..Duration
  BY <1>1, <1>2 DEF FrontierInv
<1>6. HandoverInv'
  <2>1. Due("ObservationDelivery")' => Due("SensorSample")'
    BY <1>4, DeliveryFollowsSample
  <2>2. Due("ProductionRuntime")' => Due("ObservationDelivery")'
    BY <1>4, RuntimeIsFed
  <2> QED
    BY <2>1, <2>2 DEF HandoverInv
<1>7. MotorInv'
  <2>1. Due("ActuationCommit")' => Due("ProductionRuntime")'
    BY <1>4, CommitFollowsRuntime
  <2>2. pending_authorized = None /\ actuator = MotorOf(cycle.authorized)
    BY <1>1, <1>4 DEF SystemInv, MotorInv
  <2> QED
    BY <1>3, <2>1, <2>2 DEF MotorInv, MotorOf, handoverVars, runtimeVars
<1>8. EstimatorInv'
  <2>1. EstimatorInv
    BY <1>1 DEF SystemInv
  <2>2. UNCHANGED <<previous, gate, last_kick>>
    BY <1>3 DEF runtimeVars, monitorVars
  <2>3. previous # None => previous <= now' /\ previous # now'
    BY <1>2, <1>5, <2>1 DEF EstimatorInv, GateInv
  <2>4. previous = None => previous # now'
    BY <1>5, AbsentAssumption
  <2> QED
    BY <1>2, <2>1, <2>2, <2>3, <2>4 DEF EstimatorInv, GateInv
<1>9. CycleInv' /\ aborted' = FALSE
  BY <1>1, <1>3 DEF SystemInv, CycleInv, runtimeVars, monitorVars
<1> QED
  BY <1>2, <1>6, <1>7, <1>8, <1>9 DEF SystemInv

(* Facts every handler starts from.                                        *)
LEMMA HandlerContext ==
  ASSUME SystemInv, ~aborted, NEW e \in slice, Process(e)
  PROVE  /\ FrontierInv' /\ Started /\ Started' /\ UNCHANGED <<missed, now>>
         /\ now \in 0..Duration /\ now \in Nat /\ now # None
         /\ e = Event(now, e.kind) /\ e.at = now /\ e.kind \in EventKinds
         /\ \A kind : Due(kind)' <=> (Due(kind) /\ kind # e.kind)
         /\ \A kind \in EventKinds : Due(kind) => Phase[e.kind] <= Phase[kind]
         /\ Due(e.kind)
         /\ e.kind = "ProductionRuntime" => Due("ActuationCommit")
         /\ HandoverInv /\ MotorInv /\ EstimatorInv /\ CycleInv
<1>1. FrontierInv /\ HandoverInv /\ MotorInv /\ EstimatorInv /\ CycleInv
  BY DEF SystemInv
<1>2. /\ FrontierInv' /\ Started /\ Started' /\ UNCHANGED <<missed, now>>
      /\ e.at = now
  BY <1>1, ProcessFrontier
<1>3. /\ e = Event(now, e.kind) /\ e.kind \in EventKinds /\ now \in 0..Duration
      /\ \A kind : Due(kind)' <=> (Due(kind) /\ kind # e.kind)
      /\ \A kind \in EventKinds : Due(kind) => Phase[e.kind] <= Phase[kind]
      /\ e.kind = "ProductionRuntime" => Due("ActuationCommit")
  BY <1>1, DueOrder
<1>4. Due(e.kind)
  BY <1>3 DEF Due
<1>5. now \in Nat /\ now # None
  BY <1>3, ScenarioAssumption, AbsentAssumption
<1> QED
  BY <1>1, <1>2, <1>3, <1>4, <1>5

(* Events that call no handler.                                            *)
LEMMA IdleInv ==
  ASSUME SystemInv, ~aborted, NEW e \in slice, Process(e), Idle(e.kind)
  PROVE  SystemInv'
<1>1. /\ FrontierInv' /\ Started' /\ UNCHANGED now
      /\ \A kind : Due(kind)' <=> (Due(kind) /\ kind # e.kind)
      /\ HandoverInv /\ MotorInv /\ EstimatorInv /\ CycleInv
  BY HandlerContext
<1>2. /\ e.kind \in {"ScenarioStart", "RuntimeOpportunityMissed"}
      /\ UNCHANGED <<runtimeVars, monitorVars, handoverVars, actuator, aborted>>
  BY DEF Idle
<1>3. \A kind \in {"SensorSample", "ObservationDelivery", "ProductionRuntime",
                   "ActuationCommit"} : Due(kind)' <=> Due(kind)
  BY <1>1, <1>2
<1>4. HandoverInv' /\ MotorInv'
  BY <1>1, <1>2, <1>3 DEF HandoverInv, MotorInv, MotorOf, handoverVars, runtimeVars
<1>5. EstimatorInv' /\ CycleInv'
  BY <1>1, <1>2, <1>3 DEF EstimatorInv, GateInv, CycleInv, monitorVars, runtimeVars
<1> QED
  BY <1>1, <1>2, <1>4, <1>5 DEF SystemInv

(* A sample waits for its delivery.                                        *)
LEMMA SensorSampleInv ==
  ASSUME SystemInv, ~aborted, NEW e \in slice, Process(e),
         e.kind = "SensorSample", SensorSample(e.at)
  PROVE  SystemInv'
<1>1. /\ FrontierInv' /\ Started' /\ UNCHANGED now /\ e.at = now
      /\ \A kind : Due(kind)' <=> (Due(kind) /\ kind # e.kind)
      /\ HandoverInv /\ MotorInv /\ EstimatorInv /\ CycleInv
      /\ \A kind \in EventKinds : Due(kind) => Phase[e.kind] <= Phase[kind]
  BY HandlerContext
<1>2. /\ pending_raw' = now
      /\ UNCHANGED <<runtimeVars, monitorVars, source, pending_authorized,
                     actuator, aborted>>
  BY <1>1 DEF SensorSample
<1>3. \A kind \in {"ObservationDelivery", "ProductionRuntime",
                   "ActuationCommit"} : Due(kind)' <=> Due(kind)
  BY <1>1
<1>4. HandoverInv' /\ MotorInv'
  BY <1>1, <1>2, <1>3 DEF HandoverInv, MotorInv, MotorOf, runtimeVars
<1>5. EstimatorInv' /\ CycleInv'
  BY <1>1, <1>2, <1>3 DEF EstimatorInv, GateInv, CycleInv, monitorVars, runtimeVars
<1> QED
  BY <1>1, <1>2, <1>4, <1>5 DEF SystemInv

(* The verdicts of the two monitors are verdicts.                          *)
LEMMA VerdictTypes ==
  ASSUME NEW limits, NEW timeout, NEW last, NEW at
  PROVE  /\ Runtime!OnEvent(limits, last, at) \in Runtime!TimingHealth
         /\ Runtime!WatchdogVerdict(timeout, last, at) \in Runtime!WatchdogHealth
BY DEF Runtime!OnEvent, Runtime!ClassifyElapsed, Runtime!TimingHealth,
  Runtime!WatchdogVerdict, Runtime!WatchdogHealth

(* A delivery always finds its sample, and waits for the runtime.          *)
LEMMA DeliveryInv ==
  ASSUME SystemInv, ~aborted, NEW e \in slice, Process(e),
         e.kind = "ObservationDelivery", ObservationDelivery(e.at)
  PROVE  SystemInv'
<1>1. /\ FrontierInv' /\ Started' /\ UNCHANGED now /\ e.at = now /\ now # None
      /\ \A kind : Due(kind)' <=> (Due(kind) /\ kind # e.kind)
      /\ HandoverInv /\ MotorInv /\ EstimatorInv /\ CycleInv /\ Due(e.kind)
      /\ \A kind \in EventKinds : Due(kind) => Phase[e.kind] <= Phase[kind]
  BY HandlerContext
<1>2. ~Due("SensorSample")
  BY <1>1 DEF Phase, EventKinds
<1>3. pending_raw = now
  BY <1>1, <1>2 DEF HandoverInv
<1>4. /\ source' = Delivered(now, Runtime!OnEvent(TimingLimits, last_event, now),
                             Runtime!WatchdogVerdict(WatchdogTimeout, last_kick, now))
      /\ UNCHANGED <<aborted, runtimeVars, last_kick, pending_authorized, actuator>>
  BY <1>1, <1>3 DEF ObservationDelivery
<1>5. \A kind \in {"SensorSample", "ProductionRuntime",
                   "ActuationCommit"} : Due(kind)' <=> Due(kind)
  BY <1>1
<1>6. HandoverInv'
  <2>1. ~Due("ObservationDelivery")'
    BY <1>1
  <2>2. source' = Delivered(now', Runtime!OnEvent(TimingLimits, last_event, now),
                            Runtime!WatchdogVerdict(WatchdogTimeout, last_kick, now))
    BY <1>1, <1>4
  <2> QED
    BY <2>1, <2>2, VerdictTypes DEF HandoverInv
<1>7. MotorInv' /\ EstimatorInv' /\ CycleInv'
  BY <1>1, <1>4, <1>5 DEF MotorInv, MotorOf, EstimatorInv, GateInv, CycleInv, runtimeVars
<1> QED
  BY <1>1, <1>4, <1>6, <1>7 DEF SystemInv

(* A cycle consumes the observation of its own time, and its token waits   *)
(* for the commit of the same slice.                                       *)
LEMMA ProductionRuntimeInv ==
  ASSUME SystemInv, ~aborted, NEW e \in slice, Process(e),
         e.kind = "ProductionRuntime", ProductionRuntime(e.at)
  PROVE  SystemInv'
<1>1. /\ FrontierInv' /\ Started' /\ UNCHANGED now /\ e.at = now /\ now # None
      /\ now \in Nat /\ now \in 0..Duration
      /\ \A kind : Due(kind)' <=> (Due(kind) /\ kind # e.kind)
      /\ HandoverInv /\ MotorInv /\ EstimatorInv /\ CycleInv
      /\ Due(e.kind) /\ Due("ActuationCommit")
      /\ \A kind \in EventKinds : Due(kind) => Phase[e.kind] <= Phase[kind]
  BY HandlerContext
<1>2. ~Due("SensorSample") /\ ~Due("ObservationDelivery")
  BY <1>1 DEF Phase, EventKinds
<1>3. PICK timing \in Runtime!TimingHealth, watchdog \in Runtime!WatchdogHealth :
        source = Delivered(now, timing, watchdog)
  BY <1>1, <1>2 DEF HandoverInv
<1>4. source # None /\ source.captured_at = now
  BY <1>1, <1>3, AbsentAssumption DEF Delivered
<1>5. Runtime!StepOn(Delivered(now, timing, watchdog), now)
  BY <1>3, <1>4 DEF ProductionRuntime, RuntimeStep
<1>6. /\ GateInv' /\ previous' = now
      /\ cycle'.kind \in Outcomes
      /\ cycle'.kind = "Computed" => cycle'.at = now
  BY <1>1, <1>5, FreshStep DEF EstimatorInv, GateInv
<1>7. pending_authorized' = cycle'.authorized /\ UNCHANGED actuator
  BY DEF ProductionRuntime
<1>8. /\ aborted' \in BOOLEAN
      /\ aborted' => cycle'.kind = "Controller"
      /\ ~aborted' => last_kick' = now
  <2>1. aborted' = (cycle'.kind \in Runtime!Failures)
    BY DEF ProductionRuntime
  <2>2. last_kick' = IF aborted' THEN last_kick ELSE now
    BY <1>1 DEF ProductionRuntime
  <2>3. aborted' \in BOOLEAN
    BY <2>1
  <2>4. aborted' <=> cycle'.kind \in Runtime!Failures
    BY <2>1, Zenon
  <2>5. cycle'.kind \in Runtime!Failures => cycle'.kind = "Controller"
    BY <1>6 DEF Outcomes, Runtime!Failures
  <2>6. ~aborted' => last_kick' = now
    BY <2>2, Zenon
  <2> QED
    BY <2>3, <2>4, <2>5, <2>6, Zenon
<1>9. CycleInv'
  BY <1>6, <1>7, <1>8 DEF CycleInv
<1>10. ASSUME ~aborted' PROVE HandoverInv' /\ MotorInv' /\ EstimatorInv'
  <2>1. ~Due("SensorSample")' /\ ~Due("ObservationDelivery")'
        /\ ~Due("ProductionRuntime")' /\ Due("ActuationCommit")'
    BY <1>1, <1>2
  <2>2. HandoverInv' /\ MotorInv'
    BY <1>7, <2>1 DEF HandoverInv, MotorInv
  <2>3. EstimatorInv'
    BY <1>1, <1>6, <1>8, <1>10, <2>1 DEF EstimatorInv
  <2> QED
    BY <2>2, <2>3
<1> QED
  BY <1>1, <1>8, <1>9, <1>10 DEF SystemInv

(* The commit hands the token of the slice's cycle to the motor, once.     *)
LEMMA CommitInv ==
  ASSUME SystemInv, ~aborted, NEW e \in slice, Process(e),
         e.kind = "ActuationCommit", ActuationCommit
  PROVE  SystemInv'
<1>1. /\ FrontierInv' /\ Started' /\ UNCHANGED now
      /\ \A kind : Due(kind)' <=> (Due(kind) /\ kind # e.kind)
      /\ HandoverInv /\ MotorInv /\ EstimatorInv /\ CycleInv /\ Due(e.kind)
      /\ \A kind \in EventKinds : Due(kind) => Phase[e.kind] <= Phase[kind]
  BY HandlerContext
<1>2. /\ actuator' = MotorOf(pending_authorized) /\ pending_authorized' = None
      /\ UNCHANGED <<runtimeVars, monitorVars, pending_raw, source, aborted>>
  BY DEF ActuationCommit, MotorOf
<1>3. ~Due("SensorSample") /\ ~Due("ObservationDelivery") /\ ~Due("ProductionRuntime")
  BY <1>1 DEF Phase, EventKinds
<1>4. pending_authorized = cycle.authorized
  BY <1>1, <1>3 DEF MotorInv
<1>5. \A kind : ~Due(kind)' \/ kind \notin {"ActuationCommit", "SensorSample",
        "ObservationDelivery", "ProductionRuntime"}
  BY <1>1, <1>3
<1>6. HandoverInv' /\ MotorInv'
  BY <1>1, <1>2, <1>4, <1>5 DEF HandoverInv, MotorInv, runtimeVars, MotorOf
<1>7. EstimatorInv' /\ CycleInv'
  BY <1>1, <1>2, <1>5 DEF EstimatorInv, GateInv, CycleInv, monitorVars, runtimeVars
<1> QED
  BY <1>1, <1>2, <1>6, <1>7 DEF SystemInv

(* Every event handled and every advance of the clock keeps it.            *)
LEMMA SystemInvNext == SystemInv /\ [Next]_vars => SystemInv'
<1> SUFFICES ASSUME SystemInv, [Next]_vars PROVE SystemInv'
  OBVIOUS
<1>1. CASE Advance
  BY <1>1, AdvanceInv
<1>2. CASE Dispatch
  <2>1. PICK e \in slice : ~aborted /\ Process(e) /\ Handle(e)
    BY <1>2 DEF Dispatch
  <2> QED
    BY <2>1, IdleInv, SensorSampleInv, DeliveryInv, ProductionRuntimeInv, CommitInv
       DEF Handle
<1>3. CASE UNCHANGED vars
  BY <1>3 DEF vars, schedulerVars, runtimeVars, monitorVars, handoverVars, SystemInv,
    FrontierInv, Started, Planned, CycleInv, HandoverInv, MotorInv, MotorOf,
    EstimatorInv, GateInv, Due
<1> QED
  BY <1>1, <1>2, <1>3 DEF Next

(* It is an invariant of the system.                                       *)
LEMMA SystemInvariance == Spec => []SystemInv
BY SystemInvInit, SystemInvNext, PTL DEF Spec

(* However many opportunities are dropped, a runtime cycle only sees the   *)
(* observation of its own virtual time, and only the controller can end a  *)
(* run (production_runtime and observation_delivery of rotary.rs).         *)
THEOREM ObservationsAreFresh == Spec => []OnlyFreshObservations
<1>1. SystemInv => OnlyFreshObservations
  BY DEF SystemInv, CycleInv, OnlyFreshObservations
<1> QED
  BY <1>1, SystemInvariance, PTL

(* Between slices the motor carries the command of the last cycle that     *)
(* ran, or none (actuation_commit).                                        *)
THEOREM MotorFollows == Spec => []MotorFollowsCycle
<1>1. SystemInv => MotorFollowsCycle
  BY DEF SystemInv, MotorInv, MotorOf, Due, MotorFollowsCycle
<1> QED
  BY <1>1, SystemInvariance, PTL
---------------------------------------------------------------------------
(* Authority.  What one runtime step decides, by how long ago the last one *)
(* was.                                                                    *)

(* A measurement after a gap starts the estimator anew.                    *)
LEMMA GapStep ==
  ASSUME NEW at \in Nat, NEW timing, NEW watchdog,
         previous \in Nat \cup {None}, previous # None => at - previous > MaxGap,
         previous # None => previous < at,
         Runtime!StepOn(Delivered(at, timing, watchdog), at)
  PROVE  /\ admission_limits' = admission_limits
         /\ ~Runtime!IsActive(runtime_state) =>
              UNCHANGED <<runtime_state, authority, closed_loop_request>>
         /\ Runtime!IsActive(runtime_state) =>
              /\ runtime_state' = Runtime!Ready
              /\ authority' = Runtime!ReleaseMode(authority)
              /\ closed_loop_request' = None
<1> DEFINE obs == Delivered(at, timing, watchdog)
<1>1. obs.finite
  BY DEF Delivered
<1> HIDE DEF obs
<1>2. ~Runtime!EstimatorFails(obs, at)
  BY <1>1 DEF Runtime!EstimatorFails
<1>3. ~Runtime!EstimateReady(obs, at)
  BY DEF Runtime!EstimateReady, Runtime!Primes
<1>4. \A demand : /\ ~Runtime!ShadowCycle(obs, at, demand)
                  /\ ~Runtime!LossCycle(obs, at, demand)
                  /\ ~Runtime!LiveCycle(obs, at, demand)
  BY <1>3 DEF Runtime!ShadowCycle, Runtime!LossCycle, Runtime!LiveCycle,
    Runtime!Estimated
<1>5. Runtime!Prime(obs, at)
  BY <1>2, <1>4 DEF obs, Runtime!StepOn
<1> QED
  BY <1>5 DEF Runtime!Prime, Runtime!ReleaseAfterLoss, Runtime!ReleaseAuthority,
    Runtime!config, Runtime!supervision

(* A healthy synthetic observation gives no reason to refuse anything.     *)
LEMMA HealthyEvidence ==
  ASSUME NEW at
  PROVE  /\ Runtime!Qualification(Delivered(at, "Healthy", "Healthy")) = {}
         /\ Runtime!EvidenceReasons(
              Runtime!Evidence(Delivered(at, "Healthy", "Healthy"))) = {}
<1> DEFINE obs == Delivered(at, "Healthy", "Healthy")
<1>1. Runtime!LimitsValid(ObserveOnly) /\ ObserveOnly.sample_age = None
      /\ \A c \in Runtime!Coordinates : ObserveOnly.coordinate[c] = None
  BY DEF ObserveOnly, Runtime!LimitsValid, Runtime!Coordinates
<1>2. obs.sensor_valid /\ obs.timing = "Healthy" /\ obs.watchdog = "Healthy"
  BY DEF Delivered
<1> HIDE DEF obs
<1>3. Runtime!Qualification(obs) = {}
  BY <1>1, <1>2 DEF Runtime!Qualification, Runtime!Qualify, Runtime!Flag,
    Runtime!Exceeds
<1>4. /\ Runtime!Evidence(obs).timing = "Healthy"
      /\ Runtime!Evidence(obs).watchdog = "Healthy"
      /\ Runtime!Evidence(obs).qualified
  BY <1>2, <1>3 DEF Runtime!Evidence, Runtime!Allowed
<1>5. Runtime!EvidenceReasons(Runtime!Evidence(obs)) = {}
  BY <1>4 DEF Runtime!EvidenceReasons, Runtime!Flag
<1> QED
  BY <1>3, <1>5 DEF obs

(* The states of authority a run goes through.                             *)
Granted ==
  /\ runtime_state = Runtime!Active("SwingUp") /\ authority = "ClosedLoop"
  /\ closed_loop_request = "SwingUp"

Requested ==
  /\ runtime_state = Runtime!Ready /\ authority = "Disarmed"
  /\ closed_loop_request = "SwingUp"

Released ==
  /\ runtime_state = Runtime!Ready /\ authority = "Disarmed"
  /\ closed_loop_request = None

(* A close measurement keeps authority, or gives it to the request.        *)
LEMMA CloseStep ==
  ASSUME NEW at \in Nat, GateInv, previous # None,
         previous < at, at - previous <= MaxGap,
         admission_limits = 1, Granted \/ Requested \/ Released,
         Runtime!StepOn(Delivered(at, "Healthy", "Healthy"), at)
  PROVE  /\ admission_limits' = 1
         /\ Granted \/ Requested => Granted'
         /\ Released => Released'
<1> DEFINE obs == Delivered(at, "Healthy", "Healthy")
<1>1. obs.finite
  BY DEF Delivered
<1>2. /\ Runtime!Qualification(obs) = {}
      /\ Runtime!EvidenceReasons(Runtime!Evidence(obs)) = {}
  BY HealthyEvidence
<1> HIDE DEF obs
<1>3. at # None /\ previous \in Nat
  BY AbsentAssumption DEF GateInv
<1>4. ~Runtime!EstimatorFails(obs, at) /\ ~Runtime!Prime(obs, at)
  BY <1>1, <1>3, GapIsNat DEF Runtime!EstimatorFails, Runtime!Prime, Runtime!Primes
<1>5. ~Runtime!ConstrainFails(gate, at)
  BY <1>3, ProfileIsSome, AbsentAssumption DEF GateInv, Runtime!ConstrainFails
<1>6. PICK demand \in Commands \cup {None} :
        \/ Runtime!ShadowCycle(obs, at, demand)
        \/ Runtime!LossCycle(obs, at, demand)
        \/ Runtime!LiveCycle(obs, at, demand)
  BY <1>4 DEF obs, Runtime!StepOn
<1>7. admission_limits' = 1
  BY <1>6 DEF Runtime!ShadowCycle, Runtime!LossCycle, Runtime!LiveCycle,
    Runtime!Estimated, Runtime!config
<1>8. ASSUME Granted \/ Requested PROVE Granted'
  <2>1. /\ Runtime!EnteredState(obs) = Runtime!Active("SwingUp")
        /\ Runtime!EnteredMode(obs) = "ClosedLoop"
    <3>1. CASE Granted
      <4>1. ~Runtime!Consulted
        BY <3>1 DEF Granted, Runtime!Consulted, Runtime!Active, Runtime!Ready
      <4> QED
        BY <3>1, <4>1 DEF Granted, Runtime!EnteredState, Runtime!EnteredMode,
          Runtime!Admits
    <3>2. CASE Requested
      <4>1. Runtime!Consulted
        BY <3>2, AbsentAssumption DEF Requested, Runtime!Consulted, Runtime!Regimes
      <4>2. Runtime!Admission(obs) = {}
        BY <1>2, <3>2, AbsentAssumption DEF Requested, Runtime!Admission,
          Runtime!Admit, Runtime!Flag, Runtime!LimitUsable, Runtime!NearUpright
      <4>3. Runtime!Admits(obs)
        BY <4>1, <4>2 DEF Runtime!Admits, Runtime!Allowed
      <4> QED
        BY <3>2, <4>3 DEF Requested, Runtime!EnteredState, Runtime!EnteredMode,
          Runtime!EnterMode
    <3> QED
      BY <1>8, <3>1, <3>2
  <2>2. Runtime!IsActive(Runtime!EnteredState(obs))
    BY <2>1 DEF Runtime!Active, Runtime!IsActive
  <2>3. Runtime!Allowed(Runtime!Permit(obs))
    BY <1>2, <2>1, <2>2 DEF Runtime!Permit, Runtime!RunPermit, Runtime!Flag,
      Runtime!Allowed
  <2>4. Runtime!LiveCycle(obs, at, demand)
    BY <1>6, <2>2, <2>3 DEF Runtime!ShadowCycle, Runtime!LossCycle
  <2>5. closed_loop_request = "SwingUp"
    BY <1>8 DEF Granted, Requested
  <2>6. /\ runtime_state' = Runtime!EnteredState(obs)
        /\ authority' = Runtime!EnteredMode(obs)
        /\ UNCHANGED closed_loop_request
    BY <1>5, <2>4 DEF Runtime!LiveCycle
  <2> QED
    BY <2>1, <2>5, <2>6 DEF Granted
<1>9. ASSUME Released PROVE Released'
  <2>1. ~Runtime!Consulted
    BY <1>9 DEF Released, Runtime!Consulted
  <2>2. ~Runtime!IsActive(Runtime!EnteredState(obs))
    BY <1>9, <2>1 DEF Released, Runtime!EnteredState, Runtime!Admits,
      Runtime!IsActive, Runtime!Ready
  <2>3. Runtime!ShadowCycle(obs, at, demand)
    BY <1>6, <2>2 DEF Runtime!LossCycle, Runtime!LiveCycle
  <2> QED
    BY <1>9, <2>3 DEF Released, Runtime!ShadowCycle, Runtime!supervision
<1> QED
  BY <1>7, <1>8, <1>9

(* What the misses make of authority, as a function of the cycles that ran.*)
PairsOf(R) == {p \in R \X R : p[1] < p[2] /\ ~\E t \in R : p[1] < t /\ t < p[2]}
CloseOf(R) == {p \in PairsOf(R) : p[2] - p[1] <= MaxGap}
WideOf(R) == PairsOf(R) \ CloseOf(R)
LostOf(R) == \E p \in CloseOf(R), q \in WideOf(R) : p[2] <= q[1]

(* One cycle alone has no gap before it, and has lost nothing.             *)
LEMMA FirstRun ==
  ASSUME NEW n \in Nat
  PROVE  CloseOf({n}) = {} /\ WideOf({n}) = {} /\ ~LostOf({n})
<1>1. \A p \in {n} \X {n} : p[1] = n /\ p[2] = n
  OBVIOUS
<1>2. PairsOf({n}) = {}
  BY <1>1 DEF PairsOf
<1> QED
  BY <1>2 DEF CloseOf, WideOf, LostOf

(* One more cycle adds one pair, with the last one before it.              *)
LEMMA OneMorePair ==
  ASSUME NEW R \in SUBSET Nat, NEW m \in R, NEW n \in Nat,
         \A t \in R : t <= m, m < n
  PROVE  PairsOf(R \cup {n}) = PairsOf(R) \cup {<<m, n>>}
<1> DEFINE S == R \cup {n}
<1>1. PairsOf(S) \subseteq PairsOf(R) \cup {<<m, n>>}
  <2> SUFFICES ASSUME NEW p \in PairsOf(S) PROVE p \in PairsOf(R) \/ p = <<m, n>>
    OBVIOUS
  <2>1. /\ p \in S \X S /\ p[1] < p[2] /\ ~\E t \in S : p[1] < t /\ t < p[2]
        /\ p = <<p[1], p[2]>> /\ p[1] \in S /\ p[2] \in S
    BY DEF PairsOf
  <2>2. p[1] \in Nat /\ p[2] \in Nat
    BY <2>1
  <2>3. p[1] # n
    BY <2>1, <2>2
  <2>4. CASE p[2] = n
    <3>1. p[1] \in R /\ p[1] <= m
      BY <2>1, <2>3
    <3>2. ~(p[1] < m)
      BY <2>1, <2>4
    <3>3. p[1] = m
      BY <2>2, <3>1, <3>2
    <3> QED
      BY <2>1, <2>4, <3>3
  <2>5. CASE p[2] # n
    <3>1. p \in R \X R
      BY <2>1, <2>3, <2>5
    <3> QED
      BY <2>1, <3>1 DEF PairsOf
  <2> QED
    BY <2>4, <2>5
<1>2. <<m, n>> \in PairsOf(S)
  BY DEF PairsOf
<1>3. PairsOf(R) \subseteq PairsOf(S)
  <2> SUFFICES ASSUME NEW p \in PairsOf(R) PROVE p \in PairsOf(S)
    OBVIOUS
  <2>1. /\ p \in R \X R /\ p[1] < p[2] /\ ~\E t \in R : p[1] < t /\ t < p[2]
        /\ p[1] \in R /\ p[2] \in R
    BY DEF PairsOf
  <2>2. p[2] \in Nat /\ p[2] <= m
    BY <2>1
  <2>3. p[2] < n
    BY <2>2
  <2>4. ~\E t \in S : p[1] < t /\ t < p[2]
    BY <2>1, <2>2, <2>3
  <2>5. p \in S \X S
    BY <2>1
  <2> QED
    BY <2>1, <2>4, <2>5 DEF PairsOf
<1> QED
  BY <1>1, <1>2, <1>3

(* A pair of successive cycles is of two cycles, the earlier first.        *)
LEMMA PairsAreOfRuns ==
  ASSUME NEW R \in SUBSET Nat
  PROVE  \A p \in PairsOf(R) : p[1] \in R /\ p[2] \in R /\ p[1] < p[2]
BY DEF PairsOf

(* A close pair keeps what was lost, and starts what was not.              *)
LEMMA ClosePair ==
  ASSUME NEW R \in SUBSET Nat, NEW m \in R, NEW n \in Nat,
         \A t \in R : t <= m, m < n, n - m <= MaxGap
  PROVE  /\ CloseOf(R \cup {n}) # {}
         /\ LostOf(R \cup {n}) <=> LostOf(R)
<1>1. PairsOf(R \cup {n}) = PairsOf(R) \cup {<<m, n>>}
  BY OneMorePair
<1>2. <<m, n>> \notin PairsOf(R)
  BY PairsAreOfRuns
<1>3. CloseOf(R \cup {n}) = CloseOf(R) \cup {<<m, n>>}
  BY <1>1 DEF CloseOf
<1>4. WideOf(R \cup {n}) = WideOf(R)
  BY <1>1, <1>2, <1>3 DEF WideOf, CloseOf
<1>5. \A q \in WideOf(R) : q[1] \in R
  BY PairsAreOfRuns DEF WideOf
<1>6. \A q \in WideOf(R) : q[1] \in Nat /\ q[1] < n
  <2>1. \A t \in R : t \in Nat /\ t < n
    OBVIOUS
  <2> QED
    BY <1>5, <2>1
<1>7. \A q \in WideOf(R) : ~(<<m, n>>[2] <= q[1])
  BY <1>6
<1> QED
  BY <1>3, <1>4, <1>7 DEF LostOf

(* A wide pair loses whatever had been granted.                            *)
LEMMA WidePair ==
  ASSUME NEW R \in SUBSET Nat, NEW m \in R, NEW n \in Nat,
         \A t \in R : t <= m, m < n, n - m > MaxGap
  PROVE  /\ CloseOf(R \cup {n}) = CloseOf(R)
         /\ LostOf(R \cup {n}) <=> CloseOf(R) # {}
<1>1. PairsOf(R \cup {n}) = PairsOf(R) \cup {<<m, n>>}
  BY OneMorePair
<1>2. ~(<<m, n>>[2] - <<m, n>>[1] <= MaxGap)
  BY GapIsNat
<1>3. CloseOf(R \cup {n}) = CloseOf(R)
  BY <1>1, <1>2 DEF CloseOf
<1>4. <<m, n>> \in WideOf(R \cup {n})
  BY <1>1, <1>2 DEF WideOf, CloseOf
<1>5. \A p \in CloseOf(R) : p[2] <= <<m, n>>[1]
  BY PairsAreOfRuns DEF CloseOf
<1> QED
  BY <1>3, <1>4, <1>5 DEF LostOf

(* Which cycles have run, step by step.                                    *)
LEMMA RanOnAdvance ==
  ASSUME FrontierInv, NextSlice
  PROVE  Ran' = Ran
<1>1. /\ UNCHANGED missed /\ slice = {} /\ FrontierInv'
      /\ slice' = {e \in Planned : e.at = now'} /\ Started'
      /\ Started => now < now'
  BY NextSliceFrontier
<1>2. \A e \in Planned : e.at \in Nat
  BY PlannedIsFinite, ScenarioAssumption
<1>3. /\ queue = {e \in Planned : Started => e.at > now}
      /\ queue' = {e \in Planned : e.at > now'}
      /\ now \in Nat /\ now' \in Nat
  BY <1>1, ScenarioAssumption DEF FrontierInv, Planned
<1>4. queue' \cup slice' = queue \cup slice
  BY <1>1, <1>2, <1>3 DEF NextSlice
<1>5. Processed' = Processed
  BY <1>1, <1>4 DEF Processed
<1> QED
  BY <1>5 DEF Ran

(* Handling a runtime step adds its time to the cycles run, and nothing    *)
(* else does.                                                              *)
LEMMA RanOnProcess ==
  ASSUME FrontierInv, NEW e \in slice, Process(e)
  PROVE  Ran' = IF e.kind = "ProductionRuntime" THEN Ran \cup {now} ELSE Ran
<1>1. /\ Started /\ UNCHANGED <<missed, queue, now>>
      /\ e \in Planned /\ e.at = now /\ now \in Nat
  BY ProcessFrontier, ScenarioAssumption DEF FrontierInv
<1>2. slice' = slice \ {e}
  BY DEF Process
<1>3. e \notin queue
  BY <1>1 DEF FrontierInv
<1>4. Processed' = Processed \cup {e}
  BY <1>1, <1>2, <1>3 DEF Processed, Planned
<1> QED
  BY <1>1, <1>4 DEF Ran

(* Cycles run at times.                                                    *)
LEMMA RanIsNat == Ran \subseteq Nat
<1>1. \A e \in Planned : e.at \in Nat
  BY PlannedIsFinite, ScenarioAssumption
<1> QED
  BY <1>1 DEF Ran, Processed, Planned

(* Slices are one period apart: every time of the axis has its delivery.   *)
LEMMA NextOnGrid ==
  ASSUME NEW period \in Nat \ {0}, NEW a \in Nat, NEW b \in Nat,
         a % period = 0, b % period = 0, a < b
  PROVE  a + period <= b /\ (a + period) % period = 0
<1> DEFINE j == a \div period
           k == b \div period
<1>1. /\ j \in Nat /\ k \in Nat /\ a = j * period /\ b = k * period
  BY MultipleOfQuotient, QuotientBounds
<1> HIDE DEF j, k
<1>2. j < k
  <2>1. CASE k < j
    <3>1. k * period + period <= j * period
      BY <1>1, <2>1, ProductsAreOrdered
    <3> QED
      BY <1>1, <3>1
  <2>2. CASE k = j
    BY <1>1, <2>2
  <2> QED
    BY <1>1, <2>1, <2>2
<1>3. j * period + period <= k * period
  BY <1>1, <1>2, ProductsAreOrdered
<1>4. a + period = (j + 1) * period /\ j + 1 \in Nat
  BY <1>1, SMT
<1>5. \A i \in Nat : (i * period) % period = 0
  BY MultipleHasNoRest
<1> QED
  BY <1>1, <1>3, <1>4, <1>5

(* Each slice is the next time of the grid, and delivers an observation.   *)
LEMMA SlicesAreConsecutive ==
  ASSUME FrontierInv, NextSlice, Started => now \in Grid(SensorPeriod)
  PROVE  /\ now' = IF Started THEN now + SensorPeriod ELSE 0
         /\ now' \in Grid(SensorPeriod)
         /\ Due("ObservationDelivery")'
<1>1. /\ UNCHANGED missed /\ FrontierInv'
      /\ slice' = {e \in Planned : e.at = now'} /\ Started'
      /\ Started => now < now'
      /\ \E e \in slice' : TRUE
  BY NextSliceFrontier
<1>2. \A e \in Planned : e = Event(e.at, e.kind) /\ e.at \in Nat /\ e.at \in 0..Duration
  BY PlannedIsFinite, ScenarioAssumption DEF Event
<1>3. 0 \in Grid(SensorPeriod) /\ Grid(SensorPeriod) \subseteq 0..Duration
  BY ScenarioAssumption DEF Grid
<1>4. ASSUME NEW e \in Planned PROVE e.at \in Grid(SensorPeriod)
  <2>1. Event(e.at, e.kind) \in Planned
    BY <1>2
  <2> QED
    BY <1>3, <2>1, MemberOfPlanned, SitlAssumption
<1>5. now' \in Grid(SensorPeriod)
  BY <1>1, <1>4 DEF Planned
<1>6. Event(now', "ObservationDelivery") \in Planned
  BY <1>5, MemberOfPlanned
<1>7. Due("ObservationDelivery")'
  BY <1>1, <1>6 DEF Due, Event
<1>8. /\ now \in Nat /\ now' \in Nat
      /\ queue = {e \in Planned : Started => e.at > now}
      /\ \A other \in queue : now' <= other.at
  BY <1>1, ScenarioAssumption DEF FrontierInv, NextSlice
<1>9. CASE ~Started
  <2>1. Event(0, "ScenarioStart") \in Planned
    BY MemberOfPlanned
  <2>2. now' <= 0
    BY <1>8, <1>9, <2>1 DEF Event
  <2> QED
    BY <1>5, <1>7, <1>8, <1>9, <2>2
<1>10. CASE Started
  <2>1. now + SensorPeriod <= now' /\ (now + SensorPeriod) % SensorPeriod = 0
    BY <1>1, <1>5, <1>8, <1>10, NextOnGrid, ScenarioAssumption DEF Grid
  <2>2. now + SensorPeriod \in Grid(SensorPeriod)
    BY <1>3, <1>5, <1>8, <2>1, ScenarioAssumption DEF Grid
  <2>3. Event(now + SensorPeriod, "SensorSample") \in Planned
    BY <2>2, MemberOfPlanned
  <2>4. now' <= now + SensorPeriod
    BY <1>8, <2>3, ScenarioAssumption DEF Event
  <2> QED
    BY <1>5, <1>7, <1>8, <1>10, <2>1, <2>4, ScenarioAssumption
<1> QED
  BY <1>9, <1>10

(* The timing monitor has seen every delivery up to now.                   *)
ClockInv ==
  /\ ~Started => last_event = None
  /\ Started => now \in Grid(SensorPeriod)
  /\ Due("ObservationDelivery") =>
       last_event = IF now = 0 THEN None ELSE now - SensorPeriod
  /\ Started /\ ~Due("ObservationDelivery") => last_event = now

(* What the runtime is about to see is as healthy as the misses allow.     *)
Verdict == Runtime!WatchdogVerdict(WatchdogTimeout, previous, now)

FeedInv ==
  Due("ProductionRuntime") /\ ~Due("ObservationDelivery") =>
    source = Delivered(now, IF now = 0 THEN "Startup" ELSE "Healthy", Verdict)

(* The estimator's clock is that of the last cycle.                        *)
RanInv ==
  IF previous = None THEN Ran = {}
  ELSE previous \in Ran /\ \A t \in Ran : t <= previous

AuthorityInv ==
  /\ admission_limits = 1
  /\ IF LostOf(Ran) THEN Released
     ELSE IF CloseOf(Ran) = {} THEN Requested
     ELSE Granted

FollowInv == ~aborted => ClockInv /\ FeedInv /\ RanInv /\ AuthorityInv

(* Before the first cycle authority follows from none.                     *)
LEMMA FollowInit == Init => FollowInv
<1> SUFFICES ASSUME Init PROVE FollowInv
  OBVIOUS
<1>1. ~Started /\ slice = {} /\ queue = Planned
  BY DEF Init, SchedulerInit, Started, Counters, Planned
<1>2. /\ previous = None /\ last_event = None /\ admission_limits = 1
      /\ runtime_state = Runtime!Ready /\ authority = "Disarmed"
      /\ closed_loop_request = "SwingUp"
  BY DEF Init, SystemInit
<1>3. Ran = {}
  BY <1>1 DEF Ran, Processed, Planned
<1>4. CloseOf(Ran) = {} /\ ~LostOf(Ran)
  BY <1>3 DEF CloseOf, LostOf, PairsOf
<1> QED
  BY <1>1, <1>2, <1>3, <1>4 DEF FollowInv, ClockInv, FeedInv, RanInv, AuthorityInv,
    Requested, Due

(* An advance of the clock runs no cycle, so it keeps what they decided.   *)
LEMMA FollowAdvance ==
  ASSUME SystemInv, FollowInv, Advance
  PROVE  FollowInv'
<1>1. ~aborted /\ NextSlice /\ FrontierInv /\ ClockInv /\ RanInv /\ AuthorityInv
  BY DEF Advance, SystemInv, FollowInv
<1>2. UNCHANGED <<runtimeVars, monitorVars, handoverVars, actuator, aborted>>
  BY DEF Advance
<1>3. Ran' = Ran
  BY <1>1, RanOnAdvance
<1>4. /\ now' = IF Started THEN now + SensorPeriod ELSE 0
      /\ now' \in Grid(SensorPeriod) /\ Due("ObservationDelivery")'
  BY <1>1, SlicesAreConsecutive DEF ClockInv
<1>5. Started' /\ slice = {} /\ now \in Nat
  BY <1>1, NextSliceFrontier, ScenarioAssumption DEF FrontierInv
<1>6. last_event' = IF now' = 0 THEN None ELSE now' - SensorPeriod
  <2>1. CASE Started
    <3>1. last_event = now
      BY <1>1, <1>5, <2>1 DEF ClockInv, Due
    <3> QED
      BY <1>2, <1>4, <1>5, <2>1, <3>1, ScenarioAssumption DEF monitorVars
  <2>2. CASE ~Started
    BY <1>1, <1>2, <1>4, <2>2 DEF ClockInv, monitorVars
  <2> QED
    BY <2>1, <2>2
<1>7. ClockInv' /\ FeedInv'
  BY <1>4, <1>5, <1>6 DEF ClockInv, FeedInv
<1>8. RanInv'
  BY <1>1, <1>2, <1>3 DEF RanInv, runtimeVars
<1>9. AuthorityInv'
  <2>1. /\ LostOf(Ran)' <=> LostOf(Ran)
        /\ CloseOf(Ran)' = CloseOf(Ran)
    BY <1>3 DEF LostOf, CloseOf, WideOf, PairsOf
  <2> QED
    BY <1>1, <1>2, <2>1 DEF AuthorityInv, Released, Requested, Granted, runtimeVars
<1> QED
  BY <1>7, <1>8, <1>9 DEF FollowInv

(* An event that is no runtime cycle leaves the runtime alone.             *)
LEMMA RuntimeKept ==
  ASSUME SystemInv, FollowInv, ~aborted, NEW e \in slice, Process(e),
         e.kind # "ProductionRuntime", UNCHANGED runtimeVars
  PROVE  RanInv' /\ AuthorityInv'
<1>1. RanInv /\ AuthorityInv /\ FrontierInv
  BY DEF FollowInv, SystemInv
<1>2. Ran' = Ran
  BY <1>1, RanOnProcess
<1>3. RanInv'
  BY <1>1, <1>2 DEF RanInv, runtimeVars
<1>4. /\ LostOf(Ran)' <=> LostOf(Ran)
      /\ CloseOf(Ran)' = CloseOf(Ran)
  BY <1>2 DEF LostOf, CloseOf, WideOf, PairsOf
<1> QED
  BY <1>1, <1>3, <1>4 DEF AuthorityInv, Released, Requested, Granted, runtimeVars

(* Events of no handler, samples and commits.                              *)
LEMMA FollowQuiet ==
  ASSUME SystemInv, FollowInv, ~aborted, NEW e \in slice, Process(e),
         e.kind \notin {"ObservationDelivery", "ProductionRuntime"},
         UNCHANGED <<runtimeVars, monitorVars, source>>
  PROVE  FollowInv'
<1>1. ClockInv /\ FeedInv
  BY DEF FollowInv
<1>2. /\ Started /\ Started' /\ UNCHANGED now
      /\ \A kind : Due(kind)' <=> (Due(kind) /\ kind # e.kind)
  BY HandlerContext
<1>3. /\ Due("ObservationDelivery")' <=> Due("ObservationDelivery")
      /\ Due("ProductionRuntime")' <=> Due("ProductionRuntime")
  BY <1>2
<1>4. ClockInv'
  BY <1>1, <1>2, <1>3 DEF ClockInv, monitorVars
<1>5. Verdict' = Verdict
  BY <1>2 DEF Verdict, Runtime!WatchdogVerdict, runtimeVars
<1>6. FeedInv'
  <2> SUFFICES ASSUME Due("ProductionRuntime")', ~Due("ObservationDelivery")'
               PROVE  (source = Delivered(now, IF now = 0 THEN "Startup" ELSE "Healthy",
                                          Verdict))'
    BY DEF FeedInv
  <2>1. source = Delivered(now, IF now = 0 THEN "Startup" ELSE "Healthy", Verdict)
    BY <1>1, <1>3 DEF FeedInv
  <2> QED
    BY <1>2, <1>5, <2>1 DEF Delivered
<1>7. RanInv' /\ AuthorityInv'
  BY RuntimeKept
<1> QED
  BY <1>4, <1>6, <1>7 DEF FollowInv

(* A delivery is never late, however many opportunities were dropped.      *)
LEMMA FollowDelivery ==
  ASSUME SystemInv, FollowInv, ~aborted, NEW e \in slice, Process(e),
         e.kind = "ObservationDelivery", ObservationDelivery(e.at)
  PROVE  FollowInv'
<1>1. ClockInv /\ FeedInv
  BY DEF FollowInv
<1>2. /\ Started /\ Started' /\ UNCHANGED now /\ e.at = now /\ now # None
      /\ now \in Nat /\ Due("ObservationDelivery") /\ HandoverInv /\ EstimatorInv
      /\ \A kind : Due(kind)' <=> (Due(kind) /\ kind # e.kind)
      /\ \A kind \in EventKinds : Due(kind) => Phase[e.kind] <= Phase[kind]
  BY HandlerContext
<1>3. ~Due("SensorSample")
  BY <1>2 DEF Phase, EventKinds
<1>4. pending_raw = now
  BY <1>2, <1>3 DEF HandoverInv
<1>5. /\ source' = Delivered(now, Runtime!OnEvent(TimingLimits, last_event, now),
                             Runtime!WatchdogVerdict(WatchdogTimeout, last_kick, now))
      /\ last_event' = now /\ UNCHANGED runtimeVars
  BY <1>2, <1>4 DEF ObservationDelivery
<1>6. Runtime!OnEvent(TimingLimits, last_event, now)
        = IF now = 0 THEN "Startup" ELSE "Healthy"
  <2>1. CASE now = 0
    BY <1>1, <1>2, <2>1 DEF ClockInv, Runtime!OnEvent
  <2>2. CASE now # 0
    <3>1. last_event = now - SensorPeriod /\ last_event # None
      BY <1>1, <1>2, <2>2, ScenarioAssumption, AbsentAssumption DEF ClockInv
    <3>2. Runtime!SaturatingSub(now, last_event) = SensorPeriod
      BY <1>2, <3>1, ScenarioAssumption DEF Runtime!SaturatingSub
    <3>3. /\ SensorPeriod < SensorPeriod * LateFactor
          /\ SensorPeriod < SensorPeriod * MissedTolerance
      <4>1. \A k \in Nat : k >= 2 => SensorPeriod < SensorPeriod * k
        BY ScenarioAssumption, SMT
      <4> QED
        BY <4>1, SitlAssumption
    <3>4. /\ TimingLimits.late = SensorPeriod * LateFactor
          /\ TimingLimits.timeout = SensorPeriod * MissedTolerance
          /\ SensorPeriod * LateFactor \in Nat /\ SensorPeriod * MissedTolerance \in Nat
      BY ScenarioAssumption, SitlAssumption DEF TimingLimits
    <3>5. Runtime!ClassifyElapsed(TimingLimits, SensorPeriod) = "Healthy"
      BY <3>3, <3>4, ScenarioAssumption DEF Runtime!ClassifyElapsed
    <3> QED
      BY <2>2, <3>1, <3>2, <3>5 DEF Runtime!OnEvent
  <2> QED
    BY <2>1, <2>2
<1>7. ClockInv'
  BY <1>1, <1>2, <1>5 DEF ClockInv
<1>8. FeedInv'
  <2>1. last_kick = previous
    BY <1>2 DEF EstimatorInv
  <2>2. source' = Delivered(now, IF now = 0 THEN "Startup" ELSE "Healthy", Verdict)
    BY <1>5, <1>6, <2>1 DEF Verdict
  <2>3. Verdict' = Verdict
    BY <1>2, <1>5 DEF Verdict, Runtime!WatchdogVerdict, runtimeVars
  <2>4. source' = (Delivered(now, IF now = 0 THEN "Startup" ELSE "Healthy", Verdict))'
    BY <1>2, <2>2, <2>3 DEF Delivered
  <2> QED
    BY <2>4 DEF FeedInv
<1>9. RanInv' /\ AuthorityInv'
  BY <1>5, RuntimeKept
<1> QED
  BY <1>7, <1>8, <1>9 DEF FollowInv

(* A runtime cycle: the gap it closes decides what becomes of authority.   *)
LEMMA FollowRuntime ==
  ASSUME SystemInv, FollowInv, ~aborted, NEW e \in slice, Process(e),
         e.kind = "ProductionRuntime", ProductionRuntime(e.at)
  PROVE  FollowInv'
<1>1. /\ ClockInv /\ FeedInv /\ RanInv /\ AuthorityInv /\ FrontierInv
  BY DEF FollowInv, SystemInv
<1>2. /\ Started /\ Started' /\ UNCHANGED now /\ e.at = now /\ now # None
      /\ now \in Nat /\ EstimatorInv /\ Due("ProductionRuntime")
      /\ \A kind : Due(kind)' <=> (Due(kind) /\ kind # e.kind)
      /\ \A kind \in EventKinds : Due(kind) => Phase[e.kind] <= Phase[kind]
  BY HandlerContext
<1>3. ~Due("ObservationDelivery")
  BY <1>2 DEF Phase, EventKinds
<1>4. /\ GateInv /\ previous \in Nat \cup {None}
      /\ previous # None => previous < now
  BY <1>2 DEF EstimatorInv, GateInv
<1> DEFINE timing == IF now = 0 THEN "Startup" ELSE "Healthy"
<1>5. source = Delivered(now, timing, Verdict)
  BY <1>1, <1>2, <1>3 DEF FeedInv
<1>6. Runtime!StepOn(Delivered(now, timing, Verdict), now)
  <2>1. Verdict \in Runtime!WatchdogHealth /\ timing \in Runtime!TimingHealth
    BY VerdictTypes DEF Verdict, Runtime!TimingHealth
  <2>2. source # None
    BY <1>2, <1>5, <2>1, AbsentAssumption DEF FrontierInv, SystemInv
  <2>3. source.captured_at = now
    BY <1>5 DEF Delivered
  <2> QED
    BY <1>5, <2>2, <2>3 DEF ProductionRuntime, RuntimeStep
<1>7. previous' = now
  BY <1>4, <1>6, <1>2, FreshStep
<1>8. Ran' = Ran \cup {now}
  BY <1>1, RanOnProcess
<1>9. RanInv'
  <2>1. \A t \in Ran : t \in Nat
    BY RanIsNat
  <2>2. CASE previous = None
    BY <1>1, <1>2, <1>7, <1>8, <2>2 DEF RanInv
  <2>3. CASE previous # None
    <3>1. \A t \in Ran : t <= now
      BY <1>1, <1>2, <1>4, <2>1, <2>3 DEF RanInv
    <3> QED
      BY <1>2, <1>7, <1>8, <3>1 DEF RanInv
  <2> QED
    BY <2>2, <2>3
<1>10. ClockInv'
  BY <1>1, <1>2, <1>3 DEF ClockInv, ProductionRuntime
<1>11. FeedInv'
  BY <1>2 DEF FeedInv
<1> DEFINE next == Ran \cup {now}
<1>12. AuthorityInv' <=>
         /\ admission_limits' = 1
         /\ IF LostOf(next) THEN Released'
            ELSE IF CloseOf(next) = {} THEN Requested'
            ELSE Granted'
  <2>1. (LostOf(Ran)' <=> LostOf(next)) /\ CloseOf(Ran)' = CloseOf(next)
    BY <1>8 DEF LostOf, CloseOf, WideOf, PairsOf
  <2> QED
    BY <2>1 DEF AuthorityInv
<1>13. CASE previous = None
  <2>1. Ran = {} /\ next = {now}
    BY <1>1, <1>13 DEF RanInv
  <2>2. CloseOf(next) = {} /\ ~LostOf(next)
    BY <1>2, <2>1, FirstRun
  <2>3. CloseOf(Ran) = {} /\ ~LostOf(Ran)
    BY <2>1 DEF CloseOf, LostOf, PairsOf
  <2>4. Requested /\ admission_limits = 1
    BY <1>1, <2>3 DEF AuthorityInv
  <2>5. ~Runtime!IsActive(runtime_state)
    BY <2>4 DEF Requested, Runtime!IsActive, Runtime!Ready
  <2>6. UNCHANGED <<admission_limits, runtime_state, authority, closed_loop_request>>
    BY <1>2, <1>4, <1>6, <1>13, <2>5, GapStep
  <2> QED
    BY <1>9, <1>10, <1>11, <1>12, <2>2, <2>4, <2>6 DEF FollowInv, Requested
<1>14. CASE previous # None
  <2>1. /\ Ran \in SUBSET Nat /\ previous \in Ran /\ \A t \in Ran : t <= previous
        /\ previous < now /\ previous \in Nat
    BY <1>1, <1>4, <1>14, RanIsNat DEF RanInv
  <2>2. CASE now - previous > MaxGap
    <3>1. CloseOf(next) = CloseOf(Ran) /\ (LostOf(next) <=> CloseOf(Ran) # {})
      BY <1>2, <2>1, <2>2, WidePair
    <3>2. /\ admission_limits' = admission_limits
          /\ ~Runtime!IsActive(runtime_state) =>
               UNCHANGED <<runtime_state, authority, closed_loop_request>>
          /\ Runtime!IsActive(runtime_state) =>
               /\ runtime_state' = Runtime!Ready
               /\ authority' = Runtime!ReleaseMode(authority)
               /\ closed_loop_request' = None
      BY <1>2, <1>4, <1>6, <2>2, GapStep
    <3>3. Granted => Released'
      BY <3>2 DEF Granted, Released, Runtime!IsActive, Runtime!Active,
        Runtime!ReleaseMode
    <3>4. (Requested => Requested') /\ (Released => Released')
      BY <3>2 DEF Requested, Released, Runtime!IsActive, Runtime!Ready
    <3>5. LostOf(Ran) => CloseOf(Ran) # {}
      BY DEF LostOf
    <3>6. AuthorityInv'
      BY <1>1, <1>12, <3>1, <3>2, <3>3, <3>4, <3>5 DEF AuthorityInv
    <3> QED
      BY <1>9, <1>10, <1>11, <3>6 DEF FollowInv
  <2>3. CASE ~(now - previous > MaxGap)
    <3>1. now - previous <= MaxGap
      BY <1>2, <2>1, <2>3, GapIsNat
    <3>2. CloseOf(next) # {} /\ (LostOf(next) <=> LostOf(Ran))
      BY <1>2, <2>1, <3>1, ClosePair
    <3>3. timing = "Healthy"
      BY <1>2, <2>1
    <3>4. Verdict = "Healthy"
      BY <1>2, <1>14, <2>1, <3>1, GapIsNat DEF Verdict, Runtime!WatchdogVerdict,
        Runtime!SaturatingSub
    <3>5. /\ admission_limits = 1 /\ (Granted \/ Requested \/ Released)
          /\ LostOf(Ran) => Released
      BY <1>1 DEF AuthorityInv
    <3>6. /\ admission_limits' = 1
          /\ Granted \/ Requested => Granted'
          /\ Released => Released'
      BY <1>2, <1>4, <1>6, <1>14, <2>1, <3>1, <3>3, <3>4, <3>5, CloseStep
    <3>7. ~LostOf(Ran) => Granted \/ Requested
      BY <1>1 DEF AuthorityInv
    <3>8. AuthorityInv'
      BY <1>1, <1>12, <3>2, <3>5, <3>6, <3>7 DEF AuthorityInv
    <3> QED
      BY <1>9, <1>10, <1>11, <3>8 DEF FollowInv
  <2> QED
    BY <2>2, <2>3
<1> QED
  BY <1>13, <1>14

(* So does every step.                                                     *)
LEMMA FollowNext == SystemInv /\ FollowInv /\ [Next]_vars => FollowInv'
<1> SUFFICES ASSUME SystemInv, FollowInv, [Next]_vars PROVE FollowInv'
  OBVIOUS
<1>1. CASE Advance
  BY <1>1, FollowAdvance
<1>2. CASE Dispatch
  <2>1. PICK e \in slice : ~aborted /\ Process(e) /\ Handle(e)
    BY <1>2 DEF Dispatch
  <2>2. CASE Idle(e.kind)
    BY <2>1, <2>2, FollowQuiet DEF Idle, handoverVars
  <2>3. CASE e.kind = "SensorSample" /\ SensorSample(e.at)
    BY <2>1, <2>3, FollowQuiet DEF SensorSample
  <2>4. CASE e.kind = "ObservationDelivery" /\ ObservationDelivery(e.at)
    BY <2>1, <2>4, FollowDelivery
  <2>5. CASE e.kind = "ProductionRuntime" /\ ProductionRuntime(e.at)
    BY <2>1, <2>5, FollowRuntime
  <2>6. CASE e.kind = "ActuationCommit" /\ ActuationCommit
    BY <2>1, <2>6, FollowQuiet DEF ActuationCommit
  <2> QED
    BY <2>1, <2>2, <2>3, <2>4, <2>5, <2>6 DEF Handle
<1>3. CASE UNCHANGED vars
  BY <1>3 DEF vars, schedulerVars, runtimeVars, monitorVars, handoverVars, FollowInv,
    ClockInv, FeedInv, RanInv, AuthorityInv, Started, Due, Verdict, Granted, Requested,
    Released, Ran, Processed, LostOf, CloseOf, WideOf, PairsOf, Delivered,
    Runtime!WatchdogVerdict
<1> QED
  BY <1>1, <1>2, <1>3 DEF Next

(* Authority follows the misses: it is granted at the first two cycles     *)
(* closer than the gap limit and lost for good at the first wider gap      *)
(* after that, whatever opportunities the scenario drops (step() on the    *)
(* observations and verdicts of observation_delivery).                     *)
THEOREM AuthorityIsEarned == Spec => []AuthorityFollowsMisses
<1>1. Spec => []FollowInv
  BY SystemInvariance, FollowInit, FollowNext, PTL DEF Spec
<1>2. FollowInv => AuthorityFollowsMisses
  <2> SUFFICES ASSUME FollowInv, ~aborted
               PROVE  /\ (closed_loop_request = None) = Lost
                      /\ Runtime!IsActive(runtime_state) = (Close # {} /\ ~Lost)
    BY DEF AuthorityFollowsMisses
  <2>1. Close = CloseOf(Ran) /\ (Lost <=> LostOf(Ran))
    BY DEF Close, CloseOf, Lost, LostOf, Wide, WideOf, Pairs, PairsOf
  <2>2. AuthorityInv
    BY DEF FollowInv
  <2>3. LostOf(Ran) => CloseOf(Ran) # {}
    BY DEF LostOf
  <2>4. closed_loop_request = None <=> Lost
    BY <2>1, <2>2, AbsentAssumption DEF AuthorityInv, Granted, Requested, Released,
      Runtime!Regimes
  <2>5. Runtime!IsActive(runtime_state) <=> (Close # {} /\ ~Lost)
    BY <2>1, <2>2, <2>3 DEF AuthorityInv, Granted, Requested, Released,
      Runtime!IsActive, Runtime!Active, Runtime!Ready
  <2>6. Lost \in BOOLEAN /\ Runtime!IsActive(runtime_state) \in BOOLEAN
    BY DEF Lost, Runtime!IsActive
  <2> QED
    BY <2>4, <2>5, <2>6
<1> QED
  BY <1>1, <1>2, PTL
---------------------------------------------------------------------------
(* The live driver.  Its turns are the slices of a scenario that misses    *)
(* nothing, its calls the events of a slice.                               *)
LiveMapped ==
  /\ missed = {}
  /\ queue = Live!Queue
  /\ slice = Live!Slice
  /\ tally = Live!Tally

LiveStages ==
  /\ stage \in Live!Stages
  /\ first \in BOOLEAN
  /\ now \in Live!Turns
  /\ first => now = 0
  /\ stage = "ScenarioStart" => first

LiveInv == driver = "live" => LiveMapped /\ LiveStages

(* RotaryLive counts with its own copy of the library's Cardinality.       *)
LEMMA SameCount == \A S : Live!Cardinality(S) = Cardinality(S)
BY DEF Live!Cardinality, Cardinality

(* The live plan is the schedule of the scenario without misses.           *)
LEMMA LivePlan == Live!Plan = Schedule({}) /\ IsFiniteSet(Live!Plan)
<1>1. /\ Live!Turns = Grid(RuntimePeriod) /\ Live!Turns = Grid(SensorPeriod)
      /\ \A at, kind : Live!Event(at, kind) = Event(at, kind)
  BY SitlAssumption DEF Live!Turns, Grid, Live!Event, Event
<1>2. /\ Events({"RuntimeOpportunityMissed"}, Grid(RuntimePeriod) \cap {}) = {}
      /\ Grid(RuntimePeriod) \ {} = Grid(RuntimePeriod)
  BY DEF Events
<1>3. Live!Plan = {Event(0, "ScenarioStart")}
                    \cup {Event(at, kind) : at \in Live!Turns, kind \in Live!Handlers}
  BY <1>1 DEF Live!Plan
<1>4. {Event(at, kind) : at \in Live!Turns, kind \in Live!Handlers}
        = Events({"SensorSample", "ObservationDelivery"}, Grid(SensorPeriod))
            \cup Events({"ProductionRuntime", "ActuationCommit"}, Grid(RuntimePeriod))
  BY <1>1 DEF Events, Live!Handlers
<1>5. Live!Plan = Schedule({})
  BY <1>2, <1>3, <1>4 DEF Schedule
<1>6. Schedule({}) \subseteq [at : 0..Duration, kind : EventKinds]
  BY ScheduleIsTyped
<1> QED
  BY <1>5, <1>6, TypedEventsAreFinite, FS_Subset

(* What is planned for the live driver, by time and kind.                  *)
LEMMA MemberOfPlan ==
  ASSUME NEW e
  PROVE  e \in Live!Plan <=>
           \/ e = Event(0, "ScenarioStart")
           \/ \E at \in Live!Turns, kind \in Live!Handlers : e = Event(at, kind)
BY DEF Live!Plan, Live!Event, Event

(* The turns of the live loop are times of the run, on the period.         *)
LEMMA TurnsAreTimes ==
  /\ Live!Turns \subseteq 0..Duration /\ 0 \in Live!Turns
  /\ \A at \in Live!Turns : at \in Nat /\ at % RuntimePeriod = 0
BY ScenarioAssumption DEF Live!Turns

(* Every event of the live plan is of one of its turns.                    *)
LEMMA PlanTimes == \A e \in Live!Plan : e.at \in Live!Turns
BY MemberOfPlan, TurnsAreTimes DEF Event

(* The counters of the live driver are functions of its place in the loop. *)
LiveCounters ==
  /\ Live!Tally = [c \in Counters |-> Live!Tally[c]]
  /\ Live!Tally["TimeSlice"] = Live!Slices
  /\ Live!Tally["TimeAdvance"] = IF Live!Begun THEN Live!Slices - 1 ELSE 0
  /\ \A kind \in EventKinds : Live!Tally[kind] = Live!Done(kind)

(* Before and after every step.                                            *)
LEMMA CountersHold == LiveCounters /\ LiveCounters'
<1>1. LiveCounters
  BY DEF LiveCounters, Counters, EventKinds, Live!Handlers, Live!Tally
<1>2. LiveCounters'
  BY DEF LiveCounters, Counters, EventKinds, Live!Handlers, Live!Tally
<1> QED
  BY <1>1, <1>2

(* The live driver starts as the scheduler does.                           *)
LEMMA LiveInit ==
  ASSUME Live!LiveInit, FollowsAtFirst
  PROVE  SchedulerInit /\ LiveMapped /\ LiveStages
<1>1. /\ now = 0 /\ first /\ stage = "Turn" /\ first \in BOOLEAN
      /\ missed = {} /\ queue = Live!Queue /\ slice = Live!Slice /\ tally = Live!Tally
  BY DEF Live!LiveInit, FollowsAtFirst
<1>2. ~Live!Begun
  BY <1>1 DEF Live!Begun
<1>3. Live!Queue = Live!Plan
  BY <1>2 DEF Live!Queue
<1>4. Live!Left[stage] = {}
  BY <1>1 DEF Live!Left, Live!Stages, Live!Handlers
<1>5. Live!Slice = {}
  BY <1>4 DEF Live!Slice
<1>6. \A kind : Live!Done(kind) = 0
  <2>1. \A kind : {e \in Live!Plan \ (Live!Queue \cup Live!Slice) : e.kind = kind} = {}
    BY <1>3
  <2> QED
    BY <2>1, SameCount, FS_EmptySet DEF Live!Done
<1>7. Live!Tally = [c \in Counters |-> 0]
  BY <1>2, <1>6 DEF Live!Tally, Counters, EventKinds, Live!Handlers, Live!Slices
<1>8. SchedulerInit
  BY <1>1, <1>3, <1>5, <1>7, LivePlan DEF SchedulerInit, ValidMisses
<1>9. LiveStages
  BY <1>1, TurnsAreTimes DEF LiveStages, Live!Stages
<1> QED
  BY <1>1, <1>8, <1>9 DEF LiveMapped

(* A turn begins a slice.                                                  *)
LEMMA BeginTurnIsAdvance ==
  ASSUME LiveMapped, LiveStages, Live!BeginTurn, Follows
  PROVE  Advance /\ LiveMapped' /\ LiveStages'
<1>1. /\ stage = "Turn" /\ ~aborted
      /\ now' = IF first THEN 0 ELSE now + RuntimePeriod
      /\ now' \in Live!Turns
      /\ stage' = IF first THEN "ScenarioStart" ELSE "SensorSample"
      /\ UNCHANGED <<first, Live!systemVars>>
  BY DEF Live!BeginTurn
<1>2. /\ missed = {} /\ queue = Live!Queue /\ slice = Live!Slice /\ tally = Live!Tally
      /\ missed' = {} /\ queue' = Live!Queue' /\ slice' = Live!Slice'
      /\ tally' = Live!Tally'
  BY DEF LiveMapped, Follows
<1>3. /\ first \in BOOLEAN /\ now \in Live!Turns /\ (first => now = 0)
      /\ now \in Nat /\ now' \in Nat
  BY <1>1, TurnsAreTimes DEF LiveStages
<1>4. /\ slice = {}
      /\ Live!Begun' /\ (Live!Begun <=> ~first)
  <2>1. Live!Left[stage] = {}
    BY <1>1 DEF Live!Left, Live!Stages, Live!Handlers
  <2>2. stage' # "Turn"
    BY <1>1
  <2> QED
    BY <1>1, <1>2, <2>1, <2>2 DEF Live!Slice, Live!Begun
<1>5. Live!Plan' = Live!Plan
  BY DEF Live!Plan, Live!Turns, Live!Event, Live!Handlers
<1>6. /\ queue = {e \in Live!Plan : e.at > now \/ first}
      /\ queue' = {e \in Live!Plan : e.at > now'}
  BY <1>2, <1>4, <1>5 DEF Live!Queue
<1>7. \A e \in queue : e.at \in Nat /\ now' <= e.at
  <2> SUFFICES ASSUME NEW e \in queue PROVE e.at \in Nat /\ now' <= e.at
    OBVIOUS
  <2>1. e \in Live!Plan /\ (e.at > now \/ first)
    BY <1>6
  <2>2. e.at \in Nat /\ e.at % RuntimePeriod = 0
    BY <2>1, PlanTimes, TurnsAreTimes
  <2>3. CASE first
    BY <1>1, <2>2, <2>3
  <2>4. CASE ~first
    <3>1. now < e.at /\ now % RuntimePeriod = 0
      BY <1>3, <2>1, <2>2, <2>4, TurnsAreTimes
    <3>2. now + RuntimePeriod <= e.at
      BY <1>3, <2>2, <3>1, NextOnGrid, ScenarioAssumption
    <3> QED
      BY <1>1, <2>2, <2>4, <3>2
  <2> QED
    BY <2>3, <2>4
<1>8. now' > now \/ first
  BY <1>1, <1>3, ScenarioAssumption
<1>9. Event(now', "SensorSample") \in queue
  <2>1. Event(now', "SensorSample") \in Live!Plan
    BY <1>1, MemberOfPlan DEF Live!Handlers
  <2> QED
    BY <1>6, <1>8, <2>1 DEF Event
<1>10. queue' = {e \in queue : e.at # now'}
  <2>1. \A e \in Live!Plan : e.at \in Nat
    BY PlanTimes, TurnsAreTimes
  <2>2. \A e \in Live!Plan : e.at > now' => e \in queue
    BY <1>3, <1>6, <1>8, <2>1
  <2> QED
    BY <1>3, <1>6, <1>7, <2>1, <2>2
<1>11. slice' = {e \in queue : e.at = now'}
  <2>1. CASE first
    <3>1. now' = 0 /\ stage' = "ScenarioStart"
      BY <1>1, <2>1
    <3>2. slice' = {Event(0, kind) : kind \in Live!Handlers \cup {"ScenarioStart"}}
      BY <1>2, <3>1 DEF Live!Slice, Live!Left, Live!Stages, Live!Event, Event
    <3>3. \A e : e \in queue /\ e.at = now' <=> e \in Live!Plan /\ e.at = 0
      BY <1>6, <2>1, <3>1
    <3>4. \A e : e \in Live!Plan /\ e.at = 0
                   <=> \E kind \in Live!Handlers \cup {"ScenarioStart"} : e = Event(0, kind)
      BY MemberOfPlan, TurnsAreTimes DEF Event
    <3> QED
      BY <3>2, <3>3, <3>4
  <2>2. CASE ~first
    <3>1. now' > 0 /\ now' > now /\ stage' = "SensorSample"
      BY <1>1, <1>3, <2>2, ScenarioAssumption
    <3>2. slice' = {Event(now', kind) : kind \in Live!Handlers}
      BY <1>2, <3>1 DEF Live!Slice, Live!Left, Live!Stages, Live!Handlers,
        Live!Event, Event
    <3>3. \A e : e \in queue /\ e.at = now' <=> e \in Live!Plan /\ e.at = now'
      BY <1>6, <3>1
    <3>4. \A e : e \in Live!Plan /\ e.at = now'
                   <=> \E kind \in Live!Handlers : e = Event(now', kind)
      BY <1>1, <3>1, MemberOfPlan DEF Event
    <3> QED
      BY <3>2, <3>3, <3>4
  <2> QED
    BY <2>1, <2>2
<1>12. Live!Slices' = Live!Slices + 1 /\ Live!Slices \in Nat
       /\ (first => Live!Slices = 0)
  <2>1. CASE first
    <3>1. 0 \div RuntimePeriod = 0
      BY ScenarioAssumption
    <3> QED
      BY <1>1, <1>4, <2>1, <3>1 DEF Live!Slices
  <2>2. CASE ~first
    <3>1. (now + RuntimePeriod) \div RuntimePeriod = now \div RuntimePeriod + 1
          /\ now \div RuntimePeriod \in Nat
      BY <1>3, ScenarioAssumption, SMT
    <3> QED
      BY <1>1, <1>4, <2>2, <3>1 DEF Live!Slices
  <2> QED
    BY <1>3, <2>1, <2>2
<1>13. \A kind : Live!Done(kind)' = Live!Done(kind)
  <2>1. queue' \cup slice' = queue \cup slice
    BY <1>4, <1>10, <1>11
  <2>2. \A kind :
          /\ Live!Done(kind)' = Cardinality(
               {e \in Live!Plan \ (queue' \cup slice') : e.kind = kind})
          /\ Live!Done(kind) = Cardinality(
               {e \in Live!Plan \ (queue \cup slice) : e.kind = kind})
    BY <1>2, <1>5, SameCount DEF Live!Done
  <2> QED
    BY <2>1, <2>2
<1>14. tally' = [tally EXCEPT !["TimeSlice"] = @ + 1,
                              !["TimeAdvance"] = @ + IF now' > now THEN 1 ELSE 0]
  <2>1. /\ tally = [c \in Counters |-> tally[c]]
        /\ tally' = [c \in Counters |-> tally'[c]]
    BY <1>2, CountersHold DEF LiveCounters, Counters
  <2>2. tally'["TimeSlice"] = tally["TimeSlice"] + 1
    BY <1>2, <1>12, CountersHold DEF LiveCounters
  <2>3. tally'["TimeAdvance"] = tally["TimeAdvance"] + IF now' > now THEN 1 ELSE 0
    BY <1>1, <1>2, <1>3, <1>4, <1>8, <1>12, CountersHold DEF LiveCounters
  <2>4. \A kind \in EventKinds : tally'[kind] = tally[kind]
    BY <1>2, <1>13, CountersHold DEF LiveCounters
  <2>5. Counters = EventKinds \cup {"TimeSlice", "TimeAdvance"}
    BY DEF Counters
  <2> QED
    BY <2>1, <2>2, <2>3, <2>4, <2>5
<1>15. NextSlice
  <2>1. Event(now', "SensorSample").at = now'
    BY DEF Event
  <2> DEFINE next == Event(now', "SensorSample")
  <2>2. next \in queue /\ next.at = now'
    BY <1>9, <2>1
  <2> HIDE DEF next
  <2>3. /\ \A other \in queue : next.at <= other.at
        /\ slice' = {e \in queue : e.at = next.at}
        /\ queue' = {e \in queue : e.at # next.at}
        /\ tally' = [tally EXCEPT !["TimeSlice"] = @ + 1,
                                  !["TimeAdvance"] =
                                    @ + IF next.at > now THEN 1 ELSE 0]
    BY <1>7, <1>10, <1>11, <1>14, <2>2
  <2> QED
    BY <1>2, <1>4, <2>2, <2>3 DEF NextSlice
<1>16. Advance
  BY <1>1, <1>15 DEF Advance, Live!systemVars, runtimeVars, monitorVars, handoverVars
<1>17. LiveStages'
  BY <1>1, <1>3 DEF LiveStages, Live!Stages, Live!Handlers, Live!Turns
<1> QED
  BY <1>2, <1>16, <1>17 DEF LiveMapped

(* RotaryLive takes the handlers of the rotary system through an instance  *)
(* of its own: definition by definition they are the same.                 *)
LEMMA RuntimeIsShared ==
  ASSUME NEW obs, NEW at
  PROVE  Live!Scheduled!Runtime!StepOn(obs, at) <=> Runtime!StepOn(obs, at)
BY DEF ObserveOnly, Live!Scheduled!ObserveOnly, MaxGap,
  Live!Scheduled!MaxGap, Runtime!EstimatorFails,
  Live!Scheduled!Runtime!EstimatorFails, Runtime!Aborted,
  Live!Scheduled!Runtime!Aborted, Runtime!WithoutToken,
  Live!Scheduled!Runtime!WithoutToken, Runtime!Result,
  Live!Scheduled!Runtime!Result, Runtime!supervision,
  Live!Scheduled!Runtime!supervision, Runtime!config,
  Live!Scheduled!Runtime!config, Runtime!reports,
  Live!Scheduled!Runtime!reports, Runtime!Prime,
  Live!Scheduled!Runtime!Prime, Runtime!Primes,
  Live!Scheduled!Runtime!Primes, Runtime!ReleaseAfterLoss,
  Live!Scheduled!Runtime!ReleaseAfterLoss, Runtime!ReleaseAuthority,
  Live!Scheduled!Runtime!ReleaseAuthority, Runtime!ShadowCycle,
  Live!Scheduled!Runtime!ShadowCycle, Runtime!LossCycle,
  Live!Scheduled!Runtime!LossCycle, Runtime!LiveCycle,
  Live!Scheduled!Runtime!LiveCycle, Runtime!Estimated,
  Live!Scheduled!Runtime!Estimated, Runtime!EstimateReady,
  Live!Scheduled!Runtime!EstimateReady, Runtime!Qualification,
  Live!Scheduled!Runtime!Qualification, Runtime!Evidence,
  Live!Scheduled!Runtime!Evidence, Runtime!Consulted,
  Live!Scheduled!Runtime!Consulted, Runtime!Admission,
  Live!Scheduled!Runtime!Admission, Runtime!Admits,
  Live!Scheduled!Runtime!Admits, Runtime!EnteredState,
  Live!Scheduled!Runtime!EnteredState, Runtime!EnteredMode,
  Live!Scheduled!Runtime!EnteredMode, Runtime!Permit,
  Live!Scheduled!Runtime!Permit, Runtime!ResultWithoutAuthority,
  Live!Scheduled!Runtime!ResultWithoutAuthority, Runtime!Qualify,
  Live!Scheduled!Runtime!Qualify, Runtime!LimitsValid,
  Live!Scheduled!Runtime!LimitsValid, Runtime!Exceeds,
  Live!Scheduled!Runtime!Exceeds, Runtime!EvidenceReasons,
  Live!Scheduled!Runtime!EvidenceReasons, Runtime!NearUpright,
  Live!Scheduled!Runtime!NearUpright, Runtime!LimitUsable,
  Live!Scheduled!Runtime!LimitUsable, Runtime!Admit,
  Live!Scheduled!Runtime!Admit, Runtime!RunPermit,
  Live!Scheduled!Runtime!RunPermit, Runtime!Evaluate,
  Live!Scheduled!Runtime!Evaluate, Runtime!EnterMode,
  Live!Scheduled!Runtime!EnterMode, Runtime!ReleaseMode,
  Live!Scheduled!Runtime!ReleaseMode, Runtime!Flag,
  Live!Scheduled!Runtime!Flag, Runtime!Allowed,
  Live!Scheduled!Runtime!Allowed, Runtime!Magnitude,
  Live!Scheduled!Runtime!Magnitude, Runtime!IsActive,
  Live!Scheduled!Runtime!IsActive, Runtime!Active,
  Live!Scheduled!Runtime!Active, Runtime!Ready, Live!Scheduled!Runtime!Ready,
  Runtime!Coordinates, Live!Scheduled!Runtime!Coordinates, Runtime!Clamp,
  Live!Scheduled!Runtime!Clamp, Runtime!Gate, Live!Scheduled!Runtime!Gate,
  Runtime!ResetHistory, Live!Scheduled!Runtime!ResetHistory,
  Runtime!ConstrainFails, Live!Scheduled!Runtime!ConstrainFails,
  Runtime!BoundedMagnitude, Live!Scheduled!Runtime!BoundedMagnitude,
  Runtime!SlewAllowance, Live!Scheduled!Runtime!SlewAllowance,
  Runtime!Constrained, Live!Scheduled!Runtime!Constrained,
  Runtime!ConstraintReasons, Live!Scheduled!Runtime!ConstraintReasons,
  Runtime!AfterConstrain, Live!Scheduled!Runtime!AfterConstrain,
  Runtime!StepOn, Live!Scheduled!Runtime!StepOn

(* The live driver calls the scheduled run's own handlers.                 *)
LEMMA HandlersAreShared ==
  ASSUME NEW e
  PROVE  Live!Scheduled!Handle(e) <=> Handle(e)
BY RuntimeIsShared DEF Handle, Live!Scheduled!Handle, Idle, Live!Scheduled!Idle,
  SensorSample, Live!Scheduled!SensorSample, ObservationDelivery,
  Live!Scheduled!ObservationDelivery, ProductionRuntime,
  Live!Scheduled!ProductionRuntime, ActuationCommit,
  Live!Scheduled!ActuationCommit, RuntimeStep, Live!Scheduled!RuntimeStep,
  Delivered, Live!Scheduled!Delivered, TimingLimits,
  Live!Scheduled!TimingLimits, WatchdogTimeout,
  Live!Scheduled!WatchdogTimeout, runtimeVars, Live!Scheduled!runtimeVars,
  monitorVars, Live!Scheduled!monitorVars, handoverVars,
  Live!Scheduled!handoverVars, SafeOffFrame, Live!Scheduled!SafeOffFrame,
  MapCommand, Live!Scheduled!MapCommand, Frame, Live!Scheduled!Frame,
  Runtime!ObserveFails, Live!Scheduled!Runtime!ObserveFails, Runtime!Aborted,
  Live!Scheduled!Runtime!Aborted, Runtime!WithoutToken,
  Live!Scheduled!Runtime!WithoutToken, Runtime!Result,
  Live!Scheduled!Runtime!Result, Runtime!supervision,
  Live!Scheduled!Runtime!supervision, Runtime!config,
  Live!Scheduled!Runtime!config, Runtime!reports,
  Live!Scheduled!Runtime!reports, Runtime!WatchdogVerdict,
  Live!Scheduled!Runtime!WatchdogVerdict, Runtime!OnEvent,
  Live!Scheduled!Runtime!OnEvent, Runtime!ClassifyElapsed,
  Live!Scheduled!Runtime!ClassifyElapsed, Runtime!SaturatingSub,
  Live!Scheduled!Runtime!SaturatingSub, Runtime!Failures,
  Live!Scheduled!Runtime!Failures, Runtime!Coordinates,
  Live!Scheduled!Runtime!Coordinates

(* What the live driver has left of a turn, stage by stage: the stage is   *)
(* its next event, of the earliest phase, and calling it leaves the rest.  *)
LEMMA StageOrder ==
  ASSUME NEW s \in DOMAIN Live!Following
  PROVE  /\ s \in Live!Stages /\ s \in EventKinds /\ s # "Turn"
         /\ Live!Following[s] \in Live!Stages \ {"Turn", "ScenarioStart"}
         /\ s \in Live!Left[s] /\ Live!Left[s] \subseteq EventKinds
         /\ \A kind \in Live!Left[s] : Phase[s] <= Phase[kind]
         /\ Live!Left[Live!Following[s]] = Live!Left[s] \ {s}
<1>1. s \in {"ScenarioStart", "SensorSample", "ObservationDelivery",
             "ProductionRuntime", "ActuationCommit"}
  BY DEF Live!Following, Live!Handlers
<1> USE DEF Live!Following, Live!Handlers, Live!Stages, Live!Left, EventKinds, Phase
<1>2. CASE s = "ScenarioStart"
  BY <1>2
<1>3. CASE s = "SensorSample"
  BY <1>3
<1>4. CASE s = "ObservationDelivery"
  BY <1>4
<1>5. CASE s = "ProductionRuntime"
  BY <1>5
<1>6. CASE s = "ActuationCommit"
  BY <1>6
<1> QED
  BY <1>1, <1>2, <1>3, <1>4, <1>5, <1>6

(* A call processes the event of its stage.                                *)
LEMMA CallIsDispatch ==
  ASSUME LiveMapped, LiveStages, Live!Call, Follows
  PROVE  Dispatch /\ LiveMapped' /\ LiveStages'
<1>1. /\ stage \in DOMAIN Live!Following /\ ~aborted
      /\ stage' = Live!Following[stage] /\ UNCHANGED <<now, first>>
      /\ Live!Scheduled!Handle(Live!Event(now, stage))
  BY DEF Live!Call
<1>2. /\ missed = {} /\ queue = Live!Queue /\ slice = Live!Slice /\ tally = Live!Tally
      /\ missed' = {} /\ queue' = Live!Queue' /\ slice' = Live!Slice'
      /\ tally' = Live!Tally'
  BY DEF LiveMapped, Follows
<1>3. /\ now \in Live!Turns /\ now \in Nat /\ (first => now = 0)
      /\ stage = "ScenarioStart" => first
  BY TurnsAreTimes DEF LiveStages
<1>4. /\ stage \in EventKinds /\ stage # "Turn"
      /\ stage' \in Live!Stages \ {"Turn", "ScenarioStart"}
      /\ stage \in Live!Left[stage] /\ Live!Left[stage] \subseteq EventKinds
      /\ \A kind \in Live!Left[stage] : Phase[stage] <= Phase[kind]
      /\ Live!Left[stage'] = Live!Left[stage] \ {stage}
  BY <1>1, StageOrder
<1>5. Live!Begun /\ Live!Begun' /\ Live!Plan' = Live!Plan
  BY <1>1, <1>4 DEF Live!Begun, Live!Plan, Live!Turns, Live!Event, Live!Handlers
<1> DEFINE e == Event(now, stage)
<1>6. /\ slice = {Event(now, kind) : kind \in Live!Left[stage]}
      /\ slice' = {Event(now, kind) : kind \in Live!Left[stage']}
  BY <1>1, <1>2 DEF Live!Slice, Live!Left, Live!Stages, Live!Handlers, Live!Event,
    Event
<1>7. \A kind, other : Event(now, kind) = Event(now, other) <=> kind = other
  BY DEF Event
<1>8. e \in slice /\ slice' = slice \ {e}
  BY <1>4, <1>6, <1>7
<1>9. \A other \in slice : Phase[e.kind] <= Phase[other.kind]
  BY <1>4, <1>6 DEF Event
<1>10. queue' = queue
  BY <1>1, <1>2, <1>5 DEF Live!Queue
<1>11. e \in Live!Plan /\ e \notin queue /\ e.kind = stage
  <2>1. stage \in Live!Handlers \/ (stage = "ScenarioStart" /\ now = 0)
    BY <1>1, <1>3 DEF Live!Following
  <2>2. e \in Live!Plan
    BY <1>3, <2>1, MemberOfPlan
  <2>3. e.at = now /\ e.kind = stage
    BY DEF Event
  <2>4. ~(now > now \/ ~Live!Begun)
    BY <1>3, <1>5
  <2> QED
    BY <1>2, <2>2, <2>3, <2>4 DEF Live!Queue
<1> DEFINE Seen(kind) == {f \in Live!Plan \ (queue \cup slice) : f.kind = kind}
<1>12. /\ \A kind : Live!Done(kind) = Cardinality(Seen(kind))
       /\ \A kind : Live!Done(kind)' =
            Cardinality({f \in Live!Plan \ (queue \cup slice') : f.kind = kind})
  BY <1>2, <1>5, <1>10, SameCount DEF Live!Done
<1>13. \A kind : Live!Done(kind)' = Live!Done(kind) + IF kind = stage THEN 1 ELSE 0
  <2> SUFFICES ASSUME NEW kind
               PROVE  Live!Done(kind)' =
                        Live!Done(kind) + IF kind = stage THEN 1 ELSE 0
    OBVIOUS
  <2>1. IsFiniteSet(Seen(kind)) /\ Cardinality(Seen(kind)) \in Nat
    BY LivePlan, FS_Subset, FS_CardinalityType
  <2>2. CASE kind = stage
    <3>1. /\ {f \in Live!Plan \ (queue \cup slice') : f.kind = kind}
               = Seen(kind) \cup {e}
          /\ e \notin Seen(kind)
      BY <1>8, <1>11, <2>2
    <3>2. Cardinality(Seen(kind) \cup {e}) = Cardinality(Seen(kind)) + 1
      BY <2>1, <3>1, FS_AddElement
    <3> QED
      BY <1>12, <2>2, <3>1, <3>2
  <2>3. CASE kind # stage
    <3>1. {f \in Live!Plan \ (queue \cup slice') : f.kind = kind} = Seen(kind)
      BY <1>8, <1>11, <2>3
    <3> QED
      BY <1>12, <2>1, <2>3, <3>1
  <2> QED
    BY <2>2, <2>3
<1>14. tally' = [tally EXCEPT ![e.kind] = @ + 1]
  <2>1. /\ tally = [c \in Counters |-> tally[c]]
        /\ tally' = [c \in Counters |-> tally'[c]]
    BY <1>2, CountersHold DEF LiveCounters, Counters
  <2>2. /\ tally'["TimeSlice"] = tally["TimeSlice"]
        /\ tally'["TimeAdvance"] = tally["TimeAdvance"]
    <3>1. Live!Slices' = Live!Slices
      BY <1>1, <1>5 DEF Live!Slices
    <3> QED
      BY <1>2, <1>5, <3>1, CountersHold DEF LiveCounters
  <2>3. \A kind \in EventKinds :
          /\ tally[kind] = Live!Done(kind)
          /\ tally'[kind] = tally[kind] + IF kind = stage THEN 1 ELSE 0
    BY <1>2, <1>13, CountersHold DEF LiveCounters
  <2>4. \A kind \in EventKinds \ {stage} : tally'[kind] = tally[kind]
    <3> SUFFICES ASSUME NEW kind \in EventKinds \ {stage}
                 PROVE  tally'[kind] = tally[kind]
      OBVIOUS
    <3>1. Live!Done(kind) \in Nat
      BY <1>12, LivePlan, FS_Subset, FS_CardinalityType
    <3> QED
      BY <2>3, <3>1
  <2>5. tally'[stage] = tally[stage] + 1 /\ stage \in Counters
        /\ stage \notin {"TimeSlice", "TimeAdvance"}
    BY <1>4, <2>3 DEF Counters, EventKinds
  <2> QED
    BY <1>11, <2>1, <2>2, <2>4, <2>5 DEF Counters
<1>15. Process(e)
  BY <1>1, <1>2, <1>8, <1>9, <1>10, <1>14 DEF Process
<1>16. Handle(e)
  <2>1. Live!Event(now, stage) = e
    BY DEF Live!Event, Event
  <2> QED
    BY <1>1, <2>1, HandlersAreShared
<1>17. Dispatch
  BY <1>1, <1>8, <1>15, <1>16 DEF Dispatch
<1>18. LiveStages'
  BY <1>1, <1>3, <1>4 DEF LiveStages, Live!Turns
<1> QED
  BY <1>2, <1>17, <1>18 DEF LiveMapped

(* Writing the sample is no step of the scheduler.                         *)
LEMMA EmitIsStutter ==
  ASSUME LiveMapped, LiveStages, Live!Emit, Follows
  PROVE  UNCHANGED vars /\ LiveMapped' /\ LiveStages'
<1>1. /\ stage = "Emit" /\ stage' = "Turn" /\ first' = FALSE /\ UNCHANGED now
      /\ UNCHANGED Live!systemVars
  BY DEF Live!Emit
<1>2. /\ missed = {} /\ queue = Live!Queue /\ slice = Live!Slice /\ tally = Live!Tally
      /\ missed' = {} /\ queue' = Live!Queue' /\ slice' = Live!Slice'
      /\ tally' = Live!Tally'
  BY DEF LiveMapped, Follows
<1>3. Live!Begun /\ Live!Begun'
  BY <1>1 DEF Live!Begun
<1>4. Live!Left[stage] = {} /\ Live!Left[stage'] = {}
  BY <1>1 DEF Live!Left, Live!Stages, Live!Handlers
<1>5. queue' = queue
  BY <1>1, <1>2, <1>3 DEF Live!Queue, Live!Plan, Live!Turns, Live!Event, Live!Handlers
<1>6. slice = {} /\ slice' = {}
  <2>1. slice' = {Event(now, kind) : kind \in Live!Left[stage']}
    BY <1>1, <1>2 DEF Live!Slice, Live!Left, Live!Stages, Live!Handlers, Live!Event,
      Event
  <2> QED
    BY <1>2, <1>4, <2>1 DEF Live!Slice
<1>7. tally' = tally
  <2>1. \A kind : Live!Done(kind)' = Live!Done(kind)
    BY <1>2, <1>5, <1>6 DEF Live!Done, Live!Plan, Live!Turns, Live!Event, Live!Handlers
  <2>2. Live!Slices' = Live!Slices
    BY <1>1, <1>3 DEF Live!Slices
  <2>3. /\ tally = [c \in Counters |-> tally[c]]
        /\ tally' = [c \in Counters |-> tally'[c]]
    BY <1>2, CountersHold DEF LiveCounters, Counters
  <2>4. \A c \in Counters : tally'[c] = tally[c]
    BY <1>2, <1>3, <2>1, <2>2, CountersHold DEF LiveCounters, Counters
  <2> QED
    BY <2>3, <2>4
<1>8. LiveStages'
  BY <1>1 DEF LiveStages, Live!Stages, Live!Turns
<1> QED
  BY <1>1, <1>2, <1>5, <1>6, <1>7, <1>8 DEF LiveMapped, Live!systemVars, vars,
    schedulerVars, runtimeVars, monitorVars, handoverVars
---------------------------------------------------------------------------
(* The three drivers of the checked run.                                   *)
LEMMA DriversInit == MCInit => Init /\ LiveInv
<1> SUFFICES ASSUME MCInit PROVE Init /\ LiveInv
  OBVIOUS
<1>1. /\ Live!LiveInit /\ SystemInit
      /\ IF driver = "scheduled" THEN SchedulerInit ELSE FollowsAtFirst
  BY DEF MCInit
<1>2. CASE driver = "scheduled"
  BY <1>1, <1>2 DEF Init, LiveInv
<1>3. CASE driver # "scheduled"
  BY <1>1, <1>3, LiveInit DEF Init, LiveInv
<1> QED
  BY <1>2, <1>3

(* A step of either driver is a step of the system and keeps LiveInv.      *)
LEMMA DriversNext == LiveInv /\ [MCNext]_mcVars => [Next]_vars /\ LiveInv'
<1> SUFFICES ASSUME LiveInv, [MCNext]_mcVars PROVE [Next]_vars /\ LiveInv'
  OBVIOUS
<1>1. CASE driver = "noop" /\ UNCHANGED driver /\ UNCHANGED vars
  BY <1>1 DEF LiveInv
<1>2. CASE driver = "scheduled" /\ UNCHANGED driver /\ Next
  BY <1>2 DEF LiveInv
<1>3. CASE driver = "live" /\ UNCHANGED driver /\ Live!Next /\ Follows
  <2>1. LiveMapped /\ LiveStages
    BY <1>3 DEF LiveInv
  <2>2. CASE Live!BeginTurn
    BY <1>3, <2>1, <2>2, BeginTurnIsAdvance DEF Next, LiveInv
  <2>3. CASE Live!Call
    BY <1>3, <2>1, <2>3, CallIsDispatch DEF Next, LiveInv
  <2>4. CASE Live!Emit
    BY <1>3, <2>1, <2>4, EmitIsStutter DEF LiveInv
  <2> QED
    BY <1>3, <2>2, <2>3, <2>4 DEF Live!Next
<1>4. CASE UNCHANGED mcVars
  <2>1. UNCHANGED <<driver, vars, liveOnly>>
    BY <1>4 DEF mcVars
  <2>2. /\ UNCHANGED <<missed, queue, slice, now, tally, stage, first, driver>>
    BY <2>1 DEF vars, schedulerVars, liveOnly
  <2>3. Live!Queue' = Live!Queue /\ Live!Slice' = Live!Slice /\ Live!Tally' = Live!Tally
    BY <2>2 DEF Live!Queue, Live!Slice, Live!Tally, Live!Begun, Live!Plan, Live!Turns,
      Live!Event, Live!Handlers, Live!Left, Live!Stages, Live!Done, Live!Slices
  <2>4. LiveStages => LiveStages'
    BY <2>2 DEF LiveStages, Live!Stages, Live!Turns
  <2> QED
    BY <2>1, <2>2, <2>3, <2>4 DEF LiveInv, LiveMapped
<1> QED
  BY <1>1, <1>2, <1>3, <1>4 DEF MCNext

(* Whoever drives it, the rotary system runs as under the scheduler: all   *)
(* that is proved of Spec holds of the checked run.                        *)
THEOREM DriversAreScheduled == MCSpec => Spec
BY DriversInit, DriversNext, PTL DEF MCSpec, Spec

(* LiveInv is an invariant, whichever driver runs.                         *)
LEMMA LiveInvariance == MCSpec => []LiveInv
BY DriversInit, DriversNext, PTL DEF MCSpec

(* Under the mapping a step of the scheduled system is one of RotaryLive's *)
(* copy of it.                                                             *)
LEMMA MappedInit ==
  ASSUME LiveMapped, Init
  PROVE  Live!Scheduled!Init
<1>1. Live!Scheduled!SystemInit
  BY DEF Init, SystemInit, Live!Scheduled!SystemInit, SimulationProfile,
    Live!Scheduled!SimulationProfile, SafeOffFrame, Live!Scheduled!SafeOffFrame,
    Frame, Live!Scheduled!Frame, Runtime!Configure, Live!Scheduled!Runtime!Configure,
    Runtime!ResetHistory, Live!Scheduled!Runtime!ResetHistory, Runtime!Gate,
    Live!Scheduled!Runtime!Gate, Runtime!NewGate, Live!Scheduled!Runtime!NewGate,
    Runtime!Ready, Live!Scheduled!Runtime!Ready, Runtime!WithoutToken,
    Live!Scheduled!Runtime!WithoutToken, Runtime!Result,
    Live!Scheduled!Runtime!Result
<1>2. /\ missed = {} /\ queue = Live!Queue /\ slice = Live!Slice /\ tally = Live!Tally
      /\ missed \in ValidMisses /\ queue = Schedule(missed) /\ slice = {} /\ now = 0
      /\ tally = [c \in Counters |-> 0]
  BY DEF LiveMapped, Init, SchedulerInit
<1>3. /\ Live!Scheduled!ValidMisses = ValidMisses
      /\ Live!Scheduled!Schedule({}) = Schedule({})
      /\ Live!Scheduled!Counters = Counters
  BY DEF ValidMisses, Live!Scheduled!ValidMisses, Grid, Live!Scheduled!Grid,
    Schedule, Live!Scheduled!Schedule, Events, Live!Scheduled!Events, Event,
    Live!Scheduled!Event, Counters, Live!Scheduled!Counters, EventKinds,
    Live!Scheduled!EventKinds
<1>4. Live!Scheduled!SchedulerInit
  BY <1>2, <1>3 DEF Live!Scheduled!SchedulerInit
<1> QED
  BY <1>1, <1>4 DEF Live!Scheduled!Init

(* A step of the system on the mapped queue is a step of the scheduled     *)
(* run.                                                                    *)
LEMMA MappedNext ==
  ASSUME LiveMapped, LiveMapped', Next
  PROVE  Live!Scheduled!Next
<1>1. /\ missed = {} /\ queue = Live!Queue /\ slice = Live!Slice /\ tally = Live!Tally
      /\ missed' = {} /\ queue' = Live!Queue' /\ slice' = Live!Slice'
      /\ tally' = Live!Tally'
  BY DEF LiveMapped
<1>2. ASSUME Advance PROVE Live!Scheduled!Advance
  <2>1. NextSlice /\ ~aborted
    BY <1>2 DEF Advance
  <2>2. Live!Scheduled!NextSlice
    BY <1>1, <2>1 DEF NextSlice, Live!Scheduled!NextSlice
  <2> QED
    BY <1>2, <2>2 DEF Advance, Live!Scheduled!Advance, runtimeVars, monitorVars,
      handoverVars, Live!Scheduled!runtimeVars, Live!Scheduled!monitorVars,
      Live!Scheduled!handoverVars
<1>3. ASSUME Dispatch PROVE Live!Scheduled!Dispatch
  <2>1. PICK e \in slice : ~aborted /\ Process(e) /\ Handle(e)
    BY <1>3 DEF Dispatch
  <2>2. Live!Scheduled!Phase = Phase
    BY DEF Phase, Live!Scheduled!Phase, EventKinds, Live!Scheduled!EventKinds
  <2>3. Live!Scheduled!Process(e)
    BY <1>1, <2>1, <2>2 DEF Process, Live!Scheduled!Process
  <2> QED
    BY <1>1, <2>1, <2>3, HandlersAreShared DEF Live!Scheduled!Dispatch
<1> QED
  BY <1>2, <1>3 DEF Next, Live!Scheduled!Next

(* The live loop of rip_sitl_live.rs implements the scheduler of           *)
(* execute_with_system on the scenario without misses, turn by slice and   *)
(* call by event.                                                          *)
THEOREM LiveIsScheduled == MCSpec => LiveImplementsScheduler
<1>1. MCInit => (driver = "live" => Live!Scheduled!Init)
  BY DriversInit, MappedInit DEF LiveInv
<1>2. LiveInv /\ LiveInv' /\ [Next]_vars /\ [MCNext]_mcVars
        => [driver = "live" => Live!Scheduled!Next]_vars
  <2> SUFFICES ASSUME LiveInv, LiveInv', Next, driver = "live", [MCNext]_mcVars
               PROVE  Live!Scheduled!Next
    OBVIOUS
  <2>1. driver' = "live"
    BY DEF MCNext, mcVars
  <2> QED
    BY <2>1, MappedNext DEF LiveInv
<1>3. MCSpec => [][driver = "live" => Live!Scheduled!Next]_vars
  BY <1>2, LiveInvariance, DriversNext, PTL DEF MCSpec
<1> QED
  BY <1>1, <1>3, PTL DEF MCSpec, LiveImplementsScheduler
---------------------------------------------------------------------------
(* The samples of the live driver.  Tokens are commands the bridge can     *)
(* hold, so a sample never mistakes a frame for an absent one.             *)
TokenInv ==
  /\ gate.last_command \in BoundedCommands
  /\ cycle.authorized \in BoundedCommands \cup {None}

(* Zero is a bounded command, and bounded commands are integers.           *)
LEMMA ZeroIsBounded == 0 \in BoundedCommands /\ BoundedCommands \subseteq Int
BY MapperAssumption DEF BoundedCommands

(* The gate lets a command through within the full duty.                   *)
LEMMA TokenIsBounded ==
  ASSUME NEW at \in Nat, GateInv, TokenInv, NEW demand \in Commands,
         ~Runtime!ConstrainFails(gate, at)
  PROVE  Runtime!Constrained(gate, demand, at) \in BoundedCommands
<1>1. /\ gate.profile.max_abs = FullDuty /\ gate.profile.slew = 2 * FullDuty
      /\ FullDuty \in Nat /\ demand \in Int
      /\ gate.last_command \in -FullDuty..FullDuty
  BY MapperAssumption, SitlAssumption DEF GateInv, SimulationProfile, BoundedCommands,
    TokenInv
<1>2. CASE gate.last_timestamp = None
  BY <1>2, ZeroIsBounded DEF Runtime!Constrained
<1>3. CASE gate.last_timestamp # None
  <2> DEFINE bounded == Runtime!BoundedMagnitude(gate, demand)
             allowance == Runtime!SlewAllowance(gate, at)
             last == gate.last_command
  <2>1. bounded \in -FullDuty..FullDuty
    BY <1>1 DEF Runtime!BoundedMagnitude, Runtime!Clamp
  <2>2. allowance \in Nat
    <3>1. gate.last_timestamp \in Nat /\ at - gate.last_timestamp \in Nat
      BY <1>3 DEF GateInv, Runtime!ConstrainFails
    <3>2. \A a, b \in Nat : a * b \in Nat
      BY SMT
    <3>3. 2 * FullDuty \in Nat
      BY <1>1
    <3> QED
      BY <1>1, <3>1, <3>2, <3>3 DEF Runtime!SlewAllowance
  <2>3. Runtime!Constrained(gate, demand, at)
          = Runtime!Clamp(bounded, last - allowance, last + allowance)
    BY <1>3 DEF Runtime!Constrained
  <2>4. last \in -FullDuty..FullDuty
    BY <1>1
  <2> HIDE DEF bounded, allowance, last
  <2>5. Runtime!Clamp(bounded, last - allowance, last + allowance)
          \in -FullDuty..FullDuty
    BY <1>1, <2>1, <2>2, <2>4 DEF Runtime!Clamp
  <2> QED
    BY <2>3, <2>5 DEF BoundedCommands
<1> QED
  BY <1>2, <1>3

(* A step of the runtime leaves a token that is bounded, or none.          *)
LEMMA FreshToken ==
  ASSUME NEW at \in Nat, NEW timing, NEW watchdog, GateInv, TokenInv,
         Runtime!StepOn(Delivered(at, timing, watchdog), at)
  PROVE  TokenInv'
<1> DEFINE obs == Delivered(at, timing, watchdog)
<1>1. obs.finite
  BY DEF Delivered
<1> HIDE DEF obs
<1>2. CASE Runtime!EstimatorFails(obs, at)
  BY <1>2 DEF Runtime!EstimatorFails, Runtime!Aborted, Runtime!WithoutToken,
    Runtime!Result, TokenInv
<1>3. CASE Runtime!Prime(obs, at)
  <2>1. /\ cycle' = Runtime!WithoutToken("Primed")
        /\ gate' = gate \/ gate' = Runtime!ResetHistory(gate)
    BY <1>3 DEF Runtime!Prime, Runtime!ReleaseAfterLoss, Runtime!ReleaseAuthority
  <2> QED
    BY <2>1, ZeroIsBounded DEF TokenInv, Runtime!ResetHistory, Runtime!Gate,
      Runtime!WithoutToken, Runtime!Result
<1>4. ASSUME NEW demand \in Commands \cup {None}
      PROVE  Runtime!ResultWithoutAuthority(obs, at, demand).authorized
               \in BoundedCommands \cup {None}
  BY SitlAssumption DEF Runtime!ResultWithoutAuthority, Runtime!WithoutToken,
    Runtime!Result
<1>5. ASSUME NEW demand \in Commands \cup {None}, Runtime!ShadowCycle(obs, at, demand)
      PROVE  TokenInv'
  <2>1. gate' = gate /\ cycle' = Runtime!ResultWithoutAuthority(obs, at, demand)
    BY <1>5 DEF Runtime!ShadowCycle
  <2> QED
    BY <1>4, <2>1 DEF TokenInv
<1>6. ASSUME NEW demand \in Commands \cup {None}, Runtime!LossCycle(obs, at, demand)
      PROVE  TokenInv'
  <2>1. /\ gate' = Runtime!ResetHistory(gate)
        /\ cycle' = Runtime!ResultWithoutAuthority(obs, at, demand)
    BY <1>6 DEF Runtime!LossCycle, Runtime!ReleaseAfterLoss, Runtime!ReleaseAuthority
  <2> QED
    BY <1>4, <2>1, ZeroIsBounded DEF TokenInv, Runtime!ResetHistory, Runtime!Gate
<1>7. ASSUME NEW demand \in Commands \cup {None}, Runtime!LiveCycle(obs, at, demand)
      PROVE  TokenInv'
  <2>1. CASE demand # None /\ Runtime!ConstrainFails(gate, at)
    BY <1>7, <2>1, ZeroIsBounded DEF Runtime!LiveCycle, Runtime!ReleaseAfterLoss,
      Runtime!ReleaseAuthority, TokenInv, Runtime!ResetHistory, Runtime!Gate,
      Runtime!WithoutToken, Runtime!Result
  <2>2. CASE demand = None
    BY <1>7, <2>2 DEF Runtime!LiveCycle, TokenInv, Runtime!WithoutToken, Runtime!Result
  <2>3. CASE demand # None /\ ~Runtime!ConstrainFails(gate, at)
    <3>1. Runtime!Constrained(gate, demand, at) \in BoundedCommands
      BY <2>3, TokenIsBounded
    <3>2. /\ gate' = Runtime!AfterConstrain(gate, demand, at)
          /\ \E token \in {Runtime!Constrained(gate, demand, at), None} :
               cycle' = Runtime!Result("Computed", at, token)
      BY <1>7, <2>3 DEF Runtime!LiveCycle
    <3> QED
      BY <3>1, <3>2 DEF TokenInv, Runtime!AfterConstrain, Runtime!Gate, Runtime!Result
  <2> QED
    BY <2>1, <2>2, <2>3
<1> QED
  BY <1>2, <1>3, <1>5, <1>6, <1>7 DEF obs, Runtime!StepOn

(* A runtime cycle under the invariant consumes a fresh observation.       *)
LEMMA CycleIsFresh ==
  ASSUME SystemInv, ~aborted, NEW e \in slice, Process(e),
         e.kind = "ProductionRuntime", ProductionRuntime(e.at)
  PROVE  /\ now \in Nat /\ e.at = now /\ GateInv
         /\ \E timing, watchdog :
              Runtime!StepOn(Delivered(now, timing, watchdog), now)
<1>1. /\ e.at = now /\ now # None /\ now \in Nat /\ now \in 0..Duration
      /\ HandoverInv /\ EstimatorInv /\ Due("ProductionRuntime")
      /\ \A kind \in EventKinds : Due(kind) => Phase[e.kind] <= Phase[kind]
  BY HandlerContext
<1>2. ~Due("ObservationDelivery")
  BY <1>1 DEF Phase, EventKinds
<1>3. PICK timing \in Runtime!TimingHealth, watchdog \in Runtime!WatchdogHealth :
        source = Delivered(now, timing, watchdog)
  BY <1>1, <1>2 DEF HandoverInv
<1>4. source # None /\ source.captured_at = now
  BY <1>1, <1>3, AbsentAssumption DEF Delivered
<1>5. Runtime!StepOn(Delivered(now, timing, watchdog), now)
  BY <1>3, <1>4 DEF ProductionRuntime, RuntimeStep
<1> QED
  BY <1>1, <1>5 DEF EstimatorInv

(* There is none at the start.                                             *)
LEMMA TokenInit == Init => TokenInv
BY ZeroIsBounded DEF Init, SystemInit, TokenInv, Runtime!Configure,
  Runtime!ResetHistory, Runtime!Gate, Runtime!NewGate, Runtime!WithoutToken,
  Runtime!Result

(* Whatever event is handled, the token stays so.                          *)
LEMMA TokenNext == SystemInv /\ TokenInv /\ [Next]_vars => TokenInv'
<1> SUFFICES ASSUME SystemInv, TokenInv, [Next]_vars PROVE TokenInv'
  OBVIOUS
<1>1. CASE UNCHANGED runtimeVars
  BY <1>1 DEF runtimeVars, TokenInv
<1>2. CASE Advance \/ UNCHANGED vars
  BY <1>1, <1>2 DEF Advance, vars
<1>3. CASE Dispatch
  <2>1. PICK e \in slice : ~aborted /\ Process(e) /\ Handle(e)
    BY <1>3 DEF Dispatch
  <2>2. CASE e.kind = "ProductionRuntime" /\ ProductionRuntime(e.at)
    <3>1. PICK timing, watchdog : Runtime!StepOn(Delivered(now, timing, watchdog), now)
      BY <2>1, <2>2, CycleIsFresh
    <3>2. now \in Nat /\ GateInv
      BY <2>1, <2>2, CycleIsFresh
    <3> QED
      BY <3>1, <3>2, FreshToken
  <2>3. CASE ~(e.kind = "ProductionRuntime" /\ ProductionRuntime(e.at))
    BY <1>1, <2>1, <2>3 DEF Handle, Idle, SensorSample, ObservationDelivery,
      ActuationCommit
  <2> QED
    BY <2>2, <2>3
<1> QED
  BY <1>2, <1>3 DEF Next

(* Tokens are bounded in every run.                                        *)
LEMMA TokenInvariance == Spec => []TokenInv
BY SystemInvariance, TokenInit, TokenNext, PTL DEF Spec

(* What the turn has merged so far is of the turn.                         *)
MergeInv ==
  driver = "live" =>
    /\ plant_at = now
    /\ stage = "Turn" => last_at = now
    /\ stage # "Turn" => merged.estimated_at \in {None, now}
    /\ stage = "ActuationCommit" => merged.token = cycle.authorized
    /\ stage = "Emit" => /\ merged.true_at = now
                         /\ merged.applied = MotorOf(merged.token)
                         /\ merged.token \in BoundedCommands \cup {None}
    /\ Live!SampleIsOneInstant

(* Both drivers map commands to the same frames.                           *)
LEMMA FramesAreShared ==
  /\ Live!Scheduled!SafeOffFrame = SafeOffFrame
  /\ \A command : Live!Scheduled!MapCommand(command) = MapCommand(command)
BY DEF SafeOffFrame, Live!Scheduled!SafeOffFrame, Frame, Live!Scheduled!Frame,
  MapCommand, Live!Scheduled!MapCommand

(* What the motor is given for a token is a frame.                         *)
LEMMA MotorIsAFrame ==
  ASSUME NEW token \in BoundedCommands \cup {None}
  PROVE  MotorOf(token) # None
<1>1. MotorOf(token) \in Frames
  BY MapperAssumption DEF MotorOf, MapCommand, SafeOffFrame, Frame, Frames, BridgeModes,
    BoundedCommands
<1> QED
  BY <1>1, AbsentAssumption

(* The live loop starts with nothing merged.                               *)
LEMMA MergeInit == MCInit => MergeInv
<1> SUFFICES ASSUME MCInit PROVE MergeInv
  OBVIOUS
<1>1. stage = "Turn" /\ plant_at = 0 /\ now = 0 /\ last_at = 0 /\ emitted = None
  BY DEF MCInit, Live!LiveInit
<1> QED
  BY <1>1 DEF MergeInv, Live!SampleIsOneInstant

(* A turn begins with nothing merged and the plant at its time.            *)
LEMMA MergeBegin ==
  ASSUME LiveStages, MergeInv, driver = "live", Live!BeginTurn, UNCHANGED driver
  PROVE  MergeInv'
<1>1. /\ plant_at = now /\ last_at = now /\ now \in Nat
      /\ now' \in Live!Turns /\ plant_at' = plant_at + (now' - last_at)
      /\ stage' \in {"ScenarioStart", "SensorSample"}
      /\ merged' = Live!NothingMerged /\ UNCHANGED emitted
  BY TurnsAreTimes DEF Live!BeginTurn, MergeInv, LiveStages
<1>2. plant_at' = now'
  <2>1. now' \in Nat
    BY <1>1, TurnsAreTimes
  <2>2. now \in Nat /\ plant_at' = now + (now' - now)
    BY <1>1
  <2>3. \A a, b \in Nat : a + (b - a) = b
    OBVIOUS
  <2> QED
    BY <2>1, <2>2, <2>3
<1>3. Live!SampleIsOneInstant'
  BY <1>1 DEF MergeInv, Live!SampleIsOneInstant
<1>4. merged'.estimated_at = None
  BY <1>1 DEF Live!NothingMerged
<1>5. stage' \notin {"Turn", "ActuationCommit", "Emit"}
  BY <1>1
<1> QED
  BY <1>2, <1>3, <1>4, <1>5 DEF MergeInv

(* Each handler call merges only what belongs to this turn.                *)
LEMMA MergeCall ==
  ASSUME LiveMapped, LiveStages, SystemInv, SystemInv', TokenInv, MergeInv,
         driver = "live", Live!Call, UNCHANGED driver
  PROVE  MergeInv'
<1>1. /\ stage \in DOMAIN Live!Following /\ ~aborted
      /\ stage' = Live!Following[stage] /\ UNCHANGED <<now, plant_at, emitted>>
      /\ merged' = Live!Merge(stage)
      /\ Live!Scheduled!Handle(Live!Event(now, stage))
  BY DEF Live!Call
<1>2. stage # "Turn" /\ stage' # "Turn"
  BY <1>1, StageOrder
<1>3. /\ plant_at = now /\ merged.estimated_at \in {None, now}
      /\ stage = "ActuationCommit" => merged.token = cycle.authorized
      /\ Live!SampleIsOneInstant
  BY <1>2 DEF MergeInv
<1>4. Handle(Event(now, stage))
  <2>1. Live!Event(now, stage) = Event(now, stage)
    BY DEF Live!Event, Event
  <2> QED
    BY <1>1, <2>1, HandlersAreShared
<1>5. merged'.estimated_at \in {None, now}
  <2>1. CASE stage = "ProductionRuntime" /\ cycle'.kind = "Computed"
    <3>1. ProductionRuntime(now)
      BY <1>4, <2>1 DEF Handle, Idle, Event
    <3>2. cycle'.kind \notin Runtime!Failures
      BY <2>1 DEF Runtime!Failures
    <3>3. ~aborted'
      BY <3>1, <3>2 DEF ProductionRuntime
    <3>4. last_kick' = now
      BY <3>1, <3>3 DEF ProductionRuntime
    <3>5. cycle'.at = last_kick'
      BY <2>1 DEF SystemInv, CycleInv
    <3> QED
      BY <1>1, <2>1, <3>4, <3>5 DEF Live!Merge
  <2>2. CASE ~(stage = "ProductionRuntime" /\ cycle'.kind = "Computed")
    BY <1>1, <1>3, <2>2 DEF Live!Merge
  <2> QED
    BY <2>1, <2>2
<1>6. ASSUME stage' = "ActuationCommit" PROVE merged'.token = cycle'.authorized
  <2>1. stage = "ProductionRuntime"
    BY <1>1, <1>6 DEF Live!Following, Live!Handlers
  <2> QED
    BY <1>1, <2>1 DEF Live!Merge
<1>7. ASSUME stage' = "Emit"
      PROVE  /\ merged'.true_at = now
             /\ merged'.applied = MotorOf(merged'.token)
             /\ merged'.token \in BoundedCommands \cup {None}
  <2>1. stage = "ActuationCommit"
    BY <1>1, <1>7 DEF Live!Following, Live!Handlers
  <2>2. ActuationCommit
    BY <1>4, <2>1 DEF Handle, Idle, Event
  <2>3. slice = {Event(now, "ActuationCommit")}
    BY <2>1 DEF LiveMapped, Live!Slice, Live!Left, Live!Stages, Live!Handlers,
      Live!Event, Event
  <2>4. Due("ActuationCommit") /\ ~Due("ProductionRuntime")
    BY <2>3 DEF Due, Event
  <2>5. pending_authorized = cycle.authorized
    BY <1>1, <2>4 DEF SystemInv, MotorInv
  <2>6. merged'.token = cycle.authorized /\ merged'.applied = actuator'
        /\ merged'.true_at = now
    BY <1>1, <1>3, <2>1 DEF Live!Merge
  <2>7. actuator' = MotorOf(cycle.authorized)
    BY <2>2, <2>5 DEF ActuationCommit, MotorOf
  <2> QED
    BY <2>6, <2>7 DEF TokenInv
<1>8. Live!SampleIsOneInstant'
  BY <1>1, <1>3 DEF Live!SampleIsOneInstant
<1>9. MotorOf(merged'.token) = MotorOf(merged.token)'
  BY DEF MotorOf
<1> QED
  BY <1>1, <1>2, <1>3, <1>5, <1>6, <1>7, <1>8, <1>9 DEF MergeInv

(* What is emitted is what was merged.                                     *)
LEMMA MergeEmit ==
  ASSUME MergeInv, driver = "live", Live!Emit, UNCHANGED driver
  PROVE  MergeInv'
<1>1. /\ stage = "Emit" /\ stage' = "Turn" /\ last_at' = now
      /\ emitted' = Live!ViewerSample /\ UNCHANGED <<now, plant_at>>
  BY DEF Live!Emit
<1>2. /\ plant_at = now /\ merged.estimated_at \in {None, now} /\ merged.true_at = now
      /\ merged.applied = MotorOf(merged.token)
      /\ merged.token \in BoundedCommands \cup {None}
  BY <1>1 DEF MergeInv
<1>3. merged.applied # None
  BY <1>2, MotorIsAFrame
<1>4. /\ emitted'.at = now /\ emitted'.true_at = now
      /\ emitted'.estimated_at \in {None, now}
      /\ emitted'.applied = MotorOf(emitted'.token)
  BY <1>1, <1>2, <1>3 DEF Live!ViewerSample
<1>5. Live!SampleIsOneInstant'
  BY <1>4, FramesAreShared DEF Live!SampleIsOneInstant, MotorOf
<1> QED
  BY <1>1, <1>2, <1>5 DEF MergeInv

(* So every step keeps the merged sample one of a single turn.             *)
LEMMA MergeNext ==
  LiveInv /\ SystemInv /\ SystemInv' /\ TokenInv /\ MergeInv /\ [MCNext]_mcVars
    => MergeInv'
<1> SUFFICES ASSUME LiveInv, SystemInv, SystemInv', TokenInv, MergeInv,
                    [MCNext]_mcVars
             PROVE  MergeInv'
  OBVIOUS
<1>1. CASE driver # "live"
  BY <1>1 DEF MCNext, mcVars, MergeInv
<1>2. CASE driver = "live"
  <2>1. CASE UNCHANGED mcVars
    BY <1>2, <2>1 DEF MergeInv, mcVars, vars, schedulerVars, runtimeVars, liveOnly,
      Live!SampleIsOneInstant, MotorOf
  <2>2. CASE MCNext
    <3>1. Live!Next /\ UNCHANGED driver
      BY <1>2, <2>2 DEF MCNext
    <3>2. LiveMapped /\ LiveStages
      BY <1>2 DEF LiveInv
    <3> QED
      BY <1>2, <3>1, <3>2, MergeBegin, MergeCall, MergeEmit DEF Live!Next
  <2> QED
    BY <2>1, <2>2
<1> QED
  BY <1>1, <1>2

(* Every sample of the live viewer is of one instant: the plant, the       *)
(* estimate and the torque it reports belong to its own time and cycle     *)
(* (viewer_sample of rip_sitl_live.rs).                                    *)
THEOREM SamplesAreOfOneInstant == MCSpec => []SampleIsOneInstant
<1>1. MCSpec => [](SystemInv /\ TokenInv /\ LiveInv)
  BY DriversAreScheduled, SystemInvariance, TokenInvariance, LiveInvariance, PTL
<1>2. MCSpec => []MergeInv
  BY <1>1, MergeInit, MergeNext, PTL DEF MCSpec
<1>3. MergeInv => SampleIsOneInstant
  BY DEF MergeInv, SampleIsOneInstant
<1> QED
  BY <1>2, <1>3, PTL
---------------------------------------------------------------------------
(* The verdicts of the scheduled runs.  The no-op run is the scheduler on  *)
(* the parameters MCSitl gives it, so the theorems about the scheduler     *)
(* are taken at those values.                                              *)
NoopProofs == INSTANCE SitlScheduler_proofs WITH
  Duration <- 7, SensorPeriod <- 3, RuntimePeriod <- 2,
  missed <- noop_missed, queue <- noop_queue, slice <- noop_slice,
  now <- noop_now, tally <- noop_tally

(* The scheduled run with idle handlers is one of SitlScheduler's, so its  *)
(* verdict is a pass.                                                      *)
LEMMA NoopRunsPass == MCSpec => []Noop!CompletedRunPasses
<1>1. MCInit => NoopProofs!SchedulerInit
  BY DEF MCInit, Noop!SchedulerInit, NoopProofs!SchedulerInit, Noop!ValidMisses,
    NoopProofs!ValidMisses, Noop!Grid, NoopProofs!Grid, Noop!Schedule,
    NoopProofs!Schedule, Noop!Events, NoopProofs!Events, Noop!Event,
    NoopProofs!Event, Noop!Counters, NoopProofs!Counters, Noop!EventKinds,
    NoopProofs!EventKinds
<1>2. [MCNext]_mcVars
        => [NoopProofs!NextSlice \/ \E e \in noop_slice : NoopProofs!Process(e)]_(
              NoopProofs!schedulerVars)
  <2> SUFFICES ASSUME [MCNext]_mcVars
               PROVE  \/ NoopProofs!NextSlice
                      \/ \E e \in noop_slice : NoopProofs!Process(e)
                      \/ UNCHANGED noopVars
    BY DEF noopVars, NoopProofs!schedulerVars
  <2>1. CASE NoopNext
    <3>1. CASE Noop!NextSlice
      BY <3>1 DEF Noop!NextSlice, NoopProofs!NextSlice
    <3>2. ASSUME NEW e \in noop_slice, Noop!Process(e) PROVE NoopProofs!Process(e)
      BY <3>2 DEF Noop!Process, NoopProofs!Process, Noop!Phase, NoopProofs!Phase,
        Noop!EventKinds, NoopProofs!EventKinds
    <3> QED
      BY <2>1, <3>1, <3>2 DEF NoopNext
  <2>2. CASE UNCHANGED noopVars
    BY <2>2
  <2> QED
    BY <2>1, <2>2 DEF MCNext, mcVars
<1>3. MCSpec => NoopProofs!NoopSpec
  BY <1>1, <1>2, PTL DEF MCSpec, NoopProofs!NoopSpec
<1>4. NoopProofs!NoopSpec => []NoopProofs!CompletedRunPasses
  <2>1. 7 \in Nat /\ 3 \in Nat \ {0} /\ 2 \in Nat \ {0}
    OBVIOUS
  <2> QED
    BY <2>1, NoopProofs!CompletedRunsPass
<1>5. NoopProofs!CompletedRunPasses <=> Noop!CompletedRunPasses
  BY DEF NoopProofs!CompletedRunPasses, Noop!CompletedRunPasses,
    NoopProofs!Finished, Noop!Finished, NoopProofs!Pass, Noop!Pass,
    NoopProofs!PeriodicCount, Noop!PeriodicCount
<1> QED
  BY <1>3, <1>4, <1>5, PTL

(* Every completed run of the scheduler passes its own verdict, with the   *)
(* no-op system on the checked periods, and with the rotary system on any. *)
THEOREM RunsPass == MCSpec => []EveryRunPasses
<1> DEFINE Counted == driver = "scheduled" => FrontierInv /\ CountInv
<1>1. MCInit => Counted
  BY FrontierInit, CountInit DEF MCInit
<1>2. Counted /\ [MCNext]_mcVars => Counted'
  <2> SUFFICES ASSUME FrontierInv, CountInv, driver = "scheduled", [MCNext]_mcVars
               PROVE  FrontierInv' /\ CountInv'
    BY DEF MCNext, mcVars
  <2>1. CASE UNCHANGED schedulerVars
    BY <2>1, SchedulerStutter
  <2>2. CASE Next
    <3>1. NextSlice \/ \E e \in slice : Process(e)
      BY <2>2 DEF Next, Advance, Dispatch
    <3> QED
      BY <3>1, SchedulerStep
  <2> QED
    BY <2>1, <2>2 DEF MCNext, mcVars, vars
<1>3. Counted => (driver = "scheduled" => CompletedRunPasses)
  BY FinishedPasses
<1>4. MCSpec => []Counted
  BY <1>1, <1>2, PTL DEF MCSpec
<1> QED
  BY <1>3, <1>4, NoopRunsPass, PTL DEF EveryRunPasses
=============================================================================
