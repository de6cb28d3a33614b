----------------------------- MODULE ShadowTiming -----------------------------
(***************************************************************************)
(* stm32f103/src/main.rs: when the shadow loop runs and what it says about *)
(* that, through recording/timing-evidence, the supervisor's timing        *)
(* monitor and the control watchdog.  One action is one pass of the loop.  *)
(* Time is counted in ticks of MonoTimer from the start of TIM1; the       *)
(* loop's own clock is the timebase, which reads the timer twice per call  *)
(* and loses the ticks in between.  How long the parts of a pass take is   *)
(* the environment's choice, and so is whether the ADC read or the step    *)
(* fails.  The measurement's quality flags are constant, so the adapter    *)
(* accepts every sample.                                                   *)
(***************************************************************************)
EXTENDS RuntimePolicy

CONSTANTS
  TicksPerUs,
  TickPeriod,                    \* timer ticks per TIM1 update
  LostTicks,                     \* ticks a timebase reading may lose
  AcquireTimes, StepTimes, BackgroundTimes,   \* durations, in timer ticks
  LateAfter, TimeoutAfter, WatchdogAfter,     \* microseconds
  TimingHorizon                  \* bound on time

ASSUME TimingAssumption ==
  /\ TicksPerUs \in Nat \ {0}
  /\ TickPeriod \in Nat \ {0} /\ TickPeriod % TicksPerUs = 0
  /\ AcquireTimes \cup StepTimes \cup BackgroundTimes \cup LostTicks \subseteq Nat
  /\ {LateAfter, TimeoutAfter, WatchdogAfter} \subseteq Nat \ {0}
  /\ LateAfter < TimeoutAfter
  /\ None \notin [at : Int, readings : Int] \cup [time : Int, readings : Int]
  /\ None \notin [timing : TimingHealth, watchdog : WatchdogHealth]

ExpectedPeriod == TickPeriod \div TicksPerUs
SupervisorLimits == [late |-> LateAfter, timeout |-> TimeoutAfter]

VARIABLES
  loop_clock,     \* true time at which the loop is back at the wait
  update,         \* number of the TIM1 update whose flag was last taken
  lost_ticks,     \* what each reading of the timebase loses in this build
  timebase,       \* MicrosecondTimebase
  evidence,       \* the TIMING_* counters, and last_admitted_at_us
  last_event,     \* SensorTimingMonitor::last_event_at_us
  last_kick,      \* ControlWatchdog::last_kick_us
  published,      \* health verdicts of the last published sample, or None
  good, success,  \* history: true time of the last sample and of the last
                  \* completed step, with the timebase readings until then
  sample_gap, step_gap   \* history: what the published verdicts are about

historyVars == <<good, success, sample_gap, step_gap>>
timingVars ==
  <<loop_clock, update, lost_ticks, timebase, evidence, last_event, last_kick,
    published, historyVars>>

TimingInit ==
  /\ loop_clock = 0
  /\ update = 0
  /\ lost_ticks \in LostTicks
  /\ timebase = [last |-> 0, remainder |-> 0, elapsed_us |-> 0]
  /\ evidence =
       [admissions |-> 0, last_admitted |-> None, max_phase |-> 0, missed |-> 0,
        overruns |-> 0, late |-> 0, timeouts |-> 0, adc_errors |-> 0,
        runtime_errors |-> 0]
  /\ last_event = None /\ last_kick = None
  /\ published = None
  /\ good = None /\ success = None
  /\ sample_gap = None /\ step_gap = None
---------------------------------------------------------------------------
(* MicrosecondTimebase::now at true time t.                                *)
Now(base, t) ==
  LET total == base.remainder + (t - base.last)
  IN  [last |-> t + lost_ticks,
       remainder |-> total % TicksPerUs,
       elapsed_us |-> base.elapsed_us + total \div TicksPerUs]

Largest(x, y) == IF x > y THEN x ELSE y

(* The periods a recorded interval stands for, to the nearest one.         *)
(* Mutant: rounded down.                                                   *)
ObservedPeriods_Floor(period_us) == Largest(1, period_us \div ExpectedPeriod)

ObservedPeriods(period_us) ==
  Largest(1, (period_us + ExpectedPeriod \div 2) \div ExpectedPeriod)

ObserveAdmission(e, admitted_at, phase) ==
  [e EXCEPT !.admissions = @ + 1,
            !.max_phase = Largest(@, phase),
            !.missed = @ + IF e.last_admitted = None THEN 0
                           ELSE ObservedPeriods(SaturatingSub(admitted_at, e.last_admitted)) - 1,
            !.last_admitted = admitted_at]

ObserveHealth(e, timing) ==
  [e EXCEPT !.late = @ + IF timing = "Late" THEN 1 ELSE 0,
            !.timeouts = @ + IF timing = "Timeout" THEN 1 ELSE 0]

FinishCycle(e, elapsed) ==
  [e EXCEPT !.overruns =
     @ + IF (elapsed + TicksPerUs - 1) \div TicksPerUs > ExpectedPeriod THEN 1 ELSE 0]

(* control_tick.wait: the update flag stays set until it is taken, and     *)
(* several updates leave it set once.                                      *)
NextUpdateAt == (update + 1) * TickPeriod
AdmissionTime == Largest(loop_clock, NextUpdateAt)

TakeUpdate ==
  /\ AdmissionTime <= TimingHorizon
  /\ update' = AdmissionTime \div TickPeriod

Admitted(base) ==
  ObserveAdmission(evidence, base.elapsed_us,
                   (AdmissionTime % TickPeriod) \div TicksPerUs)

(* A failed ADC read ends the pass; the hardware watchdog is still fed.    *)
AdcError(acquire) ==
  LET base == Now(timebase, AdmissionTime)
      read_at == base.last + acquire
  IN  /\ TakeUpdate
      /\ timebase' = base
      /\ evidence' =
           FinishCycle([Admitted(base) EXCEPT !.adc_errors = @ + 1],
                       read_at - AdmissionTime)
      /\ loop_clock' = read_at
      /\ UNCHANGED <<lost_ticks, last_event, last_kick, published, historyVars>>

(* Sample, publish the verdicts on the past, step, and kick on success.    *)
(* Mutant: a failed step kicks too.                                        *)
Kick_Always(succeeds, captured_at) == captured_at

Kick(succeeds, captured_at) == IF succeeds THEN captured_at ELSE last_kick

(* Readings of the timebase so far: two per sample, one per failed read.   *)
Readings == 2 * evidence.admissions - evidence.adc_errors

Gap(then, here) ==
  IF then = None THEN None
  ELSE [time |-> here.at - then.at, readings |-> here.readings - then.readings]

SamplePass(acquire, step, background, succeeds) ==
  LET entry == Now(timebase, AdmissionTime)
      read_at == entry.last + acquire
      base == Now(entry, read_at)
      captured_at == base.elapsed_us
      timing == OnEvent(SupervisorLimits, last_event, captured_at)
      here == [at |-> read_at, readings |-> Readings + 2]
  IN  /\ TakeUpdate
      /\ timebase' = base
      /\ evidence' =
           FinishCycle(
             ObserveHealth([Admitted(entry) EXCEPT
                              !.runtime_errors = @ + IF succeeds THEN 0 ELSE 1], timing),
             base.last + step - AdmissionTime)
      /\ last_event' = captured_at
      /\ published' = [timing |-> timing,
                       watchdog |-> WatchdogVerdict(WatchdogAfter, last_kick, captured_at)]
      /\ last_kick' = Kick(succeeds, captured_at)
      /\ sample_gap' = Gap(good, here)
      /\ step_gap' = Gap(success, here)
      /\ good' = here
      /\ success' = IF succeeds THEN here ELSE success
      /\ loop_clock' = base.last + step + background
      /\ UNCHANGED lost_ticks

TimingNext ==
  \E acquire \in AcquireTimes :
    \/ AdcError(acquire)
    \/ \E step \in StepTimes, background \in BackgroundTimes, succeeds \in BOOLEAN :
         SamplePass(acquire, step, background, succeeds)

TimingSpec == TimingInit /\ [][TimingNext]_timingVars
---------------------------------------------------------------------------
(* The evidence infers missed updates from its own clock.  As long as the  *)
(* largest phase it has recorded, with the microsecond it is rounded by    *)
(* and the ticks the timebase lost, stays under half a period, it has      *)
(* every update: those admitted and those inferred as missed make up all   *)
(* that TIM1 raised until the last admission.                              *)
EvidenceIsSharp ==
  2 * ((evidence.max_phase + 2) * TicksPerUs + 2 * lost_ticks) <= TickPeriod

MissedIsExact ==
  EvidenceIsSharp => evidence.admissions + evidence.missed = update

(* The published verdicts are about the true time since the last sample    *)
(* and since the last completed step, whatever failed in between: the      *)
(* timebase never raises a false alarm, by more than its rounding, and     *)
(* never hides more than the rounding and the ticks its readings lost.     *)
AtLeast(gap, us) == gap.time > (us - 1) * TicksPerUs
AtMost(gap, us) == gap.time < (us + 1) * TicksPerUs + lost_ticks * gap.readings

HealthIsHonest ==
  published # None =>
    /\ (published.timing = "Startup") = (sample_gap = None)
    /\ published.timing = "Healthy" => AtMost(sample_gap, LateAfter)
    /\ published.timing = "Late" =>
         AtLeast(sample_gap, LateAfter) /\ AtMost(sample_gap, TimeoutAfter)
    /\ published.timing = "Timeout" => AtLeast(sample_gap, TimeoutAfter)
    /\ (published.watchdog = "Disarmed") = (step_gap = None)
    /\ published.watchdog = "Healthy" => AtMost(step_gap, WatchdogAfter)
    /\ published.watchdog = "Expired" => AtLeast(step_gap, WatchdogAfter + 1)
=============================================================================
