# Verification of the rotary inverted pendulum

TLA+ models of this repository's supervisor (the Rust runtime and its C++ port),
hybrid controller, motor output, simulator with both of its drivers, the RP2350
commissioning firmware with the host tool that talks to it, and the STM32 shadow
loop; the TLC runs that check them on small
instances; and TLAPS proofs of their safety properties for every value of the
constants. Paths below are relative to the
repository's root.

```
tlc -workers 2 -config ControlRuntime.cfg MCControlRuntime.tla    # one run
tlapm ControlRuntime_proofs.tla                                   # one proof
```

Each run is listed with its module, its configuration and its properties in
`PROJECT.json`, with the source lines every definition stands for, the mutation
each property is known to detect, and the hazards the properties are for.

## The system

The program balances a pendulum on a motor-driven arm. A target acquires one
observation per millisecond and hands it to a portable runtime, which estimates
the state, decides whether closed-loop actuation is allowed, computes a demand,
bounds it and returns a token; the target applies the token to a TB6612 bridge
or turns the bridge off.

```
 source ─▶ BasicEstimator ─▶ qualify ─▶ admit / run permit ─▶ HybridController
                                                                   │ demand
 TB6612 output ◀─ token ◀─ RuntimeAuthority ◀─ CommandSafetyGate ◀─┘ actuator model
```

| component | state it keeps | operations | what makes it correct | status |
|---|---|---|---|---|
| `supervisor/control-runtime` | runtime state, request, last reports; owns estimator, gate, authority, controller | configure, request, cancel, disable, enable, `step` | authority only on request and good evidence, gone for good when lost | modelled |
| `supervisor/runtime-state` | authority mode, timing monitor, watchdog | qualify, admit, run permit, evaluate, classify | every kind of bad evidence destroys authority | partly |
| `supervisor/state-estimator` | previous measurement | `step`: prime, ready, error | time strictly advances; a gap re-primes | partly |
| `supervisor/actuator-safety` | profile, last command and its time | configure, constrain, reset | magnitude and slew of what leaves | modelled |
| `control/hybrid-control` | regime, settle counter, balance reference | `compute`, `reset` | hysteresis, earned Balance, smooth reference that arrives | modelled |
| `control/state-feedback` | none | dot product | numeric | not modelled |
| `firmware/actuators/tb6612` | pins, duty | map, apply, safe-off | break before make, no half-applied frame | modelled |
| `tools/sitl` scheduler | event heap, virtual time, counts | schedule, slices, verdict | causal order, a verdict that means something | modelled |
| `tools/sitl` rotary system | pending sample, token, actuator, runtime | event handlers | the closed loop under dropped opportunities | partly |
| `tools/sitl/src/bin/rip_sitl_live.rs` | two times, merged payload | turn, sample | a run of the scheduler's, a sample of one instant | partly |
| `firmware/targets/rp2350a` main loop, commissioning, USB | request slot, acknowledgement slot, two motor paths and their leases, telemetry | execute a request, cycle, boot | one leased path, stops that hold, silence that stops | partly |
| RP2350 `runtime.cpp` | the supervisor again, in C++ | as above | same promise as the Rust runtime | partly |
| RP2350 `platform.cpp` | next opportunity, encoder count | wait, interrupt | no replay, no lost edge unnoticed | partly |
| `firmware/targets/stm32f103` | timebase, loop phases, two watchdogs, UART | one pass of the shadow loop | honest verdicts, transports that drain | partly |
| telemetry publisher, runtime record, timing evidence | sequence, atomics, counters | publish, observe | no stale pair, gaps and misses that add up | partly |
| local UI: keys, pages, OLED | debounce state, page, contrast; buffer, dirty rows | key update, write, service | one press, one event; one frame at a time | partly |
| sensors, adapter, measurement model | 16-bit accumulator; calibration | update, convert | the mechanism is followed through every wrap | partly |
| `plant/actuator-model` | none | command for demand, predicted torque | the prediction is true of the command | partly |
| commissioning host (`tools/rp2350_commission`) | sequence, outstanding command, buffers | open, command, read, close | an acknowledgement belongs to its command, a stop that returned holds | partly |
| boards, buses, assemblies, plant physics, numeric studies, viewer, experiment scripts | – | – | I/O tables, floating-point physics, offline analysis | not modelled |

How they interact. Everything in a target runs in one loop; the Rust supervisor
has one owner and no concurrency inside a step, so what is hard there is the
order of calls and early returns over many cycles: an error, a gap, a re-prime, a
cancel and a reconfiguration each leave a different part of the state behind.
The SITL adds virtual time, at each instant of which four kinds of event must run
in phase order, and opportunities that are dropped. The RP2350 target adds a
host that talks at any time through two one-deep slots, leases that run out, and
a host that may disappear. The bridge adds four writes, each of which may fail. The
STM32 target never drives: its loop runs the supervisor in the shadow and shows
what it would do, over a tick that coalesces, a timebase that loses time, and two
slow transports that are served a few bytes per pass.

## Modules

| module | models | role |
|---|---|---|
| `RuntimePolicy` | `runtime-state`: qualification, admission, run permit, evaluation, timing, watchdog | operators |
| `CommandSafetyGate` | `actuator-safety` | operators over a gate record |
| `ControlRuntime` | `control-runtime` with the two above and the estimator's clock | state machine |
| `AuthorityLease` | what the supervisor promises about authority | abstract specification |
| `HybridController` | `hybrid-control` | state machine |
| `Tb6612Mapper`, `Tb6612Output` | `tb6612` | operators, state machine |
| `SitlScheduler` | `tools/sitl` lib, scheduler, scenario | state machine |
| `RotarySitl` | `tools/sitl/rotary.rs`: instantiates `ControlRuntime`, extends the scheduler and the mapper | composition |
| `RotaryLive` | `rip_sitl_live.rs`, mapped to `RotarySitl` | state machine, refinement |
| `ActuatorModel` | `plant/actuator-model`, the static model | operators |
| `PendulumAngle` | synthetic sensor, pendulum calibration, the estimator's circular difference | state machine |
| `OpportunityClock`, `QuadratureDecoder` | RP2350 `platform.cpp` | state machines |
| `EncoderAccumulator` | `sensors/arm-encoder` | state machine |
| `ShadowTiming` | STM32 `main.rs` as to time, with `timing-evidence`, timing monitor and watchdog of `RuntimePolicy` | state machine |
| `LocalUi` | `ui/status` and the key section of `main.rs` | state machine |
| `ShadowLoop` | STM32 `main.rs` as to what it shows: runtime record, telemetry publisher, UART, OLED | state machine |
| `Rp2350Firmware` | `targets/rp2350a` main loop, `commissioning.cpp`, `usb.cpp` | state machine |
| `Rp2350Runtime` | `targets/rp2350a/src/runtime.cpp`: the C++ supervisor, with the same gate | state machine |
| `CommissioningSession` | `tools/rp2350_commission/device.py`: extends `Rp2350Firmware`, whose environment it replaces | composition |
| `MCSitl`, `MCTargetParts` | several machines of which one is chosen in the initial state | instances |
| other `MC*` | small instances for TLC | constants only |
| `*_proofs` | theorems | proofs |

### ControlRuntime

One action per public operation. `step()` is split at its early returns:
`ObserveFails`, `EstimatorFails`, `Prime`, and with a ready estimate
`ShadowCycle`, `LossCycle` and `LiveCycle`. The `Entered*` operators are the state
after a possible admission, on which the run permit is then evaluated, as
`update_closed_loop_state` does within one call. An observation carries a
coordinate per operating limit, the health evidence and whether its numbers are
finite; the controller answers with any mapped command or an error. Commands and
time are integers, the slew limit is a command difference per unit of time.
`granted_at` is a history variable. Reasons are sets, so `Allowed` is emptiness.
Rejected calls change nothing and are not steps.

The commands are those that `ActuatorModel` maps a demand to: nothing within the
deadzone, the full command for whatever the motor cannot give. Its units are such
that inversion is exact, so that what is left of it is control: deadzone, clamp,
the saturation flag, and the prediction that the gate makes again from the
command it let through.

### HybridController

`compute()` is one step: one of eight transitions of the capture policy and the
next reference. Angles, rates and times are integers, and the exponential is any
decay of the rate towards zero, which covers every time step. Positions the code
stores in `f32` lie on a grid of spacing `Grid`; with `Grid = 1` arithmetic is
exact, with a larger one small steps are lost as they are in `f32`.
`streak` and `origin` are history variables. The estimator never hands over
invalid or non-advancing estimates, so those error branches are left out.

### Tb6612Output

A call records its frame and then performs its writes one by one (PWM to zero,
IN1, IN2, duty); each may fail, having taken effect or not, which ends the call
with the code's error.

### SitlScheduler, RotarySitl

The schedule is the set of events `execute_with_system` pushes; a slice is all the
events of the earliest time; `Process` takes one of the lowest phase. `RotarySitl`
dispatches each processed event to its handler: sampling, delivery (with the
timing monitor and the watchdog verdict), the production runtime (`step`, kick on
success, keep the token), commit. The set of dropped opportunities is chosen
once, at the start. The runtime is the `ControlRuntime` module, whose estimate
times are the virtual times.

### RotaryLive

The live driver has no heap: a turn of its loop advances the plant, calls the
four handlers and writes one sample merged from what they returned. `Queue`,
`Slice` and `Tally` compute from its stage what the scheduler would hold at that
point, and `Scheduled` is `RotarySitl` with these for its variables and nothing
missed: `LiveImplementsScheduler` says that every turn is a run of the scheduler's.
`MCSitl` lets these computed values follow in the scheduler's own variables, so
that every property of `RotarySitl` is asked of the live runs too.

### OpportunityClock, QuadratureDecoder, EncoderAccumulator, PendulumAngle

One call of `wait_next_opportunity` is one step of the clock and may return as late as
it likes. The interrupt of the RP2350 reads two pins in two steps, with edges of the
shaft in between and one latch per pin. The shaft may turn from the first reading of
the pins on, while their interrupts are enabled one after the other: an edge of a pin
that is not enabled yet is not latched, and shows at the next interrupt of either.
`CountExplained` speaks from that interrupt on (`unseen = {}`). The STM32's timer
counts by itself and is sampled at any time. `PendulumAngle` follows the simulated
pendulum from the plant's angle (in parts of a count) through the ADC reading, the
calibration and the estimator's difference; each wraps at a seam of its own. Whether
the mechanism moved too fast for a decoder is a history variable, and the properties
say what holds if it did not, and what the decoder admits to if it did.

### ShadowTiming, ShadowLoop, LocalUi

The STM32 loop, in three modules that share no state. `ShadowTiming` is when it runs:
TIM1's update flag is one bit, so late passes find several updates as one; the
timebase is read in two places of a pass and loses some ticks each time; the ADC read
and the step may fail (the HAL's read does not, but the code handles it). It knows the
true time, which the code does not, so its properties relate what the loop says about
time to what was so. `ShadowLoop` is what it shows: each field group of the record is
of the current sample, cleared, or left from an older one; an error clears all but the
control regime, which keeps the value of the last cycle that computed one. The UART
takes some bytes, blocks or fails; the OLED gets one slice per pass. A frame has a
header row and one row for each group of fields that its page shows (cycle, state,
regime, computed values); rows below stay as they are. `LocalUi` is one key with any
level at its pin at every pass, and what its events do.

### Rp2350Firmware

`pc` walks the loop of `main`: USB task, service, cycle, USB task, service; and,
after a bootloader request, the countdown and the ROM. Requests wait in a
one-deep slot and are dropped when it is taken; answers wait in a one-deep slot
and are overwritten. `Effect` is the switch of `service_commissioning`. Leases
are kept as the time left, and `Tick`, which may happen between any two steps,
runs them down; −1 is passed, as `captured_at > deadline_us`. The HID IN endpoint
is only free or busy. Values are in range or not. The target never calls
`request_closed_loop`, so the third branch of the output's priority cannot be
taken and the cycle ends in safe-off when neither path is active. Sending, polling,
CDC lines, time and the host's disappearance are the environment.

### Rp2350Runtime

One action per public operation, `step()` split at its returns as in
`ControlRuntime`, over the same gate operators. It differs from the Rust runtime
where the code does: no admission boundary, so a near-upright regime is granted
at any angle; no operating limits in its qualification; no second look at the run
permit in the cycle that grants; a regime that outlives its request; limits that
are accepted in any form and merely recorded as unusable, which is a gate without
a profile. `RequestClosedLoop` and `EnableReady` are the accepted calls only. The
measurements come from the adapter, whose values are bounded, so the derivative is
finite whenever the measurement is. As in the Rust runtime (finding
`safe_off_history`), an error while Active keeps the slew history.

### CommissioningSession

`Begin` is the numbering and the write of `command()`, `Read` one pass of its loop,
`GiveUp` its deadline. The wrappers (`safe_off`, `set_motor_command`,
`set_arm_velocity` and the rest) are the requests a session may make. `CloseStep`
walks `close()`: two commands whose failure is forgiven, none once the bootloader was
asked for. `Killed` ends a session at any point and sends nothing. Between the two
ends are the firmware's endpoints and the host driver's buffer, which drops a report
when it is full. A model sequence number carries its session besides the 32-bit number
on the wire; the session compares only what is on the wire. `executed` and `stopped`
are history variables. CDC traffic, which never commands, is left out. That every
session ends with the motor off (`SessionsEndStopped`) is the work of the leases:
`close()` may fail, or never run, and then they end the drive.

## Runs

| run | shows | bounds and why they suffice |
|---|---|---|
| `control_runtime` | every call and cycle in any order: authority coherent, a gate that never fails, commands earned, consecutive tokens slew-bounded, and the runtime implements `AuthorityLease` | one observation per kind of defect; clock 1..5 with gap limit 2, which leaves room for prime, grant, several live cycles, a gap, and a second grant; commands beyond both profiles in both directions |
| `safe_off_history` | *violated*: see findings | as above |
| `hybrid_controller` | every accepted ordering of the angle bands, every sequence of samples, and the moving reference they drive, with exact positions: hysteresis, earned Balance, spin-down that only coasts, a smooth recentering that arrives | angles on both sides of each band, rates in and out, 1 to 3 settle cycles; two turns of arm travel in both directions, rates above and below the start rate, intervals of one and two units |
| `recenter_stalls` | *violated*: see findings | grid of five units, recentering over five |
| `tb6612_output` | any calls with any write failing | two duties per direction, inverted wiring |
| `sitl` | three drivers: the scheduler alone under any dropped opportunities, the scheduler with the closed loop, and the live driver, which implements it; runs pass, only fresh observations are computed on, the motor follows the cycle, authority follows the misses, a loss reaches the motor, a viewer sample is of one instant | alone: periods 3 and 2 in a duration of 7, so coinciding and separate instants and a last period that is cut; closed loop: eight periods, with a gap tolerance of 2 periods instead of 20 and lateness 2 instead of 5, so that grants, gaps and losses all fit |
| `rp2350_firmware` | any host, any interleaving with time | one report per kind the loop tells apart, one in flight, leases of one and two ticks, telemetry every second cycle, one boot pass; longer leases and queues only repeat the same steps |
| `rp2350_runtime` | the C++ supervisor under every order of calls and cycles: its commands are earned, and it implements `AuthorityLease` | one observation per defect; clock 1..6 with gap limit 2; two usable limits, one too large and one without slew; two regimes |
| `commissioning_session` | one session against the firmware, with late, lost and overwritten answers, refusals, the bootloader and a killed process | five commands, `close()`'s two among them, which fit a command that times out, its late answer, and a stop; two buffered reports; a lease of one tick |
| `stale_acknowledgement` | *violated*: see findings | two sessions of three commands |
| `target_parts` | six machines one at a time: missed opportunities are counted and never replayed; both encoder decoders and the pendulum's angle follow the mechanism; inferred misses are exact and health verdicts true; a press is one event | clock: eight periods; shaft: eight edges, two cycles of the encoder, from before the interrupts are enabled; accumulator: travel over three times its modulus of 6, and past the saturation of its count; angle: more than two turns of 8 counts, both mountings; timing: six tick periods, steps shorter and longer than one, timebases that lose 0 or 1 tick; keys: a tick that wraps at 11 |
| `shadow_loop` | nothing stale is shown, a regime that an error left alone never beside a new command, gaps in the sequence are the counted losses, no frame overtakes another, both transports drain | a sequence that wraps at 3, packets of two slices, telemetry every second pass, three OLED rows of two slices (the header and two groups of fields), a redraw due every second pass: packets and frames both outlast the interval at which the next is due |

Deadlock is checked except where a run ends by design (SITL: empty heap, a
handler's error, or the live driver's horizon; sessions: the last one is closed, or
the target is in its ROM; target parts: a horizon of time, or the last edge).

The type invariants of the modules and some invariants that only support others
(`HistoryOnlyWhileActive`, `TokenIsGated`, `ReferenceBelongsToBalance`,
`OneLeasedPath`, `PortCoherent`) are theorems and no run's properties.

### Fairness

- `HybridController`: weak fairness of `Compute`; a target computes once per cycle.
- `MCSitl`: weak fairness of the driver; both loops run until they return.
- `ShadowLoop`: weak fairness of a pass in which the UART accepts a byte. The loop
  runs for ever, and a byte takes a tenth of a pass on the wire, so that a pass finds
  the UART ready again and again; that it may fail instead is still allowed.
- `Rp2350Firmware`, `CommissioningSession`: weak fairness of the loop and of time.
  Nothing is asked of the host: it need not send, poll, read or live.

The other specifications have safety properties only.

### Findings

- `safe_off_history`. `ControlRuntime::step` returns early on an error while
  Active, without a token and without resetting the gate's history. The bridge
  goes to safe-off for that cycle, and the next good cycle resumes from the old
  command. The gate's documentation asks for a reset on any transition that
  returns the output to safe-off. The slew limit itself still holds
  (`CommandIsEarned`); `SlewBounded`, which compares the tokens of consecutive
  cycles, has nothing to compare across the failed one.
- `recenter_stalls`. Close to its target the recentering step falls below half
  the spacing of `f32` at the reference, the sum is the old reference, and the
  phase stays `Recenter` with a non-zero reference rate.

- `stale_acknowledgement`. Every session numbers its commands from 1, and neither
  end discards an acknowledgement that a killed process left in the endpoint or
  in the firmware's slot. The next session takes it as the answer to its own
  command of that number and kind, before the firmware has executed that
  command. Within one session the numbers do their work (`AnswersOwnCall` holds
  with one session).

## Proofs

| module | theorems | argument |
|---|---|---|
| `ControlRuntime_proofs` | type correctness, `AuthorityCoherent`, `HistoryOnlyWhileActive`, `GateNeverFails`, `CommandIsEarned`, `TokenIsGated`, `SlewBounded`, refinement of `AuthorityLease` | the conjunction of the invariants is inductive once `GrantDated` is added: without knowing that the grant is not later than the estimator's clock, the bound on the first live command does not follow. The gate needs its clock to be at most the estimator's, which is why it cannot fail. |
| `HybridController_proofs` | `RegimeFitsSample`, `BalanceIsEarned`, type correctness, `ReferenceBelongsToBalance`, `SpinDownCoasts`, `TargetIsNearestBranch`, `RecenterIsSmooth` | the counter equals the streak while in Capture; the policy stays the valid one it was; spin-down conserves position plus time constant times rate; the nearest multiple of a turn is at most half a turn away; a step has the sign of the error and stays short of it, or the phase ends |
| `Rp2350Runtime_proofs` | type correctness, `PortCoherent`, `PortCommandIsEarned`, refinement of `AuthorityLease` | the three invariants together are inductive: an Active port has usable limits and a gate no later than its estimator, so a live cycle cannot fail, and every release clears request and history together |
| `CommandSafetyGate_proofs` | `DemandIsMet`, `ConstrainedTorqueIsBounded`; lemmas | what one accepted `constrain` does to a history that is earned, shared by the two runtimes; the actuator model before the gate (it inverts itself, and says when it could not) and after it (no torque beyond the profile's) |
| `Rp2350Firmware_proofs` | all safety properties of the two runs, `rp2350_firmware` and `commissioning_session` | stops are held by the invariant that the latest acknowledgement is a stop's, or that the countdown is set, only when all paths and the bridge are off; `BootCounted` links the countdown to the loop. `SessionInv` adds what is under way between host and device: commands are in the order of their numbers, none is later than the outstanding one, an acknowledgement of the outstanding number exists only if it was executed, and after an executed stop nothing that drives is left anywhere |
| `SitlScheduler_proofs` | `CausalOrder`, `CompletedRunPasses` | `FrontierInv`: the heap is exactly what is planned after now, and the slice is closed under later phases of now, so the events not yet run are known from the time alone. `CountInv`: each counter is the cardinality of the processed events of its kind. A period's events are a bijective image of an interval, so `periodic_count` is their number |
| `Sitl_proofs` | every safety property of the run `sitl`: `OnlyFreshObservations`, `MotorFollowsCycle`, `AuthorityFollowsMisses`, `EveryRunPasses`, `LiveImplementsScheduler`, `SampleIsOneInstant` | `SystemInv`: what each handler has left for the next one of the same instant, and a gate and an estimator no later than now. `FollowInv`: authority as a function of the set of cycles run; one more cycle adds one pair to it. `LiveInv`: the computed heap, slice and counters of the live loop are those of a scheduler without misses. From it, `MCSpec => Spec`, by which what is proved of the scheduled system holds of both drivers. `MergeInv`: what a turn has merged is of that turn |
| `TargetParts_proofs` | the four properties of `tb6612_output`, every property of `target_parts`, and all of `shadow_loop` but `BackgroundDrains` | see below |

`TargetParts_proofs` has an invariant for each machine:

- the bridge: what each program point knows about the pins already written; the
  duty is zero until the last write.
- the opportunity clock: the next opportunity is never before the last call, and at
  least a period after the last but one, so that late calls cannot bunch.
- the accumulator: counter and accumulated count differ from the arm by a known
  distance modulo the counter's width, of which the signed difference is the
  representative if the arm moved less than half of it.
- the pendulum's angle: a measured angle is the true one to half a count and whole
  turns; the estimator's differences carry that error and never add to it.
- the quadrature decoder (`QuadratureInv`): state, levels and latches agree up to the
  edges not yet served and those of a pin before it was enabled; the count is the
  shaft's up to whole cycles and what illegal transitions stand for.
- the keys (`KeyInv`): a debounce clock that has not been accepted yet counts
  the passes of its candidate and has not wrapped.
- the timing of the shadow loop (`TimingInv`): after *n* readings the timebase is
  exactly *n* times the lost ticks and one remainder behind the true time.
  Therefore two admissions whose phases are small are a whole number of periods
  apart to the nearest one, and the microseconds between two readings are true to
  one, and to the ticks lost in between. This needs linear arithmetic over products
  of unknown constants, which the lemmas `Products`, `NowReads` and `RoundedPeriods`
  keep apart.
- telemetry: the next sequence number is that of the last packet received, plus one,
  plus those lost since, plus the one under way, modulo the width.
- the panel: every slice that is not still to be sent shows what its row holds,
  which is never a state or command left from an older sample; a regime left from one
  is in the record only while its command is cleared.

Assumptions. Each module names what it asks of its constants, and TLC evaluates it
on every run. They type the constants and ask for positive limits, as the
constructors of the code do. Some say more, always what the code has:
`CounterAssumption` and `AngleAssumption` an even counter and ADC modulus (65536 and
4096); `TimingAssumption` a tick period of whole microseconds, and timing limits in
order; `KeyAssumption` intervals shorter than the tick's wrap; `SitlAssumption` the
equal periods of the rotary scenarios and a lateness of at least two periods and
at most the gap tolerance (5 and 20); `SessionAssumption` room for the two
commands of `close()`. `NoneAssumption`, `AbsentAssumption` and the
`RecordAssumption`s say that the absent value `None` is none of the values it
stands in for.

Four theorems have a hypothesis besides. `SpinDownOnlyCoasts` and
`RecentersSmoothly` assume exact positions (`Grid = 1`): with rounding the
reference may gain or lose half a grid unit per step, and at worst stalls (finding
`recenter_stalls`); that the recenter target is the nearest branch is proved for
every grid. `AnswersAreOwn` and `ReturnedStopsHold` assume one session since the
device booted (`MaxSessions = 1`), with any number of calls: in a second session both
fail, which is the finding `stale_acknowledgement`.

Only model-checked: the liveness properties (`RecenterSettles`,
`LossReachesMotor`, `SilenceStops`, `SessionsEndStopped`, `BackgroundDrains`).
Temporal properties under fairness are outside the prover. Every safety property
that a passing run checks is also a theorem. `EveryRunPasses` is proved of the
rotary scenarios for all constants, and of the no-op scenario for the periods the
module fixes; `SitlScheduler_proofs` has it for all periods.

## Not modelled, and why

- Torque laws, plant physics, the DC motor model (which nothing calls), rate
  filters and the servo's PI loop: floating-point numerics. They appear as any
  command or error.
- `RuntimeAuthority`'s maintenance and fault modes and `SensorTimingMonitor::poll`:
  nothing in the repository calls them outside tests.
- The hardware watchdogs: the modelled loops never stall. The STM32's is fed even
  by a pass whose ADC read failed, by intent.
- The adapter's rejections: every producer in the repository sets the same quality
  flags, so no measurement is rejected.
- A composition of `HybridController` and `ControlRuntime`: the reference that a
  shadow Balance leaves for a grant is a question of the plant's dynamics.
- Answers of the RP2350 under load: whether an acknowledgement ever finds the
  endpoint free depends on the host's polling rate, which is left open.
- Formats: USB descriptors, packets, traces, text layout and glyphs, CSV and JSON.

## Plan

The modules planned for this project exist, and their safety properties are
proved. What is left to say more of:

1. Action properties of the simulator that its invariants already imply, and
   lemmas that relate `RotarySitl`'s runtime to the theorems of
   `ControlRuntime_proofs`.
2. Sessions after the first: what still holds of them, for instance that a stop
   holds once its own acknowledgement has been read.
3. Rounding in `RecenterIsSmooth`: by how much a step on a grid may miss.
