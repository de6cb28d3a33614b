-------------------------- MODULE HybridController --------------------------
(***************************************************************************)
(* control/hybrid-control: the capture policy (SwingUp, Capture, Balance)  *)
(* and the moving arm reference that Balance tracks.  compute() is one     *)
(* step; which of its branches runs is a disjunct.  The torque laws behind *)
(* the regimes are not modelled, only which law runs and on what error.    *)
(*                                                                         *)
(* Angles, rates and times are integers.  The estimator hands over finite  *)
(* Valid estimates whose timestamps strictly advance, so the InvalidState, *)
(* backwards-time and zero-dt branches are dead and left out; sample.dt is *)
(* the time since the previous compute, which in Balance is the age of the *)
(* reference.  A position the code stores as f32 lies on a grid.           *)
(***************************************************************************)
EXTENDS RuntimePolicy

CONSTANTS
  Policies,      \* CapturePolicyConfig values a caller may offer
  Samples,       \* estimates compute() may be called with
  Tracking,      \* "Origin" (legacy constructor), "SpinDown" or "Recenter"
  DecayTau,      \* arm_rate_decay_time_constant
  Orientation, Revolution,            \* commanded orientation, one turn
  StartRate, MaxRate, RecenterTau,    \* BalanceRecenterConfig
  HoldBand,      \* the error at which recentering counts as done
  Grid           \* spacing of the representable positions

Policy ==
  [capture_enter_angle : Nat, capture_enter_rate : Nat,
   balance_enter_angle : Nat, balance_enter_rate : Nat,
   balance_exit_angle : Nat, balance_exit_rate : Nat,
   capture_exit_angle : Nat, capture_exit_rate : Nat, settle_cycles : Nat]

Phases == {"SpinDown", "Recenter", "Hold"}
References ==
  [phi_ref : Int, phi_dot_ref : Int, phase : Phases, target : Int \cup {None}]

Sample == [theta : Int, theta_dot : Int, phi : Int, phi_dot : Int, dt : Nat \ {0}]

ASSUME HybridAssumption ==
  /\ Policies \subseteq Policy
  /\ Samples \subseteq Sample
  /\ Tracking \in {"Origin", "SpinDown", "Recenter"}
  /\ {DecayTau, Revolution, StartRate, MaxRate, RecenterTau, Grid} \subseteq Nat \ {0}
  /\ HoldBand \in Nat /\ Orientation \in Int

ASSUME RecordAssumption == None \notin References /\ None \notin Sample /\ None \notin Phases

(* Mutant: validation forgets that the angle bands must nest.              *)
IsValid_AnyAngles(p) ==
  /\ \A field \in DOMAIN p : p[field] > 0
  /\ p.balance_enter_rate < p.balance_exit_rate

IsValid(p) ==
  /\ \A field \in DOMAIN p : p[field] > 0
  /\ p.balance_enter_angle < p.balance_exit_angle
  /\ p.balance_exit_angle <= p.capture_enter_angle
  /\ p.capture_enter_angle < p.capture_exit_angle
  /\ p.balance_enter_rate < p.balance_exit_rate
  /\ p.balance_exit_rate <= p.capture_enter_rate
  /\ p.capture_enter_rate < p.capture_exit_rate

VARIABLES
  policy,             \* the accepted configuration
  regime,
  settled_cycles,
  balance_reference,  \* None or [phi_ref, phi_dot_ref, phase, target]
  sample,             \* the estimate of the last compute(), None before it
  streak,             \* history: settled samples in a row since Capture
  origin              \* history: where the running reference phase began

vars == <<policy, regime, settled_cycles, balance_reference, sample, streak, origin>>

Reference(phi, rate, phase, target) ==
  [phi_ref |-> phi, phi_dot_ref |-> rate, phase |-> phase, target |-> target]

Init ==
  /\ policy \in {p \in Policies : IsValid(p)}
  /\ regime = "SwingUp"
  /\ settled_cycles = 0
  /\ balance_reference = None
  /\ sample = None
  /\ streak = 0
  /\ origin = None
---------------------------------------------------------------------------
(* The capture policy.  The capture rates are validated and never used.    *)
WithinAngle(s, angle) == Magnitude(s.theta) <= angle
Within(s, angle, rate) == WithinAngle(s, angle) /\ Magnitude(s.theta_dot) <= rate

Settled(s) == Within(s, policy.balance_enter_angle, policy.balance_enter_rate)
Lost(s) == ~WithinAngle(s, policy.capture_exit_angle)
Unbalanced(s) == ~Within(s, policy.balance_exit_angle, policy.balance_exit_rate)

Goes(to, count) == regime' = to /\ settled_cycles' = count

KeepSwinging(s) ==
  /\ regime = "SwingUp"
  /\ ~WithinAngle(s, policy.capture_enter_angle)
  /\ Goes("SwingUp", settled_cycles)

EnterCapture(s) ==
  /\ regime = "SwingUp"
  /\ WithinAngle(s, policy.capture_enter_angle)
  /\ Goes("Capture", 0)

LoseCapture(s) ==
  /\ regime = "Capture" /\ Lost(s)
  /\ Goes("SwingUp", 0)

LoseUpright(s) ==
  /\ regime = "Balance" /\ Lost(s)
  /\ Goes("SwingUp", 0)

CountSettled(s) ==
  /\ regime = "Capture" /\ ~Lost(s) /\ Settled(s)
  /\ settled_cycles + 1 < policy.settle_cycles
  /\ Goes("Capture", settled_cycles + 1)

EarnBalance(s) ==
  /\ regime = "Capture" /\ ~Lost(s) /\ Settled(s)
  /\ settled_cycles + 1 >= policy.settle_cycles
  /\ Goes("Balance", 0)

(* Mutant: a sample outside the band does not restart the count.           *)
RestartSettling_KeepsCount(s) ==
  /\ regime = "Capture" /\ ~Lost(s) /\ ~Settled(s)
  /\ Goes("Capture", settled_cycles)

RestartSettling(s) ==
  /\ regime = "Capture" /\ ~Lost(s) /\ ~Settled(s)
  /\ Goes("Capture", 0)

LoseBalance(s) ==
  /\ regime = "Balance" /\ ~Lost(s) /\ Unbalanced(s)
  /\ Goes("Capture", 0)

KeepBalance(s) ==
  /\ regime = "Balance" /\ ~Lost(s) /\ ~Unbalanced(s)
  /\ Goes("Balance", settled_cycles)

Update(s) ==
  \/ KeepSwinging(s) \/ EnterCapture(s)
  \/ LoseCapture(s) \/ CountSettled(s) \/ EarnBalance(s) \/ RestartSettling(s)
  \/ LoseUpright(s) \/ LoseBalance(s) \/ KeepBalance(s)
---------------------------------------------------------------------------
(* The moving reference.                                                   *)
Nearest(x, unit) == ((2 * x + unit) \div (2 * unit)) * unit
Stored(position) == Nearest(position, Grid)

NearestOrientation(phi) ==
  Orientation + Nearest(phi - Orientation, Revolution)

Latched(s) == Reference(s.phi, s.phi_dot, "SpinDown", None)

(* exp decays the rate towards zero by some fraction of it.                *)
Decayed(rate) == {r \in -Magnitude(rate)..Magnitude(rate) : r * rate >= 0}

ReadyToRecenter(s, rate) ==
  /\ Tracking = "Recenter"
  /\ Magnitude(s.phi_dot) <= StartRate
  /\ Magnitude(rate) <= StartRate
  /\ Settled(s)

SpinDown(ref, s) ==
  {LET phi == Stored(ref.phi_ref + DecayTau * (ref.phi_dot_ref - rate))
   IN  IF ReadyToRecenter(s, rate)
         THEN Reference(phi, 0, "Recenter", NearestOrientation(s.phi))
         ELSE Reference(phi, rate, "SpinDown", None) : rate \in Decayed(ref.phi_dot_ref)}

Bounded(x, bound) == IF x > bound THEN bound ELSE IF x < -bound THEN -bound ELSE x
Quotient(x, y) == IF x < 0 THEN -((-x) \div y) ELSE x \div y

Held(target) == Reference(target, 0, "Hold", target)

(* Mutant: the rate limit is dropped.                                      *)
RecenterStep_Unlimited(error, dt) == Quotient(error * dt, RecenterTau)

RecenterStep(error, dt) ==
  Bounded(Quotient(error * dt, RecenterTau), MaxRate * dt)

(* Mutant: a reference close to its target is never declared done.         *)
Recenter_NoBand(ref, s) ==
  LET error == ref.target - ref.phi_ref
      step == RecenterStep(error, s.dt)
  IN  IF Magnitude(step) >= Magnitude(error) /\ step # 0
        THEN Held(ref.target)
        ELSE Reference(Stored(ref.phi_ref + step),
                       Bounded(Quotient(error, RecenterTau), MaxRate),
                       "Recenter", ref.target)

Recenter(ref, s) ==
  LET error == ref.target - ref.phi_ref
      step == RecenterStep(error, s.dt)
  IN  IF Magnitude(error) <= HoldBand \/ Magnitude(step) >= Magnitude(error)
        THEN Held(ref.target)
        ELSE Reference(Stored(ref.phi_ref + step),
                       Bounded(Quotient(error, RecenterTau), MaxRate),
                       "Recenter", ref.target)

Advanced(ref, s) ==
  CASE ref.phase = "SpinDown" -> SpinDown(ref, s)
    [] ref.phase = "Recenter" -> {Recenter(ref, s)}
    [] ref.phase = "Hold" -> {ref}

(* Mutant: falling back out of Balance keeps the reference.                *)
NextReferences_Kept(s) ==
  IF Tracking = "Origin" THEN {None}
  ELSE IF regime' # "Balance" THEN {balance_reference}
  ELSE IF balance_reference = None THEN {Latched(s)}
  ELSE Advanced(balance_reference, s)

NextReferences(s) ==
  IF regime' # "Balance" \/ Tracking = "Origin" THEN {None}
  ELSE IF regime # "Balance" \/ balance_reference = None THEN {Latched(s)}
  ELSE Advanced(balance_reference, s)
---------------------------------------------------------------------------
Phase(reference) == IF reference = None THEN None ELSE reference.phase

Compute(s) ==
  /\ Update(s)
  /\ balance_reference' \in NextReferences(s)
  /\ sample' = s
  /\ streak' = IF regime = "Capture" /\ Settled(s) THEN streak + 1 ELSE 0
  /\ origin' = IF balance_reference' = None THEN None
               ELSE IF Phase(balance_reference') # Phase(balance_reference)
                       \/ regime # "Balance"
                 THEN [phi |-> s.phi, rate |-> s.phi_dot]
                 ELSE origin
  /\ UNCHANGED policy

Reset ==
  /\ regime' = "SwingUp"
  /\ settled_cycles' = 0
  /\ balance_reference' = None
  /\ sample' = None
  /\ streak' = 0
  /\ origin' = None
  /\ UNCHANGED policy

Next == Reset \/ \E s \in Samples : Compute(s)

Spec == Init /\ [][Next]_vars
FairSpec == Spec /\ WF_vars(\E s \in Samples : Compute(s))
---------------------------------------------------------------------------
(* While in Capture the counter is the streak: nothing is lost or kept.    *)
StreakIsCounted == regime = "Capture" => streak = settled_cycles

(* Ranges; a stored settle count is always short of the threshold, so the  *)
(* u16 never saturates.                                                    *)
TypeOK ==
  /\ policy \in Policy /\ IsValid(policy)
  /\ regime \in Regimes
  /\ settled_cycles \in Nat /\ settled_cycles < policy.settle_cycles
  /\ balance_reference \in References \cup {None}
  /\ sample \in Sample \cup {None}
  /\ streak \in Nat
  /\ origin \in [phi : Int, rate : Int] \cup {None}

(* Every accepted configuration gives hysteresis that works: whatever the  *)
(* path, the regime fits the sample it was computed for.                   *)
RegimeFitsSample ==
  sample # None =>
    /\ regime = "SwingUp" => ~WithinAngle(sample, policy.capture_enter_angle)
    /\ regime = "Capture" => ~Lost(sample)
    /\ regime = "Balance" => ~Lost(sample) /\ ~Unbalanced(sample)

(* Balance is only entered from Capture, and only by settle_cycles         *)
(* consecutive samples inside the narrow band, none of which was computed  *)
(* before Capture (lib.rs 226-244).                                        *)
BalanceIsEarned ==
  [][regime # "Balance" /\ regime' = "Balance" =>
       regime = "Capture" /\ streak' >= policy.settle_cycles]_vars

(* A reference lives exactly as long as the Balance it was latched for, so *)
(* a second Balance never tracks the first one's reference.                *)
ReferenceBelongsToBalance ==
  balance_reference # None <=> regime = "Balance" /\ Tracking # "Origin"

(* Exactly on the grid, spin-down only trades rate for arc: the reference  *)
(* coasts at most DecayTau times the rate it was latched with, and never   *)
(* reverses.                                                               *)
SpinDownCoasts ==
  balance_reference # None /\ balance_reference.phase = "SpinDown" =>
    /\ balance_reference.phi_ref + DecayTau * balance_reference.phi_dot_ref
         = origin.phi + DecayTau * origin.rate
    /\ balance_reference.phi_dot_ref \in Decayed(origin.rate)

(* The recenter target is the equivalent of the commanded orientation      *)
(* nearest to the arm when recentering began.                              *)
TargetIsNearestBranch ==
  balance_reference # None /\ balance_reference.phase = "Recenter" =>
    /\ (balance_reference.target - Orientation) % Revolution = 0
    /\ 2 * Magnitude(balance_reference.target - origin.phi) <= Revolution

(* Recentering unwinds no accumulated turn: its target is the equivalent   *)
(* of the commanded orientation nearest to the arm, and the reference      *)
(* closes in on it, never faster than max_reference_rate, never past it,   *)
(* and never changing its mind about the branch (lib.rs 599-660).          *)
RecenterIsSmooth ==
  /\ []TargetIsNearestBranch
  /\ [][/\ Phase(balance_reference) = "Recenter"
        /\ Phase(balance_reference') = "Recenter"
        => LET before == balance_reference.target - balance_reference.phi_ref
               after == balance_reference'.target - balance_reference'.phi_ref
           IN  /\ balance_reference'.target = balance_reference.target
               /\ before * after > 0
               /\ Magnitude(after) <= Magnitude(before)
               /\ Magnitude(before) - Magnitude(after) <= MaxRate * sample'.dt]_vars

(* Recentering ends: the arm is guided to the target and held there, or    *)
(* Balance is left (lib.rs 322-324).                                       *)
RecenterSettles ==
  Phase(balance_reference) = "Recenter"
    ~> Phase(balance_reference) # "Recenter"
=============================================================================
