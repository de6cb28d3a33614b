----------------------- MODULE HybridController_proofs -----------------------
(***************************************************************************)
(* Proofs about HybridController for every valid configuration, sample and *)
(* settle count.                                                           *)
(***************************************************************************)
EXTENDS HybridController, TLAPS

(* Rounding to a grid keeps integers.                                      *)
LEMMA NearestInt ==
  ASSUME NEW x \in Int, NEW unit \in Nat \ {0}
  PROVE  Nearest(x, unit) \in Int
<1>1. (2 * x + unit) \div (2 * unit) \in Int
  <2> DEFINE d == 2 * unit
             n == 2 * x + unit
  <2>1. d \in Nat \ {0} /\ n \in Int
    OBVIOUS
  <2> HIDE DEF d, n
  <2>2. n \div d \in Int
    BY <2>1
  <2> QED
    BY <2>2 DEF d, n
<1>2. QED
  BY <1>1 DEF Nearest

(* On a grid of one unit nothing is rounded.                               *)
LEMMA NearestUnit ==
  ASSUME NEW x \in Int
  PROVE  Nearest(x, 1) = x
BY DEF Nearest
---------------------------------------------------------------------------
(* The inductive invariant of the capture policy.                          *)
PolicyInv ==
  /\ policy \in Policy /\ IsValid(policy)
  /\ regime \in Regimes
  /\ settled_cycles \in Nat /\ settled_cycles < policy.settle_cycles
  /\ sample \in Sample \cup {None}
  /\ streak \in Nat
  /\ RegimeFitsSample
  /\ StreakIsCounted

(* What a valid configuration orders.                                      *)
LEMMA ValidBands ==
  ASSUME NEW p \in Policy, IsValid(p)
  PROVE  /\ p.settle_cycles \in Nat /\ p.settle_cycles > 0
         /\ p.balance_enter_angle \in Nat /\ p.balance_exit_angle \in Nat
         /\ p.capture_enter_angle \in Nat /\ p.capture_exit_angle \in Nat
         /\ p.balance_enter_rate \in Nat /\ p.balance_exit_rate \in Nat
         /\ p.balance_enter_angle < p.balance_exit_angle
         /\ p.balance_exit_angle <= p.capture_enter_angle
         /\ p.capture_enter_angle < p.capture_exit_angle
         /\ p.balance_enter_rate < p.balance_exit_rate
<1>1. p.settle_cycles > 0
  BY DEF Policy, IsValid
<1>2. QED
  BY <1>1 DEF Policy, IsValid

(* One compute(), whichever transition it takes, keeps the invariant.      *)
LEMMA ComputeKeepsPolicyInv ==
  ASSUME PolicyInv, NEW s \in Samples, Compute(s)
  PROVE  PolicyInv'
<1> USE DEF PolicyInv
<1>1. /\ s \in Sample /\ s # None /\ sample' = s
      /\ UNCHANGED policy
      /\ streak' = IF regime = "Capture" /\ Settled(s) THEN streak + 1 ELSE 0
  BY HybridAssumption, RecordAssumption DEF Compute
<1>2. s.theta \in Int /\ s.theta_dot \in Int
  BY <1>1 DEF Sample
<1>3. Magnitude(s.theta) \in Nat /\ Magnitude(s.theta_dot) \in Nat
  BY <1>2 DEF Magnitude
<1>4. streak' \in Nat
  BY <1>1
<1> DEFINE Fits(r) ==
      /\ r = "SwingUp" => ~WithinAngle(s, policy.capture_enter_angle)
      /\ r = "Capture" => ~Lost(s)
      /\ r = "Balance" => ~Lost(s) /\ ~Unbalanced(s)
<1>5. SUFFICES /\ regime' \in Regimes
               /\ settled_cycles' \in Nat /\ settled_cycles' < policy.settle_cycles
               /\ Fits(regime')
               /\ regime' = "Capture" => streak' = settled_cycles'
  BY <1>1, <1>4 DEF RegimeFitsSample, StreakIsCounted, Lost, Unbalanced
<1>6. CASE KeepSwinging(s)
  BY <1>6 DEF KeepSwinging, Goes, Regimes
<1>7. CASE EnterCapture(s)
  BY <1>1, <1>3, <1>7, ValidBands DEF EnterCapture, Goes, Regimes, WithinAngle, Lost
<1>8. CASE LoseCapture(s) \/ LoseUpright(s)
  BY <1>1, <1>3, <1>8, ValidBands
     DEF LoseCapture, LoseUpright, Goes, Regimes, WithinAngle, Lost
<1>9. CASE CountSettled(s)
  BY <1>1, <1>9 DEF CountSettled, Goes, Regimes, StreakIsCounted
<1>10. CASE EarnBalance(s)
  BY <1>1, <1>3, <1>10, ValidBands
     DEF EarnBalance, Goes, Regimes, WithinAngle, Within, Lost, Settled, Unbalanced
<1>11. CASE RestartSettling(s)
  BY <1>1, <1>11, ValidBands DEF RestartSettling, Goes, Regimes
<1>12. CASE LoseBalance(s)
  BY <1>1, <1>12, ValidBands DEF LoseBalance, Goes, Regimes
<1>13. CASE KeepBalance(s)
  BY <1>1, <1>13 DEF KeepBalance, Goes, Regimes
<1>14. QED
  BY <1>6, <1>7, <1>8, <1>9, <1>10, <1>11, <1>12, <1>13 DEF Compute, Update

(* PolicyInv is an invariant.                                              *)
LEMMA PolicyInvariant == Spec => []PolicyInv
<1>1. Init => PolicyInv
  BY HybridAssumption, ValidBands
     DEF Init, PolicyInv, Regimes, RegimeFitsSample, StreakIsCounted
<1>2. ASSUME PolicyInv, [Next]_vars PROVE PolicyInv'
  <2>1. CASE Reset
    BY <1>2, <2>1, ValidBands
       DEF Reset, PolicyInv, Regimes, RegimeFitsSample, StreakIsCounted
  <2>2. CASE UNCHANGED vars
    BY <1>2, <2>2 DEF vars, PolicyInv, RegimeFitsSample, StreakIsCounted, Lost, Unbalanced
  <2>3. QED
    BY <1>2, <2>1, <2>2, ComputeKeepsPolicyInv DEF Next
<1>3. PolicyInv /\ [Next]_vars => PolicyInv'
  BY <1>2
<1>4. QED
  BY <1>1, <1>3, PTL DEF Spec

(* For every accepted configuration the hysteresis works: the regime fits  *)
(* the sample it was computed for.                                         *)
THEOREM HysteresisWorks == Spec => []RegimeFitsSample
<1>1. PolicyInv => RegimeFitsSample
  BY DEF PolicyInv
<1>2. QED
  BY <1>1, PolicyInvariant, PTL

(* Balance takes settle_cycles consecutive settled samples of one Capture. *)
THEOREM BalanceTakesSettling == Spec => BalanceIsEarned
<1>1. ASSUME PolicyInv, [Next]_vars, regime # "Balance", regime' = "Balance"
      PROVE  regime = "Capture" /\ streak' >= policy.settle_cycles
  <2>1. ~Reset /\ ~UNCHANGED vars
    BY <1>1 DEF Reset, vars
  <2>2. PICK s \in Samples : Compute(s)
    BY <1>1, <2>1 DEF Next
  <2>3. EarnBalance(s)
    BY <1>1, <2>2 DEF Compute, Update, Goes, KeepSwinging, EnterCapture, LoseCapture,
       CountSettled, RestartSettling, LoseUpright, LoseBalance, KeepBalance
  <2>4. streak' = settled_cycles + 1
    BY <1>1, <2>2, <2>3 DEF Compute, EarnBalance, PolicyInv, StreakIsCounted
  <2>5. QED
    BY <1>1, <2>3, <2>4, ValidBands DEF EarnBalance, PolicyInv
<1>2. PolicyInv /\ [Next]_vars =>
        [regime # "Balance" /\ regime' = "Balance" =>
           regime = "Capture" /\ streak' >= policy.settle_cycles]_vars
  BY <1>1
<1>3. QED
  BY <1>2, PolicyInvariant, PTL DEF Spec, BalanceIsEarned
---------------------------------------------------------------------------
(* The moving reference.  origin is what its running phase started from.   *)
Origins == [phi : Int, rate : Int]

ReferenceInv ==
  /\ balance_reference \in References \cup {None}
  /\ origin \in Origins \cup {None}
  /\ balance_reference # None =>
       /\ origin \in Origins
       /\ balance_reference.phase = "Recenter" => balance_reference.target \in Int
  /\ ReferenceBelongsToBalance

(* The constructor of references builds references.                        *)
LEMMA ReferenceTyped ==
  ASSUME NEW phi \in Int, NEW rate \in Int, NEW phase \in Phases,
         NEW target \in Int \cup {None}
  PROVE  /\ Reference(phi, rate, phase, target) \in References
         /\ Reference(phi, rate, phase, target) # None
         /\ Reference(phi, rate, phase, target).phase = phase
         /\ Reference(phi, rate, phase, target).target = target
         /\ Reference(phi, rate, phase, target).phi_ref = phi
         /\ Reference(phi, rate, phase, target).phi_dot_ref = rate
<1>1. Reference(phi, rate, phase, target) \in References
  BY DEF Reference, References
<1>2. QED
  BY <1>1, RecordAssumption DEF Reference

(* ... and a reference in spin-down has no target.                         *)
LEMMA SpinReferenceTyped ==
  ASSUME NEW phi \in Int, NEW rate \in Int
  PROVE  /\ Reference(phi, rate, "SpinDown", None) \in References
         /\ Reference(phi, rate, "SpinDown", None) # None
         /\ Reference(phi, rate, "SpinDown", None).phase = "SpinDown"
         /\ Reference(phi, rate, "SpinDown", None).phi_ref = phi
         /\ Reference(phi, rate, "SpinDown", None).phi_dot_ref = rate
<1>1. Reference(phi, rate, "SpinDown", None) \in References
  BY DEF Reference, References, Phases
<1>2. QED
  BY <1>1, RecordAssumption DEF Reference

(* A decayed rate is an integer of the same sign and no larger.            *)
LEMMA DecayedInt ==
  ASSUME NEW rate \in Int, NEW r \in Decayed(rate)
  PROVE  r \in Int
BY DEF Decayed, Magnitude

(* The nearest orientation is a position.                                  *)
LEMMA OrientationInt ==
  ASSUME NEW phi \in Int
  PROVE  NearestOrientation(phi) \in Int
<1>1. phi - Orientation \in Int /\ Orientation \in Int /\ Revolution \in Nat \ {0}
  BY HybridAssumption
<1>2. Nearest(phi - Orientation, Revolution) \in Int
  BY <1>1, NearestInt
<1>3. QED
  BY <1>1, <1>2 DEF NearestOrientation

(* Whatever spin-down leads to is a reference, with a target once it       *)
(* recenters.                                                              *)
LEMMA SpinDownTyped ==
  ASSUME NEW ref \in References, NEW s \in Sample, NEW next \in SpinDown(ref, s)
  PROVE  /\ next \in References
         /\ next # None
         /\ next.phase = "Recenter" => next.target \in Int
<1>1. ref.phi_ref \in Int /\ ref.phi_dot_ref \in Int /\ s.phi \in Int
  BY DEF References, Sample
<1>2. PICK rate \in Decayed(ref.phi_dot_ref) :
        next = LET phi == Stored(ref.phi_ref + DecayTau * (ref.phi_dot_ref - rate))
               IN  IF ReadyToRecenter(s, rate)
                     THEN Reference(phi, 0, "Recenter", NearestOrientation(s.phi))
                     ELSE Reference(phi, rate, "SpinDown", None)
  BY DEF SpinDown
<1> DEFINE phi == Stored(ref.phi_ref + DecayTau * (ref.phi_dot_ref - rate))
<1>3. rate \in Int /\ DecayTau \in Int /\ Grid \in Nat \ {0}
  BY <1>1, DecayedInt, HybridAssumption
<1>4. phi \in Int
  BY <1>1, <1>3, NearestInt DEF Stored
<1>5. NearestOrientation(s.phi) \in Int
  BY <1>1, OrientationInt
<1>6. next = Reference(phi, 0, "Recenter", NearestOrientation(s.phi))
      \/ next = Reference(phi, rate, "SpinDown", None)
  BY <1>2
<1> HIDE DEF phi
<1>7. CASE next = Reference(phi, 0, "Recenter", NearestOrientation(s.phi))
  <2>1. NearestOrientation(s.phi) \in Int \cup {None} /\ 0 \in Int
    BY <1>5
  <2>2. QED
    BY <1>4, <1>5, <1>7, <2>1, ReferenceTyped DEF Phases
<1>8. CASE next = Reference(phi, rate, "SpinDown", None)
  BY <1>3, <1>4, <1>8, SpinReferenceTyped
<1>9. QED
  BY <1>6, <1>7, <1>8

(* A clamped integer is an integer.                                        *)
LEMMA BoundedInt ==
  ASSUME NEW x \in Int, NEW b \in Int
  PROVE  Bounded(x, b) \in Int
BY DEF Bounded

(* A truncated quotient is an integer.                                     *)
LEMMA QuotientInt ==
  ASSUME NEW x \in Int, NEW y \in Nat \ {0}
  PROVE  Quotient(x, y) \in Int
BY DEF Quotient

(* A recenter step leads to a reference with the same target.              *)
LEMMA RecenterTyped ==
  ASSUME NEW ref \in References, ref.target \in Int, NEW s \in Sample
  PROVE  /\ Recenter(ref, s) \in References
         /\ Recenter(ref, s) # None
         /\ Recenter(ref, s).target = ref.target
<1> DEFINE error == ref.target - ref.phi_ref
           step == RecenterStep(error, s.dt)
           rate == Bounded(Quotient(error, RecenterTau), MaxRate)
<1>1. /\ ref.phi_ref \in Int /\ s.dt \in Int
      /\ MaxRate \in Int /\ RecenterTau \in Nat \ {0} /\ Grid \in Nat \ {0}
  BY HybridAssumption DEF References, Sample
<1>2. error \in Int
  BY <1>1
<1> HIDE DEF error
<1>3. error * s.dt \in Int /\ MaxRate * s.dt \in Int
  BY <1>1, <1>2
<1>4. step \in Int
  BY <1>1, <1>3, QuotientInt, BoundedInt DEF RecenterStep
<1>5. rate \in Int
  BY <1>1, <1>2, QuotientInt, BoundedInt
<1> HIDE DEF step, rate
<1>6. Stored(ref.phi_ref + step) \in Int
  BY <1>1, <1>4, NearestInt DEF Stored
<1>7. Recenter(ref, s) = Reference(ref.target, 0, "Hold", ref.target)
      \/ Recenter(ref, s) = Reference(Stored(ref.phi_ref + step), rate, "Recenter", ref.target)
  BY DEF Recenter, Held, error, step, rate
<1>8. QED
  BY <1>5, <1>6, <1>7, ReferenceTyped DEF Phases

(* One compute() keeps the reference and its regime together.              *)
LEMMA ComputeKeepsReferenceInv ==
  ASSUME ReferenceInv, NEW s \in Samples, Compute(s)
  PROVE  ReferenceInv'
<1> USE DEF ReferenceInv
<1>1. s \in Sample /\ s.phi \in Int /\ s.phi_dot \in Int
  BY HybridAssumption DEF Sample
<1>2. [phi |-> s.phi, rate |-> s.phi_dot] \in Origins
  BY <1>1 DEF Origins
<1>3. balance_reference' \in NextReferences(s)
  BY DEF Compute
<1>4. CASE regime' # "Balance" \/ Tracking = "Origin"
  <2>1. balance_reference' = None /\ origin' = None
    BY <1>3, <1>4 DEF NextReferences, Compute
  <2>2. QED
    BY <1>4, <2>1 DEF ReferenceBelongsToBalance
<1>5. CASE ~(regime' # "Balance" \/ Tracking = "Origin")
  <2>1. /\ balance_reference' \in References
        /\ balance_reference' # None
        /\ balance_reference'.phase = "Recenter" => balance_reference'.target \in Int
    <3>1. CASE regime # "Balance" \/ balance_reference = None
      <4>1. balance_reference' = Reference(s.phi, s.phi_dot, "SpinDown", None)
        BY <1>3, <1>5, <3>1 DEF NextReferences, Latched
      <4>2. QED
        BY <1>1, <4>1, SpinReferenceTyped
    <3>2. CASE ~(regime # "Balance" \/ balance_reference = None)
      <4>1. balance_reference' \in Advanced(balance_reference, s)
        BY <1>3, <1>5, <3>2 DEF NextReferences
      <4>2. balance_reference \in References /\ balance_reference.phase \in Phases
        BY <3>2 DEF References
      <4>3. CASE balance_reference.phase = "SpinDown"
        BY <1>1, <4>1, <4>2, <4>3, SpinDownTyped DEF Advanced
      <4>4. CASE balance_reference.phase = "Recenter"
        <5>1. balance_reference' = Recenter(balance_reference, s)
          BY <4>1, <4>4 DEF Advanced
        <5>2. QED
          BY <1>1, <3>2, <4>2, <4>4, <5>1, RecenterTyped
      <4>5. CASE balance_reference.phase = "Hold"
        BY <3>2, <4>1, <4>2, <4>5 DEF Advanced
      <4>6. QED
        BY <4>2, <4>3, <4>4, <4>5 DEF Phases
    <3>3. QED
      BY <3>1, <3>2
  <2>2. origin' \in Origins
    <3>1. CASE regime = "Balance"
      BY <1>2, <1>5, <2>1, <3>1 DEF Compute, ReferenceBelongsToBalance
    <3>2. CASE regime # "Balance"
      BY <1>2, <2>1, <3>2 DEF Compute
    <3>3. QED
      BY <3>1, <3>2
  <2>3. QED
    BY <1>5, <2>1, <2>2 DEF ReferenceBelongsToBalance
<1>6. QED
  BY <1>4, <1>5

(* ReferenceInv is an invariant.                                           *)
LEMMA ReferenceInvariant == Spec => []ReferenceInv
<1>1. Init => ReferenceInv
  BY DEF Init, ReferenceInv, ReferenceBelongsToBalance
<1>2. ASSUME ReferenceInv, [Next]_vars PROVE ReferenceInv'
  <2>1. CASE Reset
    BY <2>1 DEF Reset, ReferenceInv, ReferenceBelongsToBalance
  <2>2. CASE UNCHANGED vars
    BY <1>2, <2>2 DEF vars, ReferenceInv, ReferenceBelongsToBalance
  <2>3. QED
    BY <1>2, <2>1, <2>2, ComputeKeepsReferenceInv DEF Next
<1>3. ReferenceInv /\ [Next]_vars => ReferenceInv'
  BY <1>2
<1>4. QED
  BY <1>1, <1>3, PTL DEF Spec

(* Every variable keeps its range; the settle counter stays below its      *)
(* threshold, so the u16 cannot saturate.                                  *)
THEOREM TypeCorrect == Spec => []TypeOK
<1>1. PolicyInv /\ ReferenceInv => TypeOK
  BY DEF PolicyInv, ReferenceInv, TypeOK, Origins
<1>2. QED
  BY <1>1, PolicyInvariant, ReferenceInvariant, PTL

(* A reference exists exactly while the Balance it was latched for lasts.  *)
THEOREM ReferenceLivesInBalance == Spec => []ReferenceBelongsToBalance
<1>1. ReferenceInv => ReferenceBelongsToBalance
  BY DEF ReferenceInv
<1>2. QED
  BY <1>1, ReferenceInvariant, PTL
---------------------------------------------------------------------------
(* On an exact grid spin-down trades rate for arc.                         *)

(* A spin-down step keeps phi_ref + DecayTau * phi_dot_ref.                *)
LEMMA SpinDownConserves ==
  ASSUME Grid = 1, NEW ref \in References, NEW s \in Sample,
         NEW next \in SpinDown(ref, s), next.phase = "SpinDown"
  PROVE  /\ next.phi_ref + DecayTau * next.phi_dot_ref
              = ref.phi_ref + DecayTau * ref.phi_dot_ref
         /\ next.phi_dot_ref \in Decayed(ref.phi_dot_ref)
<1>1. ref.phi_ref \in Int /\ ref.phi_dot_ref \in Int /\ s.phi \in Int
  BY DEF References, Sample
<1>2. PICK rate \in Decayed(ref.phi_dot_ref) :
        next = LET phi == Stored(ref.phi_ref + DecayTau * (ref.phi_dot_ref - rate))
               IN  IF ReadyToRecenter(s, rate)
                     THEN Reference(phi, 0, "Recenter", NearestOrientation(s.phi))
                     ELSE Reference(phi, rate, "SpinDown", None)
  BY DEF SpinDown
<1> DEFINE arc == DecayTau * (ref.phi_dot_ref - rate)
<1>3. rate \in Int /\ DecayTau \in Nat
  BY <1>1, DecayedInt, HybridAssumption
<1>4. arc \in Int /\ arc = DecayTau * ref.phi_dot_ref - DecayTau * rate
  BY <1>1, <1>3
<1>5. Stored(ref.phi_ref + arc) = ref.phi_ref + arc
  BY <1>1, <1>4, NearestUnit DEF Stored
<1>6. next = Reference(ref.phi_ref + arc, rate, "SpinDown", None)
  <2>1. CASE ReadyToRecenter(s, rate)
    <3>1. next.phase = "Recenter"
      BY <1>2, <2>1 DEF Reference
    <3>2. QED
      BY <3>1
  <2>2. CASE ~ReadyToRecenter(s, rate)
    BY <1>2, <1>5, <2>2
  <2>3. QED
    BY <2>1, <2>2
<1>7. next.phi_ref = ref.phi_ref + arc /\ next.phi_dot_ref = rate
  <2> HIDE DEF arc
  <2> QED
    BY <1>6 DEF Reference
<1>8. DecayTau * rate \in Int /\ DecayTau * ref.phi_dot_ref \in Int
  BY <1>1, <1>3
<1>9. next.phi_ref + DecayTau * next.phi_dot_ref
        = ref.phi_ref + DecayTau * ref.phi_dot_ref
  BY <1>1, <1>4, <1>7, <1>8
<1>10. QED
  BY <1>2, <1>7, <1>9

(* Decaying twice is decaying.                                             *)
LEMMA DecayedTwice ==
  ASSUME NEW a \in Int, NEW b \in Decayed(a), NEW c \in Decayed(b)
  PROVE  c \in Decayed(a)
<1>1. b \in Int /\ c \in Int
  BY DecayedInt
<1>2. Magnitude(c) <= Magnitude(b) /\ Magnitude(b) <= Magnitude(a)
  BY <1>1 DEF Decayed, Magnitude
<1>3. c \in -Magnitude(a)..Magnitude(a)
  BY <1>1, <1>2 DEF Magnitude
<1>4. c * a >= 0
  <2>1. c * b >= 0 /\ b * a >= 0
    BY DEF Decayed
  <2>2. b = 0 => c = 0
    BY <1>1, <1>2 DEF Magnitude
  <2>3. CASE b = 0
    BY <2>2, <2>3
  <2>4. CASE b > 0
    <3>1. c >= 0 /\ a >= 0
      BY <1>1, <2>1, <2>4
    <3>2. QED
      BY <1>1, <3>1
  <2>5. CASE b < 0
    <3>1. c <= 0 /\ a <= 0
      BY <1>1, <2>1, <2>5
    <3>2. QED
      BY <1>1, <3>1
  <2>6. QED
    BY <1>1, <2>3, <2>4, <2>5
<1>5. QED
  BY <1>3, <1>4 DEF Decayed

(* A rate is a decay of itself.                                            *)
LEMMA DecayedSelf ==
  ASSUME NEW a \in Int
  PROVE  a \in Decayed(a)
<1>1. a * a >= 0
  <2>1. CASE a >= 0
    BY <2>1
  <2>2. CASE a < 0
    BY <2>2
  <2>3. QED
    BY <2>1, <2>2
<1>2. a \in -Magnitude(a)..Magnitude(a)
  BY DEF Magnitude
<1>3. QED
  BY <1>1, <1>2 DEF Decayed

(* A compute() that ends in spin-down has just latched the reference, or   *)
(* continues a spin-down of the same origin.                               *)
LEMMA SpinDownSources ==
  ASSUME ReferenceInv, NEW s \in Samples, Compute(s),
         balance_reference' # None, balance_reference'.phase = "SpinDown"
  PROVE  \/ /\ balance_reference' = Reference(s.phi, s.phi_dot, "SpinDown", None)
            /\ origin' = [phi |-> s.phi, rate |-> s.phi_dot]
         \/ /\ balance_reference \in References
            /\ balance_reference # None
            /\ balance_reference.phase = "SpinDown"
            /\ balance_reference' \in SpinDown(balance_reference, s)
            /\ origin' = origin
<1>1. balance_reference' \in NextReferences(s)
  BY DEF Compute
<1>2. regime' = "Balance" /\ Tracking # "Origin"
  BY <1>1 DEF NextReferences
<1>3. s \in Sample /\ s.phi \in Int /\ s.phi_dot \in Int
  BY HybridAssumption DEF Sample
<1>4. CASE regime # "Balance" \/ balance_reference = None
  <2>1. balance_reference' = Reference(s.phi, s.phi_dot, "SpinDown", None)
    BY <1>1, <1>2, <1>4 DEF NextReferences, Latched
  <2>2. regime # "Balance"
    BY <1>2, <1>4 DEF ReferenceInv, ReferenceBelongsToBalance
  <2>3. QED
    BY <2>1, <2>2 DEF Compute
<1>5. CASE ~(regime # "Balance" \/ balance_reference = None)
  <2>1. balance_reference' \in Advanced(balance_reference, s)
    BY <1>1, <1>2, <1>5 DEF NextReferences
  <2>2. balance_reference \in References /\ balance_reference.phase \in Phases
    BY <1>5 DEF ReferenceInv, References
  <2>3. balance_reference.phase = "SpinDown"
    <3>1. CASE balance_reference.phase = "Recenter"
      <4>1. balance_reference' = Recenter(balance_reference, s)
        BY <2>1, <3>1 DEF Advanced
      <4>2. Recenter(balance_reference, s).phase # "SpinDown"
        BY DEF Recenter, Held, Reference
      <4>3. QED
        BY <4>1, <4>2
    <3>2. CASE balance_reference.phase = "Hold"
      BY <2>1, <3>2 DEF Advanced
    <3>3. QED
      BY <2>2, <3>1, <3>2 DEF Phases
  <2>4. balance_reference' \in SpinDown(balance_reference, s)
    BY <2>1, <2>3 DEF Advanced
  <2>5. origin' = origin
    BY <1>5, <2>3 DEF Compute, Phase
  <2>6. QED
    BY <1>5, <2>2, <2>3, <2>4, <2>5
<1>6. QED
  BY <1>4, <1>5

(* Where positions are exact, the reference coasts at most DecayTau times  *)
(* the latched rate and never reverses, for every sample interval.         *)
THEOREM SpinDownOnlyCoasts == ASSUME Grid = 1 PROVE Spec => []SpinDownCoasts
<1>1. Init => SpinDownCoasts
  BY DEF Init, SpinDownCoasts
<1>2. ASSUME ReferenceInv, SpinDownCoasts, [Next]_vars PROVE SpinDownCoasts'
  <2>1. CASE Reset
    BY <2>1 DEF Reset, SpinDownCoasts
  <2>2. CASE UNCHANGED vars
    BY <1>2, <2>2 DEF vars, SpinDownCoasts
  <2>3. ASSUME NEW s \in Samples, Compute(s) PROVE SpinDownCoasts'
    <3>1. SUFFICES ASSUME balance_reference' # None,
                          balance_reference'.phase = "SpinDown"
                   PROVE  SpinDownCoasts'
      BY DEF SpinDownCoasts
    <3>2. s \in Sample /\ s.phi \in Int /\ s.phi_dot \in Int
      BY HybridAssumption DEF Sample
    <3>3. CASE /\ balance_reference' = Reference(s.phi, s.phi_dot, "SpinDown", None)
               /\ origin' = [phi |-> s.phi, rate |-> s.phi_dot]
      <4>1. /\ balance_reference'.phi_ref = s.phi
            /\ balance_reference'.phi_dot_ref = s.phi_dot
            /\ origin'.phi = s.phi /\ origin'.rate = s.phi_dot
        BY <3>3 DEF Reference
      <4>2. QED
        BY <3>2, <4>1, DecayedSelf DEF SpinDownCoasts
    <3>4. CASE /\ balance_reference \in References
               /\ balance_reference # None
               /\ balance_reference.phase = "SpinDown"
               /\ balance_reference' \in SpinDown(balance_reference, s)
               /\ origin' = origin
      <4>1. origin.rate \in Int
        BY <1>2, <3>4 DEF ReferenceInv, Origins
      <4>2. /\ balance_reference'.phi_ref + DecayTau * balance_reference'.phi_dot_ref
                 = balance_reference.phi_ref + DecayTau * balance_reference.phi_dot_ref
            /\ balance_reference'.phi_dot_ref \in Decayed(balance_reference.phi_dot_ref)
        BY <3>1, <3>2, <3>4, SpinDownConserves
      <4>3. balance_reference.phi_dot_ref \in Decayed(origin.rate)
        BY <1>2, <3>4 DEF SpinDownCoasts
      <4>4. balance_reference'.phi_dot_ref \in Decayed(origin.rate)
        BY <4>1, <4>2, <4>3, DecayedTwice
      <4>5. QED
        BY <1>2, <3>4, <4>2, <4>4 DEF SpinDownCoasts
    <3>5. QED
      BY <1>2, <2>3, <3>1, <3>3, <3>4, SpinDownSources
  <2>4. QED
    BY <1>2, <2>1, <2>2, <2>3 DEF Next
<1>3. ReferenceInv /\ SpinDownCoasts /\ [Next]_vars => SpinDownCoasts'
  BY <1>2
<1>4. QED
  BY <1>1, <1>3, ReferenceInvariant, PTL DEF Spec
---------------------------------------------------------------------------
(* Recentering.  The nearest multiple of a unit is one, at most half a     *)
(* unit away.                                                              *)
LEMMA NearestIsNear ==
  ASSUME NEW x \in Int, NEW unit \in Nat \ {0}
  PROVE  /\ Nearest(x, unit) % unit = 0
         /\ 2 * Magnitude(Nearest(x, unit) - x) <= unit
<1> DEFINE d == 2 * unit
           n == 2 * x + unit
           k == n \div d
           r == n % d
           m == k * unit
<1>1. d \in Nat \ {0} /\ n \in Int /\ d = 2 * unit /\ n = 2 * x + unit
  OBVIOUS
<1> HIDE DEF d, n
<1>2. k \in Int /\ r \in 0 .. d - 1 /\ n = d * k + r
  BY <1>1, SMT
<1>3. Nearest(x, unit) = m
  BY DEF Nearest, m, k, n, d
<1> HIDE DEF k, r
<1>4. m \in Int /\ d * k = 2 * m
  BY <1>1, <1>2, SMT
<1>5. m % unit = 0
  <2> DEFINE q == m \div unit
             s == m % unit
  <2>1. q \in Int /\ s \in 0 .. unit - 1 /\ m = unit * q + s
    <3> HIDE DEF m
    <3> QED
      BY <1>4, SMT
  <2> HIDE DEF q, s
  <2>2. unit * (k - q) = s
    <3>1. unit * (k - q) = unit * k - unit * q /\ unit * k \in Int /\ unit * q \in Int
      BY <1>2, <2>1, SMT
    <3>2. m = unit * k
      BY <1>2
    <3> HIDE DEF m
    <3> QED
      BY <2>1, <3>1, <3>2
  <2>3. k - q \in Int
    BY <1>2, <2>1
  <2>4. \A j \in Int : j >= 1 => unit * j >= unit
    BY SMT
  <2>5. \A j \in Int : j <= -1 => unit * j <= -unit
    BY SMT
  <2>6. k - q = 0
    BY <2>1, <2>2, <2>3, <2>4, <2>5
  <2>7. s = 0
    BY <2>2, <2>6
  <2> QED
    BY <2>7 DEF s
<1> HIDE DEF m
<1>6. 2 * Magnitude(m - x) <= unit
  BY <1>1, <1>2, <1>4 DEF Magnitude
<1> QED
  BY <1>3, <1>5, <1>6

(* A step towards the target has the sign of the error and keeps to the    *)
(* rate limit.                                                             *)
LEMMA StepIsBounded ==
  ASSUME NEW error \in Int, NEW dt \in Nat \ {0}
  PROVE  /\ RecenterStep(error, dt) \in Int
         /\ Magnitude(RecenterStep(error, dt)) <= MaxRate * dt
         /\ error >= 0 => RecenterStep(error, dt) >= 0
         /\ error <= 0 => RecenterStep(error, dt) <= 0
<1> DEFINE p == error * dt
           q == Quotient(p, RecenterTau)
           b == MaxRate * dt
<1>1. RecenterTau \in Nat \ {0} /\ MaxRate \in Nat
  BY HybridAssumption
<1>2. p \in Int /\ (error >= 0 => p >= 0) /\ (error <= 0 => p <= 0)
  BY SMT
<1>3. b \in Nat
  BY <1>1, SMT
<1> HIDE DEF p, b
<1>4. \A x \in Nat : x \div RecenterTau \in Nat
  BY <1>1, SMT
<1>5. q \in Int /\ (p >= 0 => q >= 0) /\ (p <= 0 => q <= 0)
  <2>1. CASE p < 0
    <3>1. -p \in Nat
      BY <1>2, <2>1
    <3>2. (-p) \div RecenterTau \in Nat
      BY <1>4, <3>1
    <3>3. q = -((-p) \div RecenterTau)
      BY <2>1 DEF Quotient
    <3> HIDE DEF q
    <3> QED
      BY <2>1, <3>2, <3>3, <1>2
  <2>2. CASE p = 0
    <3>1. 0 \div RecenterTau = 0
      BY <1>1, SMT
    <3> QED
      BY <2>2, <3>1 DEF Quotient
  <2>3. CASE p > 0
    <3>1. q = p \div RecenterTau /\ p \in Nat
      BY <1>2, <2>3 DEF Quotient
    <3> QED
      BY <1>2, <1>4, <2>3, <3>1
  <2> QED
    BY <1>2, <2>1, <2>2, <2>3
<1> HIDE DEF q
<1>6. RecenterStep(error, dt) = Bounded(q, b)
  BY DEF RecenterStep, q, p, b
<1>7. /\ Bounded(q, b) \in Int /\ Magnitude(Bounded(q, b)) <= b
      /\ q >= 0 => Bounded(q, b) >= 0
      /\ q <= 0 => Bounded(q, b) <= 0
  BY <1>3, <1>5 DEF Bounded, Magnitude
<1> QED
  BY <1>2, <1>5, <1>6, <1>7 DEF b

(* A compute() that ends in a recentering reference has just begun it from *)
(* spin-down, or takes one step of it.                                     *)
LEMMA RecenterSources ==
  ASSUME ReferenceInv, NEW s \in Samples, Compute(s),
         balance_reference' # None, balance_reference'.phase = "Recenter"
  PROVE  \/ /\ balance_reference'.target = NearestOrientation(s.phi)
            /\ origin' = [phi |-> s.phi, rate |-> s.phi_dot]
            /\ Phase(balance_reference) # "Recenter"
         \/ /\ balance_reference \in References /\ balance_reference.phase = "Recenter"
            /\ balance_reference # None /\ balance_reference.target \in Int
            /\ balance_reference' = Recenter(balance_reference, s)
            /\ origin' = origin
<1>1. balance_reference' \in NextReferences(s)
  BY DEF Compute
<1>2. regime' = "Balance" /\ Tracking # "Origin"
  BY <1>1 DEF NextReferences
<1>3. ~(regime # "Balance" \/ balance_reference = None)
  <2> SUFFICES ASSUME regime # "Balance" \/ balance_reference = None PROVE FALSE
    OBVIOUS
  <2>1. balance_reference' = Reference(s.phi, s.phi_dot, "SpinDown", None)
    BY <1>1, <1>2 DEF NextReferences, Latched
  <2> QED
    BY <2>1 DEF Reference
<1>4. /\ balance_reference' \in Advanced(balance_reference, s)
      /\ balance_reference \in References /\ balance_reference.phase \in Phases
  BY <1>1, <1>2, <1>3 DEF NextReferences, ReferenceInv, References
<1>5. CASE balance_reference.phase = "SpinDown"
  <2>1. balance_reference' \in SpinDown(balance_reference, s)
    BY <1>4, <1>5 DEF Advanced
  <2>2. balance_reference'.target = NearestOrientation(s.phi)
    <3>1. PICK phi, rate :
            \/ balance_reference' = Reference(phi, 0, "Recenter", NearestOrientation(s.phi))
            \/ balance_reference' = Reference(phi, rate, "SpinDown", None)
      BY <2>1 DEF SpinDown
    <3> QED
      BY <3>1 DEF Reference
  <2>3. Phase(balance_reference) = "SpinDown" /\ Phase(balance_reference') = "Recenter"
    BY <1>3, <1>5 DEF Phase
  <2>4. origin' = [phi |-> s.phi, rate |-> s.phi_dot]
    BY <2>3 DEF Compute
  <2> QED
    BY <2>2, <2>3, <2>4
<1>6. CASE balance_reference.phase = "Recenter"
  <2>1. balance_reference' = Recenter(balance_reference, s)
    BY <1>4, <1>6 DEF Advanced
  <2>2. Phase(balance_reference) = Phase(balance_reference')
    BY <1>3, <1>6 DEF Phase
  <2>3. origin' = origin
    BY <1>3, <2>2 DEF Compute
  <2>4. balance_reference.target \in Int
    BY <1>3, <1>6 DEF ReferenceInv
  <2> QED
    BY <1>3, <1>4, <1>6, <2>1, <2>3, <2>4
<1>7. CASE balance_reference.phase = "Hold"
  BY <1>4, <1>7 DEF Advanced
<1> QED
  BY <1>4, <1>5, <1>6, <1>7 DEF Phases

(* For every grid: the target is an equivalent of the commanded            *)
(* orientation at most half a turn from the arm when recentering began, so *)
(* recentering unwinds no accumulated turn.                                *)
THEOREM TargetStaysNearest == Spec => []TargetIsNearestBranch
<1>1. Init => TargetIsNearestBranch
  BY DEF Init, TargetIsNearestBranch
<1>2. ASSUME ReferenceInv, TargetIsNearestBranch, [Next]_vars
      PROVE  TargetIsNearestBranch'
  <2>1. CASE Reset
    BY <2>1 DEF Reset, TargetIsNearestBranch
  <2>2. CASE UNCHANGED vars
    BY <1>2, <2>2 DEF vars, TargetIsNearestBranch
  <2>3. ASSUME NEW s \in Samples, Compute(s) PROVE TargetIsNearestBranch'
    <3>1. SUFFICES ASSUME balance_reference' # None,
                          balance_reference'.phase = "Recenter"
                   PROVE  TargetIsNearestBranch'
      BY DEF TargetIsNearestBranch
    <3>2. CASE /\ balance_reference'.target = NearestOrientation(s.phi)
               /\ origin' = [phi |-> s.phi, rate |-> s.phi_dot]
      <4> DEFINE n == Nearest(s.phi - Orientation, Revolution)
      <4>1. /\ s.phi \in Int /\ Orientation \in Int /\ Revolution \in Nat \ {0}
            /\ s.phi - Orientation \in Int
        BY HybridAssumption DEF Sample
      <4>2. /\ n \in Int /\ n % Revolution = 0
            /\ 2 * Magnitude(n - (s.phi - Orientation)) <= Revolution
        BY <4>1, NearestInt, NearestIsNear
      <4>3. balance_reference'.target = Orientation + n /\ origin'.phi = s.phi
        BY <3>2 DEF NearestOrientation
      <4> HIDE DEF n
      <4>4. /\ (Orientation + n) - Orientation = n
            /\ (Orientation + n) - s.phi = n - (s.phi - Orientation)
        BY <4>1, <4>2
      <4> QED
        BY <4>2, <4>3, <4>4 DEF TargetIsNearestBranch
    <3>3. CASE /\ balance_reference \in References /\ balance_reference.phase = "Recenter"
               /\ balance_reference # None /\ balance_reference.target \in Int
               /\ balance_reference' = Recenter(balance_reference, s)
               /\ origin' = origin
      <4>1. s \in Sample
        BY HybridAssumption
      <4>2. balance_reference'.target = balance_reference.target
        BY <3>3, <4>1, RecenterTyped
      <4> QED
        BY <1>2, <3>3, <4>2 DEF TargetIsNearestBranch
    <3> QED
      BY <1>2, <2>3, <3>1, <3>2, <3>3, RecenterSources
  <2> QED
    BY <1>2, <2>1, <2>2, <2>3 DEF Next
<1>3. ReferenceInv /\ TargetIsNearestBranch /\ [Next]_vars => TargetIsNearestBranch'
  BY <1>2
<1> QED
  BY <1>1, <1>3, ReferenceInvariant, PTL DEF Spec

(* Where positions are exact, recentering closes in on that target within  *)
(* the rate limit, from one side and without turning back, for every       *)
(* sample interval.                                                        *)
THEOREM RecentersSmoothly == ASSUME Grid = 1 PROVE Spec => RecenterIsSmooth
<1> DEFINE before == balance_reference.target - balance_reference.phi_ref
           after == balance_reference'.target - balance_reference'.phi_ref
<1>1. ASSUME ReferenceInv, [Next]_vars, ~UNCHANGED vars,
             Phase(balance_reference) = "Recenter", Phase(balance_reference') = "Recenter"
      PROVE  /\ balance_reference'.target = balance_reference.target
             /\ before * after > 0
             /\ Magnitude(after) <= Magnitude(before)
             /\ Magnitude(before) - Magnitude(after) <= MaxRate * sample'.dt
  <2>1. balance_reference' # None /\ balance_reference'.phase = "Recenter"
    <3>1. None # "Recenter"
      BY RecordAssumption DEF Phases
    <3> QED
      BY <1>1, <3>1 DEF Phase
  <2>2. ~Reset
    BY <2>1 DEF Reset
  <2>3. PICK s \in Samples : Compute(s)
    BY <1>1, <2>2 DEF Next
  <2>4. /\ balance_reference \in References /\ balance_reference # None
        /\ balance_reference.target \in Int
        /\ balance_reference' = Recenter(balance_reference, s)
    BY <1>1, <2>1, <2>3, RecenterSources
  <2> DEFINE step == RecenterStep(before, s.dt)
  <2>5. /\ before \in Int /\ s \in Sample /\ s.dt \in Nat \ {0}
        /\ balance_reference.phi_ref \in Int
    BY <2>4, HybridAssumption DEF References, Sample
  <2>6. balance_reference'.target = balance_reference.target
    BY <2>4, <2>5, RecenterTyped
  <2>7. /\ ~(Magnitude(before) <= HoldBand \/ Magnitude(step) >= Magnitude(before))
        /\ balance_reference'.phi_ref = Stored(balance_reference.phi_ref + step)
    BY <2>1, <2>4 DEF Recenter, Held, Reference
  <2> HIDE DEF before
  <2>8. /\ step \in Int /\ Magnitude(step) <= MaxRate * s.dt
        /\ before >= 0 => step >= 0
        /\ before <= 0 => step <= 0
    BY <2>5, StepIsBounded
  <2> HIDE DEF step
  <2>9. balance_reference'.phi_ref = balance_reference.phi_ref + step
    <3>1. balance_reference.phi_ref + step \in Int
      BY <2>5, <2>8
    <3> QED
      BY <2>7, <3>1, NearestUnit DEF Stored
  <2>10. after = before - step
    BY <2>4, <2>5, <2>6, <2>8, <2>9 DEF before
  <2> HIDE DEF after
  <2>11. /\ (before > 0 /\ after > 0) \/ (before < 0 /\ after < 0)
         /\ Magnitude(after) <= Magnitude(before)
         /\ Magnitude(before) - Magnitude(after) = Magnitude(step)
    BY <2>5, <2>7, <2>8, <2>10, HybridAssumption DEF Magnitude
  <2>12. before * after > 0
    <3>1. after \in Int
      BY <2>5, <2>8, <2>10
    <3> QED
      BY <2>5, <2>11, <3>1, SMT
  <2>13. sample'.dt = s.dt
    BY <2>3 DEF Compute
  <2> QED
    BY <2>6, <2>8, <2>11, <2>12, <2>13
<1>2. ReferenceInv /\ [Next]_vars =>
        [/\ Phase(balance_reference) = "Recenter"
         /\ Phase(balance_reference') = "Recenter"
         => /\ balance_reference'.target = balance_reference.target
            /\ before * after > 0
            /\ Magnitude(after) <= Magnitude(before)
            /\ Magnitude(before) - Magnitude(after) <= MaxRate * sample'.dt]_vars
  <2> HIDE DEF before, after
  <2> QED
    BY <1>1
<1> QED
  BY <1>2, TargetStaysNearest, ReferenceInvariant, PTL DEF Spec, RecenterIsSmooth

=============================================================================
