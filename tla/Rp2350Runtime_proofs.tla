------------------------ MODULE Rp2350Runtime_proofs ------------------------
(***************************************************************************)
(* Proofs about the C++ port for every configuration: IInv is inductive,   *)
(* the commands it lets through are earned, and it implements the lease.   *)
(***************************************************************************)
EXTENDS Rp2350Runtime, CommandSafetyGate_proofs

CycleKinds == {"None", "Primed", "Rejected", "Computed", "Error"}
CycleType == [kind : CycleKinds, at : Nat \cup {None}, authorized : Int \cup {None}]

(* What the cycle-result constructors build.                               *)
LEMMA ResultsAreTyped ==
  ASSUME NEW kind \in CycleKinds, NEW at \in Nat \cup {None},
         NEW token \in Int \cup {None}
  PROVE  /\ Result(kind, at, token) \in CycleType
         /\ Result(kind, at, token).authorized = token
         /\ WithoutToken(kind) \in CycleType
         /\ WithoutToken(kind).authorized = None
BY DEF Result, WithoutToken, CycleType

(* A cycle without authority returns no token.                             *)
LEMMA UnauthorizedTyped ==
  ASSUME NEW obs, NEW at \in Nat, NEW demand
  PROVE  /\ Unauthorized(obs, at, demand) \in CycleType
         /\ Unauthorized(obs, at, demand).authorized = None
<1>1. {"Rejected", "Error", "Computed"} \subseteq CycleKinds
  BY DEF CycleKinds
<1>2. None \in Int \cup {None} /\ at \in Nat \cup {None}
  OBVIOUS
<1>3. /\ WithoutToken("Rejected") \in CycleType /\ WithoutToken("Rejected").authorized = None
      /\ WithoutToken("Error") \in CycleType /\ WithoutToken("Error").authorized = None
      /\ Result("Computed", at, None) \in CycleType
      /\ Result("Computed", at, None).authorized = None
  BY <1>1, <1>2, ResultsAreTyped
<1>4. QED
  BY <1>3 DEF Unauthorized

(* Limits that are not usable leave a gate without a profile.              *)
LEMMA ChosenProfile ==
  ASSUME NEW limits
  PROVE  (IF Usable(limits) THEN limits ELSE None) \in Profiles \cup {None}
BY DEF Usable

(* The states are told apart by their mode.                                *)
LEMMA StatesDiffer ==
  /\ ~IsActive(Ready) /\ ~IsActive(Disabled) /\ Ready # Disabled
  /\ \A r \in Regimes : IsActive(Active(r)) /\ Active(r) # Disabled /\ Active(r) # Ready
  /\ {Ready, Disabled} \subseteq RuntimeStates
  /\ \A r \in Regimes : Active(r) \in RuntimeStates
BY DEF IsActive, Active, Ready, Disabled, RuntimeStates
---------------------------------------------------------------------------
(* A new runtime satisfies the invariant.                                  *)
LEMMA InitEstablishesIInv == Init => IInv
<1> SUFFICES ASSUME Init PROVE IInv
  OBVIOUS
<1>1. gate \in Gates /\ gate.last_timestamp = None
  BY DEF Init, NewGate, Gate, Gates
<1>2. runtime_state = Ready /\ ~IsActive(runtime_state) /\ runtime_state # Disabled
      /\ runtime_state \in RuntimeStates
  BY StatesDiffer DEF Init
<1>3. TypeOK
  <2>1. "None" \in CycleKinds /\ None \in Nat \cup {None} /\ None \in Int \cup {None}
    BY DEF CycleKinds
  <2>2. cycle \in CycleType
    BY <2>1, ResultsAreTyped DEF Init
  <2>3. QED
    BY <1>1, <1>2, <2>2 DEF Init, TypeOK, CycleType, CycleKinds, Regimes
<1>4. PortCoherent /\ PortCommandIsEarned
  BY <1>1, <1>2 DEF Init, PortCoherent, PortCommandIsEarned
<1>5. QED
  BY <1>3, <1>4 DEF IInv

(* Steps that move only the estimator's clock and the result.              *)
LEMMA SupervisionKeptPreservesIInv ==
  ASSUME IInv, UNCHANGED <<gate, supervision>>,
         previous' \in Nat \cup {None},
         previous # None => previous' # None /\ previous <= previous',
         cycle' \in CycleType
  PROVE  IInv'
<1> USE DEF IInv
<1>1. TypeOK'
  BY DEF TypeOK, supervision, CycleType, CycleKinds
<1>2. gate.last_timestamp \in Nat \cup {None} /\ previous \in Nat \cup {None}
      /\ granted_at \in Nat \cup {None}
  BY DEF TypeOK, Gates
<1>3. PortCoherent'
  BY <1>2 DEF PortCoherent, supervision
<1>4. PortCommandIsEarned'
  BY DEF PortCommandIsEarned, supervision
<1>5. QED
  BY <1>1, <1>3, <1>4

(* Every release: cancel, disable, a lost permit, a re-prime.              *)
LEMMA ReleasePreservesIInv ==
  ASSUME IInv, NEW state \in {Ready, Disabled}, Released(state),
         previous' \in Nat \cup {None}, cycle' \in CycleType
  PROVE  IInv'
<1> USE DEF IInv
<1>1. gate' \in Gates /\ gate'.last_timestamp = None
  BY ResetHistoryGate DEF Released, TypeOK
<1>2. /\ authority_mode' = "Disarmed" /\ runtime_state' = state
      /\ closed_loop_requested' = FALSE /\ granted_at' = None
      /\ UNCHANGED requested_regime
  BY DEF Released
<1>3. TypeOK'
  BY <1>1, <1>2, StatesDiffer DEF TypeOK, CycleType, CycleKinds
<1>4. PortCoherent' /\ PortCommandIsEarned'
  BY <1>1, <1>2, StatesDiffer DEF PortCoherent, PortCommandIsEarned
<1>5. QED
  BY <1>3, <1>4

(* An estimate is later than everything the runtime has seen.              *)
LEMMA EstimateIsLater ==
  ASSUME IInv, NEW obs, NEW at \in Times, EstimateReady(obs, at)
  PROVE  at \in Nat /\ previous \in Nat /\ previous < at
BY PortAssumption DEF EstimateReady, IInv, TypeOK

(* Authority goes on under a permit or starts with a grant; either way the *)
(* gate has usable limits and accepts the time.                            *)
LEMMA LiveCycleStarts ==
  ASSUME IInv, NEW obs \in Observations, NEW at \in Times,
         NEW demand \in Commands \cup {None}, LiveCycle(obs, at, demand)
  PROVE  /\ gate.profile # None
         /\ closed_loop_requested
         /\ ~ConstrainFails(gate, at)
         /\ IsActive(runtime_state) \/ (runtime_state = Ready /\ gate.last_timestamp = None)
<1> USE DEF IInv
<1>1. at \in Nat /\ previous \in Nat /\ previous < at
  BY EstimateIsLater DEF LiveCycle
<1>2. gate.profile # None /\ closed_loop_requested
      /\ (IsActive(runtime_state) \/ runtime_state = Ready)
  BY DEF LiveCycle, Grants, PortCoherent
<1>3. gate.last_timestamp \in Nat \cup {None}
  BY DEF TypeOK, Gates
<1>4. gate.last_timestamp # None => IsActive(runtime_state) /\ gate.last_timestamp <= previous
  BY DEF PortCoherent
<1>5. ~ConstrainFails(gate, at)
  BY <1>1, <1>2, <1>3, <1>4 DEF ConstrainFails
<1>6. QED
  BY <1>2, <1>4, <1>5

(* A live cycle ends Active in the requested regime, with its history      *)
(* earned since the grant.                                                 *)
LEMMA LiveCyclePreservesIInv ==
  ASSUME IInv, NEW obs \in Observations, NEW at \in Times,
         NEW demand \in Commands \cup {None}, LiveCycle(obs, at, demand)
  PROVE  IInv'
<1> USE DEF IInv
<1>1. at \in Nat /\ previous \in Nat /\ previous < at /\ previous' = at
      /\ (demand # None => demand \in Int)
  BY EstimateIsLater, PortAssumption DEF LiveCycle
<1>2. /\ gate \in Gates /\ gate.last_timestamp \in Nat \cup {None}
      /\ requested_regime \in Regimes
  BY DEF TypeOK, Gates
<1>3. gate.profile # None /\ closed_loop_requested /\ ~ConstrainFails(gate, at)
      /\ (IsActive(runtime_state) \/ gate.last_timestamp = None)
  BY LiveCycleStarts
<1>4. /\ authority_mode' = "ClosedLoop"
      /\ runtime_state' = Active(requested_regime)
      /\ granted_at' = IF IsActive(runtime_state) THEN granted_at ELSE at
      /\ UNCHANGED <<closed_loop_requested, requested_regime>>
      /\ demand = None => cycle' = WithoutToken("Error") /\ UNCHANGED gate
      /\ demand # None => /\ gate' = AfterConstrain(gate, demand, at)
                          /\ cycle' = Authorized(demand, at)
  BY <1>3 DEF LiveCycle
<1>5. granted_at' \in Nat /\ granted_at' <= at
  BY <1>1, <1>4 DEF PortCoherent, TypeOK
<1>6. gate.last_timestamp # None =>
        /\ granted_at' <= gate.last_timestamp
        /\ gate.last_timestamp <= previous
        /\ Magnitude(gate.last_command)
             <= gate.profile.slew * (gate.last_timestamp - granted_at')
        /\ Magnitude(gate.last_command) <= gate.profile.max_abs
  BY <1>3, <1>4 DEF PortCommandIsEarned, PortCoherent
<1>7. IsActive(runtime_state') /\ runtime_state' \in RuntimeStates
      /\ runtime_state' # Disabled
  BY <1>2, <1>4, StatesDiffer
<1>8. CASE demand = None
  <2>1. cycle' \in CycleType /\ UNCHANGED gate
    <3>1. "Error" \in CycleKinds /\ None \in Nat \cup {None} /\ None \in Int \cup {None}
      BY DEF CycleKinds
    <3>2. WithoutToken("Error") \in CycleType
      BY <3>1, ResultsAreTyped
    <3>3. QED
      BY <1>4, <1>8, <3>2
  <2>2. TypeOK'
    BY <1>1, <1>2, <1>3, <1>4, <1>5, <1>7, <2>1 DEF TypeOK, CycleType, CycleKinds
  <2>3. PortCoherent'
    BY <1>1, <1>2, <1>3, <1>4, <1>5, <1>6, <1>7, <2>1, NoneAssumption DEF PortCoherent
  <2>4. PortCommandIsEarned'
    BY <1>5, <1>6, <2>1, NoneAssumption DEF PortCommandIsEarned
  <2>5. QED
    BY <2>2, <2>3, <2>4
<1>9. CASE demand # None
  <2>1. /\ gate' \in Gates
        /\ gate'.profile = gate.profile
        /\ gate'.last_command = Constrained(gate, demand, at)
        /\ gate'.last_timestamp = at
        /\ Magnitude(gate'.last_command) <= gate'.profile.slew * (at - granted_at')
        /\ Magnitude(gate'.last_command) <= gate'.profile.max_abs
    <3>1. gate.last_timestamp # None => gate.last_timestamp <= at
      BY <1>1, <1>2, <1>6
    <3>2. QED
      BY <1>1, <1>2, <1>3, <1>4, <1>5, <1>6, <1>9, <3>1, ConstrainKeepsHistory
  <2>2. cycle' \in CycleType
    <3>1. "Computed" \in CycleKinds /\ at \in Nat \cup {None}
          /\ Constrained(gate, demand, at) \in Int \cup {None}
      BY <1>1, <2>1 DEF CycleKinds, Gates
    <3>2. Result("Computed", at, Constrained(gate, demand, at)) \in CycleType
      BY <3>1, ResultsAreTyped
    <3>3. cycle' = Result("Computed", at, Constrained(gate, demand, at))
      BY <1>4, <1>9 DEF Authorized
    <3>4. QED
      BY <3>2, <3>3
  <2>3. TypeOK'
    BY <1>1, <1>2, <1>3, <1>4, <1>5, <1>7, <2>1, <2>2 DEF TypeOK, CycleType, CycleKinds
  <2>4. PortCoherent'
    BY <1>1, <1>2, <1>3, <1>4, <1>5, <1>7, <2>1, NoneAssumption DEF PortCoherent
  <2>5. PortCommandIsEarned'
    BY <1>5, <2>1, NoneAssumption DEF PortCommandIsEarned
  <2>6. QED
    BY <2>3, <2>4, <2>5
<1>10. QED
  BY <1>8, <1>9

(* Every cycle preserves the invariant.                                    *)
LEMMA StepPreservesIInv ==
  ASSUME IInv, Step
  PROVE  IInv'
<1> USE DEF IInv
<1>1. previous \in Nat \cup {None}
  BY DEF TypeOK
<1>2. {WithoutToken("Error"), WithoutToken("Primed")} \subseteq CycleType
  BY ResultsAreTyped, NoneAssumption DEF CycleKinds, WithoutToken, Result, CycleType
<1>3. ASSUME NEW obs, NEW at, EstimatorFails(obs, at) PROVE IInv'
  BY <1>1, <1>2, <1>3, SupervisionKeptPreservesIInv DEF EstimatorFails
<1>4. ASSUME NEW obs, NEW at \in Times, Prime(obs, at) PROVE IInv'
  <2>1. /\ at \in Nat /\ previous' = at /\ cycle' \in CycleType
        /\ previous # None => previous' # None /\ previous <= previous'
    BY <1>1, <1>2, <1>4, PortAssumption, NoneAssumption DEF Prime
  <2>2. CASE IsActive(runtime_state)
    BY <1>4, <2>1, <2>2, ReleasePreservesIInv DEF Prime
  <2>3. CASE ~IsActive(runtime_state)
    BY <1>4, <2>1, <2>3, SupervisionKeptPreservesIInv DEF Prime
  <2>4. QED
    BY <2>2, <2>3
<1>5. ASSUME NEW obs, NEW at \in Times, NEW demand, ShadowCycle(obs, at, demand) PROVE IInv'
  <2>1. at \in Nat /\ previous \in Nat /\ previous < at /\ previous' = at
    BY <1>5, EstimateIsLater DEF ShadowCycle
  <2>2. cycle' \in CycleType
    BY <1>5, <2>1, UnauthorizedTyped DEF ShadowCycle
  <2>3. QED
    BY <1>5, <2>1, <2>2, NoneAssumption, SupervisionKeptPreservesIInv DEF ShadowCycle
<1>6. ASSUME NEW obs, NEW at \in Times, NEW demand, LossCycle(obs, at, demand) PROVE IInv'
  <2>1. at \in Nat /\ previous' = at /\ Released(Ready)
    BY <1>6, EstimateIsLater DEF LossCycle
  <2>2. cycle' \in CycleType
    BY <1>6, <2>1, UnauthorizedTyped DEF LossCycle
  <2>3. QED
    BY <2>1, <2>2, ReleasePreservesIInv
<1>7. QED
  BY <1>3, <1>4, <1>5, <1>6, LiveCyclePreservesIInv DEF Step

(* Every call preserves the invariant.                                     *)
LEMMA CallPreservesIInv ==
  ASSUME IInv, Call
  PROVE  IInv'
<1> USE DEF IInv
<1>1. previous \in Nat \cup {None} /\ cycle \in CycleType /\ gate \in Gates
  BY DEF TypeOK, CycleType, CycleKinds
<1>2. ASSUME NEW limits \in LimitChoices, ConfigureCommandSafety(limits) PROVE IInv'
  <2>1. gate' \in Gates /\ gate'.last_timestamp = None
    BY <1>1, <1>2, ChosenProfile, ConfigureGate DEF ConfigureCommandSafety
  <2>2. ~IsActive(runtime_state) /\ UNCHANGED <<previous, supervision, cycle>>
    BY <1>2 DEF ConfigureCommandSafety, PortCoherent
  <2>3. TypeOK'
    BY <2>1, <2>2 DEF TypeOK, supervision
  <2>4. PortCoherent' /\ PortCommandIsEarned'
    BY <2>1, <2>2 DEF PortCoherent, PortCommandIsEarned, supervision
  <2>5. QED
    BY <2>3, <2>4
<1>3. ASSUME NEW regime \in RequestChoices, RequestClosedLoop(regime) PROVE IInv'
  <2>1. /\ regime \in Regimes
        /\ ~IsActive(runtime_state) /\ runtime_state # Disabled
        /\ closed_loop_requested' = TRUE /\ requested_regime' = regime
        /\ UNCHANGED <<previous, gate, authority_mode, runtime_state, granted_at, cycle>>
    BY <1>3, PortAssumption, StatesDiffer DEF RequestClosedLoop
  <2>2. TypeOK'
    BY <2>1 DEF TypeOK
  <2>3. PortCoherent' /\ PortCommandIsEarned'
    BY <2>1 DEF PortCoherent, PortCommandIsEarned
  <2>4. QED
    BY <2>2, <2>3
<1>4. CASE CancelClosedLoop
  <2>1. (IF IsActive(runtime_state) THEN Ready ELSE runtime_state) \in {Ready, Disabled}
    BY DEF TypeOK, RuntimeStates, IsActive, Active
  <2>2. QED
    BY <1>1, <1>4, <2>1, ReleasePreservesIInv DEF CancelClosedLoop
<1>5. CASE Disable
  BY <1>1, <1>5, ReleasePreservesIInv DEF Disable
<1>6. CASE EnableReady
  <2>1. /\ ~IsActive(runtime_state) /\ runtime_state' = Ready
        /\ UNCHANGED <<previous, gate, authority_mode, closed_loop_requested,
                       requested_regime, granted_at, cycle>>
    BY <1>6, StatesDiffer DEF EnableReady
  <2>2. TypeOK'
    BY <2>1, StatesDiffer DEF TypeOK
  <2>3. PortCoherent' /\ PortCommandIsEarned'
    BY <2>1, StatesDiffer DEF PortCoherent, PortCommandIsEarned
  <2>4. QED
    BY <2>2, <2>3
<1>7. QED
  BY <1>2, <1>3, <1>4, <1>5, <1>6 DEF Call

(* Every step, and every stutter, preserves the invariant.                 *)
LEMMA NextPreservesIInv == IInv /\ [Next]_vars => IInv'
<1>1. ASSUME IInv, UNCHANGED vars PROVE IInv'
  BY <1>1 DEF vars, supervision, IInv, TypeOK, PortCoherent, PortCommandIsEarned
<1>2. QED
  BY <1>1, StepPreservesIInv, CallPreservesIInv DEF Next

(* The inductive invariant holds in every reachable state.                 *)
THEOREM Invariance == Spec => []IInv
BY InitEstablishesIInv, NextPreservesIInv, PTL DEF Spec

(* Every variable keeps the range of its C++ type.                         *)
THEOREM TypeCorrect == Spec => []TypeOK
<1>1. IInv => TypeOK
  BY DEF IInv
<1>2. QED
  BY <1>1, Invariance, PTL

(* Mode, state, request and gate move together, whatever limits the caller *)
(* installs and however calls and cycles interleave.                       *)
THEOREM PortStaysCoherent == Spec => []PortCoherent
<1>1. IInv => PortCoherent
  BY DEF IInv
<1>2. QED
  BY <1>1, Invariance, PTL

(* The command the port lets through is covered by its slew limit since    *)
(* the grant and by its magnitude limit.                                   *)
THEOREM PortCommandsAreEarned == Spec => []PortCommandIsEarned
<1>1. IInv => PortCommandIsEarned
  BY DEF IInv
<1>2. QED
  BY <1>1, Invariance, PTL
---------------------------------------------------------------------------
(* The refinement: what each step of the port is for the lease.            *)

(* A release with a token-free result is a loss; without a cycle, a        *)
(* withdrawal or nothing.                                                  *)
LEMMA ReleaseIsLease ==
  ASSUME IInv, NEW state \in {Ready, Disabled}, Released(state)
  PROVE  /\ /\ IsActive(runtime_state)
            /\ state = Ready
            /\ cycle'.authorized = None
            => Lease!Next
         /\ /\ UNCHANGED cycle
            /\ runtime_state = Disabled => state = Disabled
            => [Lease!Next]_(Lease!vars)
<1> DEFINE regime == IF closed_loop_requested THEN requested_regime ELSE None
<1>1. /\ closed_loop_requested' = FALSE /\ runtime_state' = state
      /\ ~IsActive(state)
  BY StatesDiffer DEF Released
<1>2. LeasePhase' = IF state = Disabled THEN "Off" ELSE "Idle"
  BY <1>1 DEF LeasePhase
<1>3. runtime_state # Disabled => LeasePhase \in {"Idle", "Pending", "Live"}
  BY DEF LeasePhase
<1>4. IsActive(runtime_state) => LeasePhase = "Live"
  BY StatesDiffer DEF LeasePhase
<1>5. ASSUME IsActive(runtime_state), state = Ready, cycle'.authorized = None
      PROVE  Lease!Next
  BY <1>1, <1>2, <1>4, <1>5, StatesDiffer DEF Lease!Next, Lease!Revoke
<1>6. ASSUME UNCHANGED cycle, runtime_state # Disabled
      PROVE  Lease!Next
  BY <1>1, <1>2, <1>3, <1>6 DEF Lease!Next, Lease!Withdraw
<1>7. ASSUME UNCHANGED cycle, runtime_state = Disabled, state = Disabled
      PROVE  UNCHANGED Lease!vars
  BY <1>1, <1>2, <1>7 DEF Lease!vars, LeasePhase, IInv, PortCoherent
<1>8. QED
  BY <1>5, <1>6, <1>7

(* Cycles: shadow and failed ones, losses, grants and drives.              *)
LEMMA StepImplementsLease ==
  ASSUME IInv, IInv', Step
  PROVE  Lease!Next
<1> USE DEF IInv
<1>1. ASSUME UNCHANGED supervision, cycle'.authorized = None PROVE Lease!Next
  BY <1>1 DEF supervision, Lease!Next, Lease!Shadow, LeasePhase
<1>2. ASSUME NEW obs, NEW at, EstimatorFails(obs, at) PROVE Lease!Next
  BY <1>1, <1>2 DEF EstimatorFails, WithoutToken, Result
<1>3. ASSUME NEW obs, NEW at, Prime(obs, at) PROVE Lease!Next
  BY <1>1, <1>3, ReleaseIsLease DEF Prime, WithoutToken, Result
<1>4. ASSUME NEW obs, NEW at \in Times, NEW demand, ShadowCycle(obs, at, demand)
      PROVE  Lease!Next
  <2>1. at \in Nat
    BY PortAssumption
  <2>2. QED
    BY <1>1, <1>4, <2>1, UnauthorizedTyped DEF ShadowCycle
<1>5. ASSUME NEW obs, NEW at \in Times, NEW demand, LossCycle(obs, at, demand)
      PROVE  Lease!Next
  <2>1. at \in Nat
    BY PortAssumption
  <2>2. QED
    BY <1>5, <2>1, UnauthorizedTyped, ReleaseIsLease DEF LossCycle
<1>6. ASSUME NEW obs \in Observations, NEW at \in Times,
             NEW demand \in Commands \cup {None}, LiveCycle(obs, at, demand)
      PROVE  Lease!Next
  <2>1. /\ closed_loop_requested /\ ~ConstrainFails(gate, at)
        /\ IsActive(runtime_state) \/ (runtime_state = Ready /\ gate.last_timestamp = None)
    BY <1>6, LiveCycleStarts
  <2>2. /\ runtime_state' = Active(requested_regime)
        /\ UNCHANGED <<closed_loop_requested, requested_regime>>
        /\ cycle' = WithoutToken("Error")
           \/ cycle' = Result("Computed", at, Constrained(gate, demand, at))
    BY <1>6, <2>1 DEF LiveCycle, Authorized
  <2>3. LeasePhase' = "Live"
    BY <2>2, StatesDiffer DEF LeasePhase, TypeOK
  <2>4. CASE IsActive(runtime_state)
    <3>1. LeasePhase = "Live" /\ cycle'.authorized \in Int \cup {None}
      BY <2>4, StatesDiffer DEF LeasePhase, TypeOK
    <3>2. QED
      BY <2>2, <2>3, <3>1 DEF Lease!Next, Lease!Drive
  <2>5. CASE runtime_state = Ready /\ gate.last_timestamp = None
    <3>1. LeasePhase = "Pending"
      BY <2>1, <2>5, StatesDiffer DEF LeasePhase
    <3>2. cycle'.authorized \in {0, None}
      BY <2>2, <2>5 DEF Constrained, WithoutToken, Result
    <3>3. QED
      BY <2>2, <2>3, <3>1, <3>2 DEF Lease!Next, Lease!Grant
  <2>6. QED
    BY <2>1, <2>4, <2>5
<1>7. QED
  BY <1>2, <1>3, <1>4, <1>5, <1>6 DEF Step

(* Caller operations: a request, a withdrawal, an enable, or nothing.      *)
LEMMA CallImplementsLease ==
  ASSUME IInv, Call
  PROVE  [Lease!Next]_(Lease!vars)
<1>1. ASSUME NEW limits, ConfigureCommandSafety(limits) PROVE UNCHANGED Lease!vars
  BY <1>1 DEF ConfigureCommandSafety, supervision, Lease!vars, LeasePhase
<1>2. ASSUME NEW regime \in RequestChoices, RequestClosedLoop(regime) PROVE Lease!Next
  <2>1. LeasePhase \in {"Idle", "Pending"} /\ LeasePhase' = "Pending"
    BY <1>2, StatesDiffer DEF RequestClosedLoop, LeasePhase
  <2>2. regime \in Regimes
    BY PortAssumption
  <2>3. QED
    BY <1>2, <2>1, <2>2 DEF RequestClosedLoop, Lease!Next, Lease!Request
<1>3. CASE CancelClosedLoop
  <2>1. (IF IsActive(runtime_state) THEN Ready ELSE runtime_state) \in {Ready, Disabled}
        /\ (runtime_state = Disabled => ~IsActive(runtime_state))
    BY StatesDiffer DEF IInv, TypeOK, RuntimeStates, IsActive, Active
  <2>2. QED
    BY <1>3, <2>1, ReleaseIsLease DEF CancelClosedLoop
<1>4. CASE Disable
  BY <1>4, ReleaseIsLease DEF Disable
<1>5. CASE EnableReady
  <2>1. LeasePhase = "Off" /\ ~closed_loop_requested
    BY <1>5 DEF EnableReady, LeasePhase, IInv, PortCoherent
  <2>2. LeasePhase' = "Idle"
    BY <1>5, <2>1, StatesDiffer DEF EnableReady, LeasePhase
  <2>3. QED
    BY <1>5, <2>1, <2>2 DEF EnableReady, Lease!Next, Lease!Enable
<1>6. QED
  BY <1>1, <1>2, <1>3, <1>4, <1>5 DEF Call

(* The port makes the production runtime's promise about authority, for    *)
(* every configuration, observation, clock and controller.                 *)
THEOREM PortRefinesLease == Spec => PortImplementsLease
<1>1. Init => Lease!Init
  BY StatesDiffer DEF Init, Lease!Init, LeasePhase, WithoutToken, Result
<1>2. ASSUME IInv, IInv', [Next]_vars PROVE [Lease!Next]_(Lease!vars)
  <2>1. CASE UNCHANGED vars
    BY <2>1 DEF vars, supervision, Lease!vars, LeasePhase
  <2>2. QED
    BY <1>2, <2>1, StepImplementsLease, CallImplementsLease DEF Next
<1>3. IInv /\ IInv' /\ [Next]_vars => [Lease!Next]_(Lease!vars)
  BY <1>2
<1>4. QED
  BY <1>1, <1>3, Invariance, PTL DEF Spec, PortImplementsLease, Lease!Spec
=============================================================================
