----------------------- MODULE ControlRuntime_proofs -----------------------
(***************************************************************************)
(* Proofs about ControlRuntime for every configuration: the inductive      *)
(* invariant IInv, the safety invariants it implies, the slew bound, and   *)
(* the refinement of AuthorityLease.                                       *)
(***************************************************************************)
EXTENDS ControlRuntime, CommandSafetyGate_proofs

(* Decisions are unions of flags: an empty decision raised none of them.   *)
LEMMA EmptyUnion ==
  ASSUME NEW A, NEW B, A \cup B = {}
  PROVE  A = {} /\ B = {}
OBVIOUS

(* ... and a flag that was not raised means its condition was false.       *)
LEMMA EmptyFlag ==
  ASSUME NEW raised \in BOOLEAN, NEW reason, Flag(raised, reason) = {}
  PROVE  ~raised
BY DEF Flag

(* Admission demands a pending request in Ready, disarmed authority and an *)
(* installed boundary, and leads to ClosedLoop.                            *)
LEMMA AdmissionEntersClosedLoop ==
  ASSUME NEW obs, Admits(obs)
  PROVE  /\ runtime_state = Ready
         /\ closed_loop_request # None
         /\ admission_limits # None
         /\ EnteredState(obs) = Active(closed_loop_request)
         /\ EnteredMode(obs) = "ClosedLoop"
<1>1. Consulted /\ Admission(obs) = {}
  BY DEF Admits, Allowed
<1>2. Flag(authority # "Disarmed", "AUTHORITY_BUSY") = {}
      /\ Flag(~LimitUsable(admission_limits), "LIMIT_CONFIG") = {}
  BY <1>1, EmptyUnion DEF Admission, Admit
<1>3. authority = "Disarmed" /\ LimitUsable(admission_limits)
  BY <1>2, EmptyFlag DEF LimitUsable
<1>4. admission_limits # None
  BY <1>3 DEF LimitUsable
<1>5. QED
  BY <1>1, <1>3, <1>4 DEF Consulted, EnteredState, EnteredMode, EnterMode
---------------------------------------------------------------------------
(* The inductive invariant.  The steps fall into three groups: those that  *)
(* leave authority and the gate alone, those that release authority, and   *)
(* the live cycle.                                                         *)
CycleType == [kind : CycleKinds, at : Nat \cup {None}, authorized : Int \cup {None}]

(* A new runtime (lib.rs 115-132) satisfies the invariant.                 *)
LEMMA InitEstablishesIInv == Init => IInv
BY NoneAssumption
   DEF Init, IInv, TypeOK, AuthorityCoherent, HistoryOnlyWhileActive,
       GateNeverFails, CommandIsEarned, GrantDated, NewGate, Gate, Gates,
       AuthorityModes, RuntimeStates, Ready, Disabled, IsActive, WithoutToken,
       Result, CycleKinds

(* Steps that leave authority, request and gate alone and move the         *)
(* estimator forward: failed, first and shadow cycles, and configuration.  *)
LEMMA AuthorityKeptPreservesIInv ==
  ASSUME IInv,
         UNCHANGED <<gate, authority, runtime_state, closed_loop_request, granted_at>>,
         previous' \in Nat \cup {None},
         previous # None => previous' # None /\ previous <= previous',
         admission_limits' \in (Nat \ {0}) \cup {None},
         admission_limits # None => admission_limits' # None,
         cycle' \in CycleType,
         cycle'.kind # "CommandSafety"
  PROVE  IInv'
<1> USE DEF IInv
<1>1. TypeOK'
  BY DEF TypeOK, CycleType
<1>2. AuthorityCoherent' /\ HistoryOnlyWhileActive' /\ CommandIsEarned'
  BY DEF AuthorityCoherent, HistoryOnlyWhileActive, CommandIsEarned
<1>3. GateNeverFails' /\ GrantDated'
  <2>1. gate.last_timestamp \in Nat \cup {None} /\ previous \in Nat \cup {None}
        /\ granted_at \in Nat \cup {None}
    BY DEF TypeOK, Gates
  <2>2. QED
    BY <2>1 DEF GateNeverFails, GrantDated
<1>4. QED
  BY <1>1, <1>2, <1>3

(* Steps that release authority: run-permit loss, re-prime, cancel and     *)
(* disable.                                                                *)
LEMMA ReleasePreservesIInv ==
  ASSUME IInv, NEW state \in {Ready, Disabled},
         ReleaseAuthority(state),
         closed_loop_request' = None,
         previous' \in Nat \cup {None},
         UNCHANGED admission_limits,
         cycle' \in CycleType,
         cycle'.kind # "CommandSafety"
  PROVE  IInv'
<1> USE DEF IInv
<1>1. gate \in Gates /\ authority \in {"Disarmed", "ClosedLoop"}
  BY DEF TypeOK, AuthorityCoherent
<1>2. /\ gate' \in Gates
      /\ gate'.profile = gate.profile
      /\ gate'.last_command = 0
      /\ gate'.last_timestamp = None
  BY <1>1, ResetHistoryGate DEF ReleaseAuthority
<1>3. authority' = "Disarmed" /\ runtime_state' = state /\ granted_at' = None
  BY <1>1 DEF ReleaseAuthority, ReleaseMode
<1>4. ~IsActive(runtime_state') /\ runtime_state' \in RuntimeStates
  BY <1>3 DEF IsActive, RuntimeStates, Ready, Disabled
<1>5. TypeOK'
  BY <1>2, <1>3, <1>4 DEF TypeOK, AuthorityModes, CycleType
<1>6. AuthorityCoherent' /\ HistoryOnlyWhileActive'
  BY <1>2, <1>3, <1>4 DEF AuthorityCoherent, HistoryOnlyWhileActive
<1>7. GateNeverFails' /\ CommandIsEarned' /\ GrantDated'
  BY <1>2, <1>4 DEF GateNeverFails, CommandIsEarned, GrantDated
<1>8. QED
  BY <1>5, <1>6, <1>7

(* What the cycle-result constructors build.                               *)
LEMMA ResultsAreTyped ==
  ASSUME NEW kind \in CycleKinds, NEW at \in Nat \cup {None},
         NEW token \in Int \cup {None}
  PROVE  /\ Result(kind, at, token) \in CycleType
         /\ Result(kind, at, token).kind = kind
         /\ Result(kind, at, token).authorized = token
         /\ Result(kind, at, token).at = at
         /\ WithoutToken(kind) \in CycleType
         /\ WithoutToken(kind).kind = kind
         /\ WithoutToken(kind).authorized = None
BY DEF Result, WithoutToken, CycleType

(* A cycle without authority never reports a gate failure.                 *)
LEMMA ShadowResultTyped ==
  ASSUME NEW obs, NEW at \in Nat, NEW demand \in Int \cup {None}
  PROVE  /\ ResultWithoutAuthority(obs, at, demand) \in CycleType
         /\ ResultWithoutAuthority(obs, at, demand).kind # "CommandSafety"
<1>1. {"Rejected", "Controller", "Computed"} \subseteq CycleKinds
  BY DEF CycleKinds
<1>2. QED
  BY <1>1, ResultsAreTyped DEF ResultWithoutAuthority

(* A live cycle whose gate accepted the command, or whose controller       *)
(* failed, stays or becomes Active with its history earned.                *)
LEMMA LiveCyclePreservesIInv ==
  ASSUME IInv, NEW obs \in Observations, NEW at \in Times,
         NEW demand \in Commands \cup {None},
         LiveCycle(obs, at, demand)
  PROVE  /\ IInv'
         /\ ~(demand # None /\ ConstrainFails(gate, at))
<1> USE DEF IInv
<1>1. /\ at \in Nat /\ demand \in Int \cup {None}
      /\ previous \in Nat /\ previous < at /\ previous' = at
      /\ UNCHANGED admission_limits
  BY RuntimeAssumption, NoneAssumption DEF LiveCycle, Estimated, EstimateReady, TypeOK, config
<1>2. /\ gate \in Gates
      /\ gate.last_timestamp \in Nat \cup {None}
      /\ closed_loop_request \in Regimes \cup {None}
  BY DEF TypeOK, Gates
<1>3. IsActive(EnteredState(obs))
  BY DEF LiveCycle
<1>4. /\ EnteredState(obs) = Active(closed_loop_request)
      /\ EnteredMode(obs) = "ClosedLoop"
      /\ closed_loop_request # None
      /\ admission_limits # None
      /\ gate.profile # None
  <2>1. CASE Admits(obs)
    BY <2>1, AdmissionEntersClosedLoop DEF AuthorityCoherent
  <2>2. CASE ~Admits(obs)
    <3>1. EnteredState(obs) = runtime_state /\ EnteredMode(obs) = authority
      BY <2>2 DEF EnteredState, EnteredMode
    <3>2. IsActive(runtime_state)
      BY <3>1, <1>3
    <3>3. closed_loop_request # None
      BY <3>2, NoneAssumption DEF AuthorityCoherent, TypeOK, RuntimeStates,
         Active, Ready, Disabled, IsActive
    <3>4. QED
      BY <3>1, <3>2, <3>3 DEF AuthorityCoherent
  <2>3. QED
    BY <2>1, <2>2
<1>5. ~ConstrainFails(gate, at)
  BY <1>1, <1>2, <1>4 DEF ConstrainFails, GateNeverFails
<1>6. /\ runtime_state' = EnteredState(obs)
      /\ authority' = EnteredMode(obs)
      /\ granted_at' = IF Admits(obs) THEN at ELSE granted_at
      /\ UNCHANGED closed_loop_request
  BY <1>5 DEF LiveCycle
<1>7. granted_at' \in Nat /\ granted_at' <= at
  <2>1. CASE Admits(obs)
    BY <2>1, <1>1, <1>6
  <2>2. CASE ~Admits(obs)
    <3>1. IsActive(runtime_state)
      BY <2>2, <1>3 DEF EnteredState
    <3>2. QED
      BY <2>2, <3>1, <1>1, <1>6 DEF GrantDated, TypeOK
  <2>3. QED
    BY <2>1, <2>2
<1>8. gate.last_timestamp # None =>
        /\ granted_at' <= gate.last_timestamp
        /\ gate.last_timestamp <= previous
        /\ Magnitude(gate.last_command)
             <= gate.profile.slew * (gate.last_timestamp - granted_at')
        /\ Magnitude(gate.last_command) <= gate.profile.max_abs
  <2>1. SUFFICES ASSUME gate.last_timestamp # None
                 PROVE  /\ granted_at' = granted_at
                        /\ gate.last_timestamp <= previous
    BY DEF CommandIsEarned
  <2>2. IsActive(runtime_state)
    BY <2>1 DEF HistoryOnlyWhileActive
  <2>3. ~Admits(obs)
    BY <2>2, AdmissionEntersClosedLoop DEF Ready, IsActive
  <2>4. QED
    BY <2>1, <2>3, <1>6 DEF GateNeverFails
<1>9. CASE demand = None
  <2>1. UNCHANGED gate /\ cycle' = WithoutToken("Controller")
    BY <1>5, <1>9 DEF LiveCycle
  <2>2. cycle' \in CycleType /\ cycle'.kind = "Controller"
    BY <2>1, ResultsAreTyped DEF CycleKinds
  <2>3. TypeOK'
    BY <1>1, <1>2, <1>4, <1>6, <1>7, <2>1, <2>2
       DEF TypeOK, CycleType, RuntimeStates, AuthorityModes
  <2>4. AuthorityCoherent' /\ HistoryOnlyWhileActive'
    BY <1>1, <1>3, <1>4, <1>6, <2>1 DEF AuthorityCoherent, HistoryOnlyWhileActive, Active, IsActive, Disabled
  <2>5. GateNeverFails' /\ GrantDated'
    BY <1>1, <1>2, <1>7, <1>8, <2>1, <2>2, NoneAssumption DEF GateNeverFails, GrantDated
  <2>6. CommandIsEarned'
    BY <1>7, <1>8, <2>1, NoneAssumption DEF CommandIsEarned
  <2>7. QED
    BY <1>5, <2>3, <2>4, <2>5, <2>6
<1>10. CASE demand # None
  <2>1. /\ gate' = AfterConstrain(gate, demand, at)
        /\ \/ cycle' = Result("Computed", at, Constrained(gate, demand, at))
           \/ cycle' = Result("Computed", at, None)
    BY <1>5, <1>10 DEF LiveCycle
  <2>2. /\ gate' \in Gates
        /\ gate'.profile = gate.profile
        /\ gate'.last_command = Constrained(gate, demand, at)
        /\ gate'.last_timestamp = at
        /\ Magnitude(gate'.last_command) <= gate'.profile.slew * (at - granted_at')
        /\ Magnitude(gate'.last_command) <= gate'.profile.max_abs
    <3>1. /\ gate \in Gates /\ demand \in Int /\ gate.profile # None
          /\ gate.last_timestamp # None =>
               /\ granted_at' <= gate.last_timestamp
               /\ gate.last_timestamp <= at
               /\ Magnitude(gate.last_command)
                    <= gate.profile.slew * (gate.last_timestamp - granted_at')
               /\ Magnitude(gate.last_command) <= gate.profile.max_abs
      <4>1. gate.last_timestamp # None => gate.last_timestamp <= at
        BY <1>1, <1>2, <1>8 DEF Gates
      <4>2. QED
        BY <1>1, <1>2, <1>4, <1>8, <1>10, <4>1
    <3> DEFINE H == AfterConstrain(gate, demand, at)
    <3>2. /\ H \in Gates
          /\ H.profile = gate.profile
          /\ H.last_command = Constrained(gate, demand, at)
          /\ H.last_timestamp = at
          /\ Magnitude(H.last_command) <= gate.profile.slew * (at - granted_at')
          /\ Magnitude(H.last_command) <= gate.profile.max_abs
      BY <1>1, <1>7, <3>1, ConstrainKeepsHistory
    <3>3. QED
      BY <2>1, <3>2
  <2>3. Constrained(gate, demand, at) \in Int
    BY <2>2 DEF Gates
  <2>4. cycle' \in CycleType /\ cycle'.kind = "Computed"
    <3>1. "Computed" \in CycleKinds
      BY DEF CycleKinds
    <3>2. CASE cycle' = Result("Computed", at, Constrained(gate, demand, at))
      BY <1>1, <2>3, <3>1, <3>2, ResultsAreTyped
    <3>3. CASE cycle' = Result("Computed", at, None)
      <4>1. None \in Int \cup {None} /\ at \in Nat \cup {None}
        BY <1>1
      <4>2. /\ Result("Computed", at, None) \in CycleType
            /\ Result("Computed", at, None).kind = "Computed"
        BY <3>1, <4>1, ResultsAreTyped
      <4>3. QED
        BY <3>3, <4>2
    <3>4. QED
      BY <2>1, <3>2, <3>3
  <2>5. TypeOK'
    BY <1>1, <1>2, <1>4, <1>6, <1>7, <2>2, <2>4
       DEF TypeOK, CycleType, RuntimeStates, AuthorityModes
  <2>6. AuthorityCoherent' /\ HistoryOnlyWhileActive'
    BY <1>1, <1>3, <1>4, <1>6, <2>2 DEF AuthorityCoherent, HistoryOnlyWhileActive, Active, IsActive, Disabled
  <2>7. GateNeverFails' /\ GrantDated'
    BY <1>1, <1>7, <2>2, <2>4, NoneAssumption DEF GateNeverFails, GrantDated
  <2>8. CommandIsEarned'
    BY <1>7, <2>2, NoneAssumption DEF CommandIsEarned
  <2>9. QED
    BY <1>5, <2>5, <2>6, <2>7, <2>8
<1>11. QED
  BY <1>9, <1>10

(* Every step of the runtime, and every stutter, preserves the invariant.  *)
LEMMA NextPreservesIInv == IInv /\ [Next]_vars => IInv'
<1> SUFFICES ASSUME IInv, [Next]_vars PROVE IInv'
  OBVIOUS
<1> USE DEF IInv
<1>1. gate \in Gates /\ previous \in Nat \cup {None} /\ cycle \in CycleType
  BY DEF TypeOK, CycleType
<1>2. admission_limits \in (Nat \ {0}) \cup {None}
  BY DEF TypeOK
<1>3. cycle.kind # "CommandSafety"
  BY DEF GateNeverFails
<1>4. ASSUME NEW kind \in {"Source", "Estimator"}, Aborted(kind) PROVE IInv'
  <2>1. kind \in CycleKinds /\ kind # "CommandSafety"
    BY DEF CycleKinds
  <2>2. cycle' \in CycleType /\ cycle'.kind # "CommandSafety"
    BY <1>4, <2>1, ResultsAreTyped, NoneAssumption DEF Aborted
  <2>3. QED
    BY <1>1, <1>2, <1>4, <2>2, AuthorityKeptPreservesIInv
       DEF Aborted, supervision, config
<1>5. ASSUME NEW obs \in Observations, NEW at \in Times, Prime(obs, at) PROVE IInv'
  <2>1. /\ at \in Nat /\ previous' = at /\ UNCHANGED admission_limits
        /\ previous # None => previous <= previous' /\ previous' # None
        /\ previous' \in Nat \cup {None}
    BY <1>1, <1>5, RuntimeAssumption, NoneAssumption DEF Prime, config
  <2>2. cycle' \in CycleType /\ cycle'.kind # "CommandSafety"
    <3>1. "Primed" \in CycleKinds
      BY DEF CycleKinds
    <3>2. QED
      BY <1>5, <3>1, ResultsAreTyped, NoneAssumption DEF Prime
  <2>3. CASE IsActive(runtime_state)
    BY <1>5, <2>1, <2>2, <2>3, ReleasePreservesIInv DEF Prime, ReleaseAfterLoss
  <2>4. CASE ~IsActive(runtime_state)
    BY <1>2, <1>5, <2>1, <2>2, <2>4, AuthorityKeptPreservesIInv
       DEF Prime, supervision
  <2>5. QED
    BY <2>3, <2>4
<1>6. ASSUME NEW obs \in Observations, NEW at \in Times,
             NEW demand \in Commands \cup {None}, Estimated(obs, at),
             cycle' = ResultWithoutAuthority(obs, at, demand)
      PROVE  /\ at \in Nat /\ previous' = at /\ UNCHANGED admission_limits
             /\ previous # None => previous <= previous' /\ previous' # None
             /\ previous' \in Nat \cup {None}
             /\ cycle' \in CycleType /\ cycle'.kind # "CommandSafety"
  <2>1. at \in Nat /\ demand \in Int \cup {None}
    BY RuntimeAssumption
  <2>2. cycle' \in CycleType /\ cycle'.kind # "CommandSafety"
    BY <1>6, <2>1, ShadowResultTyped
  <2>3. QED
    BY <1>1, <1>6, <2>1, <2>2, NoneAssumption DEF Estimated, EstimateReady, config
<1>7. ASSUME NEW obs \in Observations, NEW at \in Times,
             NEW demand \in Commands \cup {None}, ShadowCycle(obs, at, demand)
      PROVE  IInv'
  <2>1. Estimated(obs, at) /\ cycle' = ResultWithoutAuthority(obs, at, demand)
    BY <1>7 DEF ShadowCycle
  <2>2. UNCHANGED <<gate, authority, runtime_state, closed_loop_request, granted_at>>
    BY <1>7 DEF ShadowCycle, supervision
  <2>3. QED
    BY <1>2, <1>6, <2>1, <2>2, AuthorityKeptPreservesIInv
<1>8. ASSUME NEW obs \in Observations, NEW at \in Times,
             NEW demand \in Commands \cup {None}, LossCycle(obs, at, demand)
      PROVE  IInv'
  <2>1. Estimated(obs, at) /\ cycle' = ResultWithoutAuthority(obs, at, demand)
    BY <1>8 DEF LossCycle
  <2>2. ReleaseAuthority(Ready) /\ closed_loop_request' = None
    BY <1>8 DEF LossCycle, ReleaseAfterLoss
  <2>3. QED
    BY <1>6, <2>1, <2>2, ReleasePreservesIInv
<1>9. ASSUME NEW obs \in Observations, NEW at \in Times,
             NEW demand \in Commands \cup {None}, LiveCycle(obs, at, demand)
      PROVE  IInv'
  BY <1>9, LiveCyclePreservesIInv
<1>10. CASE Step
  BY <1>4, <1>5, <1>7, <1>8, <1>9, <1>10
     DEF Step, StepOn, ObserveFails, EstimatorFails
<1>11. ASSUME NEW limit \in AdmissionChoices, ConfigureAdmissionLimits(limit)
       PROVE  IInv'
  BY <1>1, <1>3, <1>11, RuntimeAssumption, NoneAssumption, AuthorityKeptPreservesIInv
     DEF ConfigureAdmissionLimits, supervision
<1>12. ASSUME NEW profile \in ProfileChoices, ConfigureCommandSafety(profile)
       PROVE  IInv'
  <2>1. /\ gate' \in Gates
        /\ gate'.profile # None
        /\ gate'.last_command = 0
        /\ gate'.last_timestamp = None
    BY <1>1, <1>12, RuntimeAssumption, ConfigureGate, ProfileIsSome
       DEF ConfigureCommandSafety
  <2>2. ~IsActive(runtime_state)
    BY <1>12 DEF ConfigureCommandSafety, IsActive, Ready, Disabled
  <2>3. UNCHANGED <<previous, authority, runtime_state, closed_loop_request,
                    granted_at, admission_limits, cycle>>
    BY <1>12 DEF ConfigureCommandSafety, supervision, config
  <2>4. TypeOK'
    BY <2>1, <2>3 DEF TypeOK
  <2>5. AuthorityCoherent' /\ HistoryOnlyWhileActive'
    BY <2>1, <2>2, <2>3 DEF AuthorityCoherent, HistoryOnlyWhileActive
  <2>6. GateNeverFails' /\ CommandIsEarned' /\ GrantDated'
    BY <1>3, <2>1, <2>2, <2>3 DEF GateNeverFails, CommandIsEarned, GrantDated
  <2>7. QED
    BY <2>4, <2>5, <2>6
<1>13. ASSUME NEW regime \in RequestChoices, RequestClosedLoop(regime)
       PROVE  IInv'
  <2>1. /\ runtime_state = Ready /\ gate.profile # None
        /\ closed_loop_request' \in Regimes
        /\ UNCHANGED <<previous, gate, authority, runtime_state, granted_at,
                       admission_limits, cycle>>
    BY <1>13, RuntimeAssumption DEF RequestClosedLoop, config
  <2>2. ~IsActive(runtime_state) /\ runtime_state # Disabled
    BY <2>1 DEF IsActive, Ready, Disabled
  <2>3. TypeOK'
    BY <2>1 DEF TypeOK
  <2>4. AuthorityCoherent' /\ HistoryOnlyWhileActive'
    BY <2>1, <2>2 DEF AuthorityCoherent, HistoryOnlyWhileActive
  <2>5. GateNeverFails' /\ CommandIsEarned' /\ GrantDated'
    BY <1>3, <2>1 DEF GateNeverFails, CommandIsEarned, GrantDated
  <2>6. QED
    BY <2>3, <2>4, <2>5
<1>14. ASSUME NEW state \in {Ready, Disabled}, Withdrawn(state) PROVE IInv'
  BY <1>1, <1>3, <1>14, ReleasePreservesIInv DEF Withdrawn, config
<1>15. CASE CancelClosedLoop
  <2>1. (IF IsActive(runtime_state) THEN Ready ELSE runtime_state) \in {Ready, Disabled}
    BY DEF TypeOK, RuntimeStates, IsActive, Active
  <2>2. QED
    BY <1>14, <1>15, <2>1 DEF CancelClosedLoop
<1>16. CASE Disable
  BY <1>14, <1>16 DEF Disable
<1>17. CASE EnableReady
  <2>1. /\ ~IsActive(runtime_state) /\ runtime_state' = Ready
        /\ UNCHANGED <<previous, gate, authority, closed_loop_request, granted_at,
                       admission_limits, cycle>>
    BY <1>17 DEF EnableReady, IsActive, Disabled, config
  <2>2. ~IsActive(runtime_state') /\ runtime_state' # Disabled
        /\ runtime_state' \in RuntimeStates
    BY <2>1 DEF IsActive, Ready, Disabled, RuntimeStates
  <2>3. TypeOK'
    BY <2>1, <2>2 DEF TypeOK
  <2>4. AuthorityCoherent' /\ HistoryOnlyWhileActive'
    BY <2>1, <2>2 DEF AuthorityCoherent, HistoryOnlyWhileActive
  <2>5. GateNeverFails' /\ CommandIsEarned' /\ GrantDated'
    BY <1>3, <2>1, <2>2 DEF GateNeverFails, CommandIsEarned, GrantDated
  <2>6. QED
    BY <2>3, <2>4, <2>5
<1>18. CASE UNCHANGED vars
  BY <1>1, <1>2, <1>3, <1>18, AuthorityKeptPreservesIInv DEF vars, supervision, config
<1>19. QED
  BY <1>10, <1>11, <1>12, <1>13, <1>15, <1>16, <1>17, <1>18 DEF Next, Call

(* The inductive invariant holds in every reachable state.                 *)
THEOREM Invariance == Spec => []IInv
BY InitEstablishesIInv, NextPreservesIInv, PTL DEF Spec

(* Every variable keeps the range the Rust types give it.                  *)
THEOREM TypeCorrect == Spec => []TypeOK
<1>1. IInv => TypeOK
  BY DEF IInv
<1>2. QED
  BY <1>1, Invariance, PTL

(* Authority mode, runtime state, request and configuration stay coherent  *)
(* under every interleaving of calls and cycles.                           *)
THEOREM AuthorityStaysCoherent == Spec => []AuthorityCoherent
<1>1. IInv => AuthorityCoherent
  BY DEF IInv
<1>2. QED
  BY <1>1, Invariance, PTL

(* Outside Active the gate remembers nothing (lib.rs 401-413).             *)
THEOREM HistoryIsReset == Spec => []HistoryOnlyWhileActive
<1>1. IInv => HistoryOnlyWhileActive
  BY DEF IInv
<1>2. QED
  BY <1>1, Invariance, PTL

(* CycleError::CommandSafety is unreachable.                               *)
THEOREM GateSucceeds == Spec => []GateNeverFails
<1>1. IInv => GateNeverFails
  BY DEF IInv
<1>2. QED
  BY <1>1, Invariance, PTL

(* For every profile, clock and controller the command let through is      *)
(* covered by the slew allowance accumulated since the grant.              *)
THEOREM CommandsAreEarned == Spec => []CommandIsEarned
<1>1. IInv => CommandIsEarned
  BY DEF IInv
<1>2. QED
  BY <1>1, Invariance, PTL
---------------------------------------------------------------------------
(* Tokens.  A cycle that does not end Active evaluates to no token.        *)
LEMMA NoTokenOutsideActive ==
  ASSUME NEW obs, NEW at, NEW demand, ~IsActive(runtime_state')
  PROVE  ResultWithoutAuthority(obs, at, demand).authorized = None
<1>1. Evaluate(runtime_state', authority', Evidence(obs)) # {}
  BY DEF Evaluate, Flag
<1>2. QED
  BY <1>1 DEF ResultWithoutAuthority, WithoutToken, Result, Allowed

(* A live cycle with a demand hands over the constrained command, or       *)
(* nothing, and the gate remembers exactly that command.                   *)
LEMMA LiveCycleResult ==
  ASSUME IInv, NEW obs \in Observations, NEW at \in Times,
         NEW demand \in Commands \cup {None}, LiveCycle(obs, at, demand)
  PROVE  /\ IsActive(runtime_state')
         /\ UNCHANGED closed_loop_request
         /\ cycle'.authorized # None =>
              /\ demand # None
              /\ gate' = AfterConstrain(gate, demand, at)
              /\ cycle' = Result("Computed", at, Constrained(gate, demand, at))
<1>1. /\ ~(demand # None /\ ConstrainFails(gate, at))
      /\ IsActive(EnteredState(obs))
  BY LiveCyclePreservesIInv DEF LiveCycle
<1>2. /\ runtime_state' = EnteredState(obs)
      /\ UNCHANGED closed_loop_request
      /\ demand = None => cycle' = WithoutToken("Controller")
      /\ demand # None =>
           /\ gate' = AfterConstrain(gate, demand, at)
           /\ \/ cycle' = Result("Computed", at, Constrained(gate, demand, at))
              \/ cycle' = Result("Computed", at, None)
  BY <1>1 DEF LiveCycle
<1>3. QED
  BY <1>1, <1>2 DEF WithoutToken, Result

(* The three ways a step can leave a token in `cycle`: none, the one that  *)
(* was there (a call), or a fresh one from a live cycle.                   *)
LEMMA TokenSources ==
  ASSUME IInv, Next
  PROVE  \/ cycle'.authorized = None
         \/ /\ UNCHANGED cycle
            /\ IsActive(runtime_state') => UNCHANGED <<gate, runtime_state>>
         \/ \E obs \in Observations, at \in Times, demand \in Commands :
              /\ LiveCycle(obs, at, demand)
              /\ gate' = AfterConstrain(gate, demand, at)
              /\ cycle' = Result("Computed", at, Constrained(gate, demand, at))
<1> DEFINE Fresh == \E obs \in Observations, at \in Times, demand \in Commands :
              /\ LiveCycle(obs, at, demand)
              /\ gate' = AfterConstrain(gate, demand, at)
              /\ cycle' = Result("Computed", at, Constrained(gate, demand, at))
<1>1. CASE Step
  <2>1. ASSUME NEW kind, Aborted(kind) PROVE cycle'.authorized = None
    BY <2>1 DEF Aborted, WithoutToken, Result
  <2>2. ASSUME NEW obs, NEW at, Prime(obs, at) PROVE cycle'.authorized = None
    BY <2>2 DEF Prime, WithoutToken, Result
  <2>3. ASSUME NEW obs, NEW at, NEW demand, ShadowCycle(obs, at, demand)
        PROVE cycle'.authorized = None
    <3>1. ~IsActive(runtime_state')
      BY <2>3, AdmissionEntersClosedLoop
         DEF ShadowCycle, supervision, EnteredState, Ready, IsActive, Active
    <3>2. QED
      BY <2>3, <3>1, NoTokenOutsideActive DEF ShadowCycle
  <2>4. ASSUME NEW obs, NEW at, NEW demand, LossCycle(obs, at, demand)
        PROVE cycle'.authorized = None
    <3>1. ~IsActive(runtime_state')
      BY <2>4 DEF LossCycle, ReleaseAfterLoss, ReleaseAuthority, IsActive, Ready
    <3>2. QED
      BY <2>4, <3>1, NoTokenOutsideActive DEF LossCycle
  <2>5. ASSUME NEW obs \in Observations, NEW at \in Times,
               NEW demand \in Commands \cup {None}, LiveCycle(obs, at, demand)
        PROVE cycle'.authorized = None \/ Fresh
    BY <2>5, LiveCycleResult
  <2>6. QED
    BY <1>1, <2>1, <2>2, <2>3, <2>4, <2>5
       DEF Step, StepOn, ObserveFails, EstimatorFails
<1>2. CASE Call
  <2>1. UNCHANGED cycle
    BY <1>2 DEF Call, ConfigureAdmissionLimits, ConfigureCommandSafety,
       RequestClosedLoop, CancelClosedLoop, Disable, EnableReady, Withdrawn
  <2>2. ASSUME IsActive(runtime_state') PROVE UNCHANGED <<gate, runtime_state>>
    <3>1. ASSUME NEW state, Withdrawn(state) PROVE runtime_state' = state
      BY <3>1 DEF Withdrawn, ReleaseAuthority
    <3>2. ~CancelClosedLoop /\ ~Disable
      BY <2>2, <3>1 DEF CancelClosedLoop, Disable, IsActive, Ready, Disabled
    <3>3. ~EnableReady
      BY <2>2 DEF EnableReady, IsActive, Ready
    <3>4. ASSUME NEW profile PROVE ~ConfigureCommandSafety(profile)
      BY <2>2 DEF ConfigureCommandSafety, IsActive, Ready, Disabled, supervision
    <3>5. ASSUME NEW regime PROVE ~RequestClosedLoop(regime)
      BY <2>2 DEF RequestClosedLoop, IsActive, Ready
    <3>6. QED
      BY <1>2, <3>2, <3>3, <3>4, <3>5
         DEF Call, ConfigureAdmissionLimits, supervision
  <2>3. QED
    BY <2>1, <2>2
<1>3. QED
  BY <1>1, <1>2 DEF Next

(* A fresh token, its time and its relation to the gate.                   *)
LEMMA FreshToken ==
  ASSUME IInv, NEW obs \in Observations, NEW at \in Times, NEW demand \in Commands,
         LiveCycle(obs, at, demand),
         gate' = AfterConstrain(gate, demand, at),
         cycle' = Result("Computed", at, Constrained(gate, demand, at))
  PROVE  /\ IsActive(runtime_state')
         /\ cycle'.authorized = gate'.last_command
         /\ cycle'.at = gate'.last_timestamp
BY LiveCycleResult DEF AfterConstrain, Gate, Result

(* Every token that is handed over comes from a cycle that leaves the      *)
(* runtime Active, and is exactly the command the gate remembers.          *)
THEOREM TokensAreGated == Spec => TokenIsGated
<1>1. ASSUME IInv, [Next]_vars, cycle' # cycle, cycle'.authorized # None
      PROVE  /\ IsActive(runtime_state')
             /\ cycle'.authorized = gate'.last_command
             /\ cycle'.at = gate'.last_timestamp
  <2>1. Next
    BY <1>1 DEF vars
  <2>2. QED
    BY <1>1, <2>1, TokenSources, FreshToken
<1>2. IInv /\ [Next]_vars =>
        [cycle' # cycle /\ cycle'.authorized # None =>
           /\ IsActive(runtime_state')
           /\ cycle'.authorized = gate'.last_command
           /\ cycle'.at = gate'.last_timestamp]_vars
  BY <1>1
<1>3. QED
  BY <1>2, Invariance, PTL DEF Spec, TokenIsGated

(* While Active, the last token handed over is what the gate remembers, so *)
(* the gate's slew clamp is a clamp between successive tokens.             *)
TokenRemembered ==
  IsActive(runtime_state) /\ cycle.authorized # None =>
    /\ cycle.authorized = gate.last_command
    /\ cycle.at = gate.last_timestamp
    /\ gate.last_timestamp # None

(* TokenRemembered is inductive relative to IInv.                          *)
LEMMA TokenRememberedInvariant == Spec => []TokenRemembered
<1>1. Init => TokenRemembered
  BY DEF Init, TokenRemembered, Ready, IsActive
<1>2. ASSUME IInv, TokenRemembered, [Next]_vars PROVE TokenRemembered'
  <2>1. CASE UNCHANGED vars
    BY <1>2, <2>1 DEF TokenRemembered, vars, supervision
  <2>2. CASE Next
    <3>1. SUFFICES ASSUME IsActive(runtime_state'), cycle'.authorized # None
                   PROVE  TokenRemembered'
      BY DEF TokenRemembered
    <3>2. CASE UNCHANGED <<cycle, gate, runtime_state>>
      BY <1>2, <3>2 DEF TokenRemembered
    <3>3. ASSUME NEW obs \in Observations, NEW at \in Times, NEW demand \in Commands,
                 LiveCycle(obs, at, demand),
                 gate' = AfterConstrain(gate, demand, at),
                 cycle' = Result("Computed", at, Constrained(gate, demand, at))
          PROVE  TokenRemembered'
      <4>1. gate'.last_timestamp = at /\ at # None
        BY <3>3, RuntimeAssumption, NoneAssumption DEF AfterConstrain, Gate
      <4>2. QED
        BY <1>2, <3>3, <4>1, FreshToken DEF TokenRemembered
    <3>4. QED
      BY <1>2, <2>2, <3>1, <3>2, <3>3, TokenSources
  <2>3. QED
    BY <1>2, <2>1, <2>2
<1>3. IInv /\ TokenRemembered /\ [Next]_vars => TokenRemembered'
  BY <1>2
<1>4. QED
  BY <1>1, <1>3, Invariance, PTL DEF Spec

(* The tokens that two consecutive cycles return, the runtime staying      *)
(* Active from the one to the other, differ by at most the slew limit over *)
(* the time between their estimates.  A failed cycle returns no token to   *)
(* compare with: what holds across one is CommandIsEarned.                 *)
THEOREM TokensAreSlewBounded == Spec => SlewBounded
<1>1. ASSUME IInv, TokenRemembered, [Next]_vars,
             IsActive(runtime_state), cycle.authorized # None,
             cycle'.authorized # None, cycle' # cycle
      PROVE  Magnitude(cycle'.authorized - cycle.authorized)
               <= gate.profile.slew * (cycle'.at - cycle.at)
  <2>1. PICK obs \in Observations, at \in Times, demand \in Commands :
          /\ LiveCycle(obs, at, demand)
          /\ gate' = AfterConstrain(gate, demand, at)
          /\ cycle' = Result("Computed", at, Constrained(gate, demand, at))
    <3>1. Next
      BY <1>1 DEF vars
    <3>2. QED
      BY <1>1, <3>1, TokenSources
  <2>2. /\ cycle'.authorized = gate'.last_command
        /\ cycle'.at = at
    BY <1>1, <2>1, FreshToken DEF Result
  <2>3. /\ cycle.authorized = gate.last_command
        /\ cycle.at = gate.last_timestamp
        /\ gate.last_timestamp # None
    BY <1>1 DEF TokenRemembered
  <2>4. /\ gate \in Gates
        /\ gate.last_timestamp \in Nat
        /\ previous \in Nat
        /\ at \in Nat /\ demand \in Int
        /\ gate.profile # None
    BY <1>1, <2>3, RuntimeAssumption DEF IInv, TypeOK, Gates, GateNeverFails, AuthorityCoherent
  <2>5. gate.last_timestamp <= at
    <3>1. previous < at
      BY <2>1, <2>4 DEF LiveCycle, Estimated, EstimateReady
    <3>2. gate.last_timestamp <= previous
      BY <1>1, <2>3 DEF IInv, GateNeverFails
    <3>3. QED
      BY <2>4, <3>1, <3>2
  <2>6. /\ granted_at \in Nat
        /\ granted_at <= gate.last_timestamp
        /\ Magnitude(gate.last_command)
             <= gate.profile.slew * (gate.last_timestamp - granted_at)
        /\ Magnitude(gate.last_command) <= gate.profile.max_abs
    BY <1>1, <2>3 DEF IInv, TypeOK, CommandIsEarned
  <2>7. granted_at <= at
    BY <2>4, <2>5, <2>6
  <2>8. Magnitude(gate'.last_command - gate.last_command)
          <= gate.profile.slew * (at - gate.last_timestamp)
    BY <2>1, <2>3, <2>4, <2>5, <2>6, <2>7, ConstrainKeepsHistory
  <2>9. QED
    BY <2>2, <2>3, <2>8
<1>2. IInv /\ TokenRemembered /\ [Next]_vars =>
        [/\ IsActive(runtime_state)
         /\ cycle.authorized # None
         /\ cycle'.authorized # None
         /\ cycle' # cycle
         => Magnitude(cycle'.authorized - cycle.authorized)
              <= gate.profile.slew * (cycle'.at - cycle.at)]_vars
  BY <1>1
<1>3. QED
  BY <1>2, Invariance, TokenRememberedInvariant, PTL DEF Spec, SlewBounded
---------------------------------------------------------------------------
(* The refinement of AuthorityLease: every step of the runtime is a step   *)
(* of the lease or leaves it alone.                                        *)

(* Cycles: shadow and failed ones, losses, grants and drives.              *)
LEMMA StepImplementsLease ==
  ASSUME IInv, IInv', Step
  PROVE  [Lease!Next]_(Lease!vars)
<1> USE DEF IInv
<1>1. closed_loop_request' \in Regimes \cup {None} /\ cycle'.authorized \in Int \cup {None}
  BY DEF TypeOK
<1>2. ASSUME UNCHANGED supervision, cycle'.authorized = None PROVE Lease!Next
  BY <1>2 DEF supervision, Lease!Next, Lease!Shadow, LeasePhase
<1>3. ASSUME ReleaseAfterLoss, cycle'.authorized = None,
             LeasePhase \in {"Pending", "Live"}
      PROVE  Lease!Next
  <2>1. LeasePhase' = "Idle" /\ closed_loop_request' = None
    BY <1>3 DEF ReleaseAfterLoss, ReleaseAuthority, LeasePhase, Ready, Disabled, IsActive
  <2>2. QED
    BY <1>3, <2>1 DEF Lease!Next, Lease!Revoke
<1>4. IsActive(runtime_state) => LeasePhase = "Live"
  BY DEF LeasePhase, IsActive, Disabled
<1>5. ASSUME NEW obs, Admits(obs) PROVE LeasePhase = "Pending" /\ ~IsActive(runtime_state)
  BY <1>5, AdmissionEntersClosedLoop DEF LeasePhase, Ready, Disabled, IsActive
<1>6. ASSUME NEW obs, IsActive(EnteredState(obs)) PROVE LeasePhase \in {"Pending", "Live"}
  BY <1>4, <1>5, <1>6 DEF EnteredState
<1>7. ASSUME NEW kind, Aborted(kind) PROVE Lease!Next
  BY <1>2, <1>7 DEF Aborted, WithoutToken, Result
<1>8. ASSUME NEW obs, NEW at, Prime(obs, at) PROVE Lease!Next
  BY <1>2, <1>3, <1>4, <1>8 DEF Prime, supervision, WithoutToken, Result
<1>9. ASSUME NEW obs, NEW at, NEW demand, ShadowCycle(obs, at, demand) PROVE Lease!Next
  <2>1. ~IsActive(runtime_state')
    BY <1>9, AdmissionEntersClosedLoop
       DEF ShadowCycle, supervision, EnteredState, Ready, IsActive, Active
  <2>2. QED
    BY <1>2, <1>9, <2>1, NoTokenOutsideActive DEF ShadowCycle
<1>10. ASSUME NEW obs, NEW at, NEW demand, LossCycle(obs, at, demand) PROVE Lease!Next
  <2>1. ~IsActive(runtime_state')
    BY <1>10 DEF LossCycle, ReleaseAfterLoss, ReleaseAuthority, IsActive, Ready
  <2>2. QED
    BY <1>3, <1>6, <1>10, <2>1, NoTokenOutsideActive DEF LossCycle
<1>11. ASSUME NEW obs \in Observations, NEW at \in Times,
              NEW demand \in Commands \cup {None}, LiveCycle(obs, at, demand)
       PROVE  Lease!Next
  <2>1. /\ IsActive(runtime_state')
        /\ UNCHANGED closed_loop_request
        /\ IsActive(EnteredState(obs))
        /\ cycle'.authorized # None =>
             cycle' = Result("Computed", at, Constrained(gate, demand, at))
    BY <1>11, LiveCycleResult DEF LiveCycle
  <2>2. LeasePhase' = "Live"
    BY <2>1 DEF LeasePhase, IsActive, Disabled
  <2>3. CASE IsActive(runtime_state)
    BY <1>1, <1>4, <2>1, <2>2, <2>3 DEF Lease!Next, Lease!Drive
  <2>4. CASE ~IsActive(runtime_state)
    <3>1. LeasePhase = "Pending"
      BY <1>5, <2>1, <2>4 DEF EnteredState
    <3>2. gate.last_timestamp = None
      BY <2>4 DEF HistoryOnlyWhileActive
    <3>3. cycle'.authorized \in {0, None}
      BY <2>1, <3>2 DEF Constrained, Result
    <3>4. QED
      BY <2>1, <2>2, <3>1, <3>3 DEF Lease!Next, Lease!Grant
  <2>5. QED
    BY <2>3, <2>4
<1>12. QED
  BY <1>7, <1>8, <1>9, <1>10, <1>11 DEF Step, StepOn, ObserveFails, EstimatorFails

(* Caller operations: a request, a withdrawal, an enable, or nothing.      *)
LEMMA CallImplementsLease ==
  ASSUME IInv, IInv', Call
  PROVE  [Lease!Next]_(Lease!vars)
<1> USE DEF IInv
<1>1. ASSUME NEW limit, ConfigureAdmissionLimits(limit) PROVE UNCHANGED Lease!vars
  BY <1>1 DEF ConfigureAdmissionLimits, supervision, Lease!vars, LeasePhase
<1>2. ASSUME NEW profile, ConfigureCommandSafety(profile) PROVE UNCHANGED Lease!vars
  BY <1>2 DEF ConfigureCommandSafety, supervision, Lease!vars, LeasePhase
<1>3. ASSUME NEW regime \in RequestChoices, RequestClosedLoop(regime) PROVE Lease!Next
  <2>1. regime \in Regimes /\ regime # None
    BY RuntimeAssumption, NoneAssumption
  <2>2. LeasePhase \in {"Idle", "Pending"} /\ LeasePhase' = "Pending"
    BY <1>3, <2>1 DEF RequestClosedLoop, LeasePhase, Ready, Disabled, IsActive
  <2>3. QED
    BY <1>3, <2>1, <2>2 DEF RequestClosedLoop, Lease!Next, Lease!Request
<1>4. ASSUME NEW state \in {Ready, Disabled}, Withdrawn(state),
             runtime_state = Disabled => state = Disabled
      PROVE  [Lease!Next]_(Lease!vars)
  <2>1. closed_loop_request' = None /\ UNCHANGED cycle /\ runtime_state' = state
    BY <1>4 DEF Withdrawn, ReleaseAuthority
  <2>2. CASE runtime_state = Disabled
    BY <1>4, <2>1, <2>2 DEF AuthorityCoherent, Lease!vars, LeasePhase
  <2>3. CASE runtime_state # Disabled
    <3>1. LeasePhase \in {"Idle", "Pending", "Live"}
      BY <2>3 DEF LeasePhase
    <3>2. LeasePhase' \in {"Idle", "Off"}
      BY <2>1 DEF LeasePhase, Ready, Disabled, IsActive
    <3>3. QED
      BY <2>1, <3>1, <3>2 DEF Lease!Next, Lease!Withdraw
  <2>4. QED
    BY <2>2, <2>3
<1>5. CASE CancelClosedLoop
  <2>1. (IF IsActive(runtime_state) THEN Ready ELSE runtime_state) \in {Ready, Disabled}
    BY DEF TypeOK, RuntimeStates, IsActive, Active
  <2>2. runtime_state = Disabled => ~IsActive(runtime_state)
    BY DEF Disabled, IsActive
  <2>3. QED
    BY <1>4, <1>5, <2>1, <2>2 DEF CancelClosedLoop
<1>6. CASE Disable
  BY <1>4, <1>6 DEF Disable
<1>7. CASE EnableReady
  <2>1. LeasePhase = "Off" /\ closed_loop_request = None
    BY <1>7 DEF EnableReady, LeasePhase, AuthorityCoherent
  <2>2. LeasePhase' = "Idle"
    BY <1>7, <2>1 DEF EnableReady, LeasePhase, Ready, Disabled, IsActive
  <2>3. QED
    BY <1>7, <2>1, <2>2 DEF EnableReady, Lease!Next, Lease!Enable
<1>8. QED
  BY <1>1, <1>2, <1>3, <1>5, <1>6, <1>7 DEF Call

(* The runtime implements the lease for every configuration, observation,  *)
(* clock and controller: authority only on an explicit pending request, no *)
(* silent restart after a loss, a zero first token.                        *)
THEOREM RuntimeImplementsLease == Spec => ImplementsLease
<1>1. Init => Lease!Init
  BY DEF Init, Lease!Init, LeasePhase, Ready, Disabled, IsActive, WithoutToken, Result
<1>2. ASSUME IInv, IInv', [Next]_vars PROVE [Lease!Next]_(Lease!vars)
  <2>1. CASE UNCHANGED vars
    BY <2>1 DEF vars, supervision, Lease!vars, LeasePhase
  <2>2. QED
    BY <1>2, <2>1, StepImplementsLease, CallImplementsLease DEF Next
<1>3. IInv /\ IInv' /\ [Next]_vars => [Lease!Next]_(Lease!vars)
  BY <1>2
<1>4. QED
  BY <1>1, <1>3, Invariance, PTL DEF Spec, ImplementsLease, Lease!Spec
=============================================================================
