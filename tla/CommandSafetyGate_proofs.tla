----------------------- MODULE CommandSafetyGate_proofs -----------------------
(***************************************************************************)
(* Lemmas about the output-safety gate, for both runtimes that own one, and *)
(* what the actuator model makes of a demand before the gate and after it.  *)
(***************************************************************************)
EXTENDS CommandSafetyGate, ActuatorModel, TLAPS

(* The arithmetic of the gate (constrain, lib.rs 159-207).                 *)
LEMMA ClampBounds ==
  ASSUME NEW x \in Int, NEW lo \in Int, NEW hi \in Int, lo <= hi
  PROVE  /\ Clamp(x, lo, hi) \in Int
         /\ lo <= Clamp(x, lo, hi) /\ Clamp(x, lo, hi) <= hi
BY DEF Clamp

(* A clamp around a value inside a symmetric bound stays inside it.        *)
LEMMA ClampKeepsBound ==
  ASSUME NEW m \in Int, NEW p \in Int, NEW d \in Nat, NEW M \in Nat,
         Magnitude(m) <= M, Magnitude(p) <= M
  PROVE  Magnitude(Clamp(m, p - d, p + d)) <= M
BY DEF Clamp, Magnitude

(* Slew allowances of adjacent intervals add up.                           *)
LEMMA AllowanceAdds ==
  ASSUME NEW s \in Nat, NEW g \in Nat, NEW t \in Nat, NEW u \in Nat
  PROVE  s * (t - g) + s * (u - t) = s * (u - g)
OBVIOUS

(* A slew allowance over a forward interval is a natural number.           *)
LEMMA AllowanceNat ==
  ASSUME NEW s \in Nat, NEW t \in Nat, NEW u \in Nat, t <= u
  PROVE  s * (u - t) \in Nat
OBVIOUS

(* What one accepted constrain() does to a gate whose history is earned    *)
(* since time g: the history stays earned, the profile's magnitude holds,  *)
(* and the command moved by at most the allowance.                         *)
LEMMA ConstrainKeepsHistory ==
  ASSUME NEW G \in Gates, NEW requested \in Int, NEW at \in Nat, NEW g \in Nat,
         G.profile # None,
         g <= at,
         G.last_timestamp # None => /\ g <= G.last_timestamp
                                    /\ G.last_timestamp <= at
                                    /\ Magnitude(G.last_command)
                                         <= G.profile.slew * (G.last_timestamp - g)
                                    /\ Magnitude(G.last_command) <= G.profile.max_abs
  PROVE  LET H == AfterConstrain(G, requested, at)
         IN  /\ H \in Gates
             /\ H.profile = G.profile
             /\ H.last_command = Constrained(G, requested, at)
             /\ H.last_timestamp = at
             /\ Magnitude(H.last_command) <= G.profile.slew * (at - g)
             /\ Magnitude(H.last_command) <= G.profile.max_abs
             /\ G.last_timestamp # None =>
                  Magnitude(H.last_command - G.last_command)
                    <= G.profile.slew * (at - G.last_timestamp)
<1> DEFINE H == AfterConstrain(G, requested, at)
           c == Constrained(G, requested, at)
<1>1. G.profile \in Profiles /\ G.profile.max_abs \in Nat /\ G.profile.slew \in Nat
  BY DEF Gates, Profiles
<1>2. G.last_command \in Int
  BY DEF Gates
<1>3. H = [profile |-> G.profile, last_command |-> c, last_timestamp |-> at]
  BY DEF AfterConstrain, Gate
<1>4. /\ c \in Int
      /\ Magnitude(c) <= G.profile.slew * (at - g)
      /\ Magnitude(c) <= G.profile.max_abs
      /\ G.last_timestamp # None =>
           Magnitude(c - G.last_command) <= G.profile.slew * (at - G.last_timestamp)
  <2>1. CASE G.last_timestamp = None
    <3>1. c = 0
      BY <2>1 DEF Constrained
    <3>2. G.profile.slew * (at - g) \in Nat
      BY <1>1, AllowanceNat
    <3>3. QED
      BY <3>1, <3>2, <1>1, <2>1 DEF Magnitude
  <2>2. CASE G.last_timestamp # None
    <3> DEFINE p == G.last_command
               t == G.last_timestamp
               d == SlewAllowance(G, at)
               m == BoundedMagnitude(G, requested)
    <3>1. t \in Nat /\ g <= t /\ t <= at
      BY <2>2 DEF Gates
    <3>2. d \in Nat /\ d = G.profile.slew * (at - t)
      BY <1>1, <3>1, AllowanceNat DEF SlewAllowance
    <3>3. m \in Int /\ Magnitude(m) <= G.profile.max_abs
      BY <1>1 DEF BoundedMagnitude, Clamp, Magnitude
    <3>4. c = Clamp(m, p - d, p + d)
      BY <2>2 DEF Constrained
    <3>5. c \in Int /\ p - d <= c /\ c <= p + d
      <4>1. p \in Int /\ p - d \in Int /\ p + d \in Int /\ p - d <= p + d
        BY <1>2, <3>2
      <4> HIDE DEF p, d, m, c
      <4> QED  BY <4>1, <3>2, <3>3, <3>4, ClampBounds
    <3>6. Magnitude(c) <= G.profile.max_abs
      <4>1. p \in Int /\ Magnitude(p) <= G.profile.max_abs
        BY <1>2, <2>2
      <4> HIDE DEF p, d, m, c
      <4> QED  BY <4>1, <3>2, <3>3, <3>4, <1>1, ClampKeepsBound
    <3>7. Magnitude(c - p) <= d
      <4>1. p \in Int
        BY <1>2
      <4> HIDE DEF p, d, c
      <4> QED  BY <4>1, <3>2, <3>5 DEF Magnitude
    <3>8. Magnitude(c) <= G.profile.slew * (t - g) + d
      <4>1. Magnitude(p) <= G.profile.slew * (t - g) /\ G.profile.slew * (t - g) \in Nat
        BY <2>2, <1>1, <3>1, AllowanceNat
      <4>2. p \in Int
        BY <1>2
      <4> HIDE DEF p, d, c
      <4> QED  BY <4>1, <4>2, <3>2, <3>5 DEF Magnitude
    <3>9. G.profile.slew * (t - g) + d = G.profile.slew * (at - g)
      BY <1>1, <3>1, <3>2, AllowanceAdds
    <3>10. QED
      BY <3>2, <3>5, <3>6, <3>7, <3>8, <3>9
  <2>3. QED
    BY <2>1, <2>2
<1>5. H \in Gates
  BY <1>3, <1>4 DEF Gates
<1>6. QED
  BY <1>3, <1>4, <1>5

(* reset_history (lib.rs 150-157) keeps the profile and nothing else.      *)
LEMMA ResetHistoryGate ==
  ASSUME NEW G \in Gates
  PROVE  /\ ResetHistory(G) \in Gates
         /\ ResetHistory(G).profile = G.profile
         /\ ResetHistory(G).last_command = 0
         /\ ResetHistory(G).last_timestamp = None
BY DEF ResetHistory, Gate, Gates

(* configure (lib.rs 137-148) installs the profile, or for the C++ port     *)
(* perhaps none, with empty history.                                       *)
LEMMA ConfigureGate ==
  ASSUME NEW G \in Gates, NEW p \in Profiles \cup {None}
  PROVE  /\ Configure(G, p) \in Gates
         /\ Configure(G, p).profile = p
         /\ Configure(G, p).last_command = 0
         /\ Configure(G, p).last_timestamp = None
BY DEF Configure, ResetHistory, Gate, Gates

(* Some(profile) is never None.                                            *)
LEMMA ProfileIsSome ==
  ASSUME NEW p \in Profiles
  PROVE  p # None
BY ProfileAssumption

(* The actuator model inverts itself: the bounded command always exists    *)
(* (lib.rs 86 expects it), it is predicted to give the demanded torque,    *)
(* clamped to the motor's, and `saturated` says exactly when it was.       *)
THEOREM DemandIsMet ==
  ASSUME NEW demand \in Int
  PROVE  LET mapped == CommandForDemand(demand)
         IN  /\ mapped.command \in -FullScale..FullScale
             /\ mapped.predicted = BoundedTorque(demand)
             /\ ~mapped.saturated => mapped.predicted = demand
             /\ mapped.saturated => mapped.predicted \in {FullTorque, -FullTorque}
<1> DEFINE torque == BoundedTorque(demand)
           command == InverseCommand(torque)
<1>1. /\ torque \in Int /\ -FullTorque <= torque /\ torque <= FullTorque
      /\ torque # demand => torque \in {FullTorque, -FullTorque}
  BY ActuatorAssumption DEF BoundedTorque
<1>2. /\ command \in -FullScale..FullScale
      /\ PredictedTorque(command) = torque
  <2> HIDE DEF torque
  <2> QED
    BY <1>1, ActuatorAssumption DEF InverseCommand, PredictedTorque, FullScale
<1>3. CommandForDemand(demand) =
        [command |-> command, saturated |-> demand # torque,
         predicted |-> PredictedTorque(command)]
  BY DEF CommandForDemand
<1> HIDE DEF torque, command
<1>4. /\ CommandForDemand(demand).command = command
      /\ CommandForDemand(demand).saturated = (demand # torque)
      /\ CommandForDemand(demand).predicted = torque
  BY <1>2, <1>3
<1>5. QED
  BY <1>1, <1>2, <1>4 DEF torque

(* What passes the gate never promises more torque than the profile's      *)
(* magnitude gives, and less than that by the whole deadzone: the torque   *)
(* predicted again from the constrained command (constrain_mapped_command) *)
(* holds for any demand and any earned history.                            *)
THEOREM ConstrainedTorqueIsBounded ==
  ASSUME NEW G \in Gates, NEW demand \in Int, NEW at \in Nat, NEW g \in Nat,
         G.profile # None,
         g <= at,
         G.last_timestamp # None => /\ g <= G.last_timestamp
                                    /\ G.last_timestamp <= at
                                    /\ Magnitude(G.last_command)
                                         <= G.profile.slew * (G.last_timestamp - g)
                                    /\ Magnitude(G.last_command) <= G.profile.max_abs
  PROVE  LET command == Constrained(G, CommandForDemand(demand).command, at)
             torque == PredictedTorque(command)
         IN  /\ Magnitude(command) <= Deadzone => torque = 0
             /\ Magnitude(command) > Deadzone =>
                  Magnitude(torque) <= G.profile.max_abs - Deadzone
<1> DEFINE requested == CommandForDemand(demand).command
           command == Constrained(G, requested, at)
<1>1. requested \in Int
  BY ActuatorAssumption
  DEF CommandForDemand, InverseCommand, BoundedTorque
<1>2. /\ AfterConstrain(G, requested, at) \in Gates
      /\ AfterConstrain(G, requested, at).last_command = command
      /\ Magnitude(AfterConstrain(G, requested, at).last_command) <= G.profile.max_abs
  <2> HIDE DEF requested
  <2> QED  BY <1>1, ConstrainKeepsHistory
<1>3. command \in Int /\ Magnitude(command) <= G.profile.max_abs
  BY <1>2 DEF Gates
<1>4. G.profile.max_abs \in Nat
  BY DEF Gates, Profiles
<1>5. /\ Magnitude(command) <= Deadzone => PredictedTorque(command) = 0
      /\ Magnitude(command) > Deadzone =>
           Magnitude(PredictedTorque(command)) <= G.profile.max_abs - Deadzone
  <2> HIDE DEF command
  <2> QED
    BY <1>3, <1>4, ActuatorAssumption DEF PredictedTorque, Magnitude
<1>6. QED
  BY <1>5
===============================================================================
