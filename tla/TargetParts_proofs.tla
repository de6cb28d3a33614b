-------------------------- MODULE TargetParts_proofs --------------------------
(***************************************************************************)
(* The parts of the targets, for every period, modulus, resolution and     *)
(* size: the opportunity clock, the encoder accumulator, the pendulum's    *)
(* angle, the shadow loop's telemetry, panel and record, the TB6612        *)
(* bridge, the quadrature decoder, the keys, and what the shadow loop's    *)
(* timing evidence and health verdicts say.                                *)
(***************************************************************************)
EXTENDS MCTargetParts, ShadowLoop, Tb6612Output, WellFoundedInduction, TLAPS

---------------------------------------------------------------------------
(* Arithmetic of \div and % for a divisor that is a parameter.             *)

(* Quotient and remainder.                                                 *)
LEMMA DivMod ==
  ASSUME NEW a \in Int, NEW b \in Nat \ {0}
  PROVE  /\ a \div b \in Int
         /\ a % b \in 0..b - 1
         /\ a = (a \div b) * b + (a % b)
BY SMT

(* The quotient and the remainder are the only ones.                       *)
LEMMA ModUnique ==
  ASSUME NEW q \in Int, NEW r \in Int, NEW b \in Nat \ {0}, 0 <= r, r < b
  PROVE  (q * b + r) % b = r
BY SMT

(* Products distribute over sums.                                          *)
LEMMA Distributes == \A x, y, b \in Int : (x + y) * b = x * b + y * b
BY SMT

(* Products are integers.                                                  *)
LEMMA ProductIsInt == \A x, y \in Int : x * y \in Int
BY SMT

(* A remainder may be taken before an addition or after it.                *)
LEMMA ModAdd ==
  ASSUME NEW a \in Int, NEW c \in Int, NEW b \in Nat \ {0}
  PROVE  ((a % b) + c) % b = (a + c) % b
<1> DEFINE q == a \div b
           r == a % b
           p == (r + c) \div b
           s == (r + c) % b
<1>1. q \in Int /\ r \in Int /\ a = q * b + r
  BY DivMod, SMT
<1>2. p \in Int /\ s \in 0..b - 1 /\ r + c = p * b + s
  BY <1>1, DivMod, SMT
<1> HIDE DEF q, r, p, s
<1>3. a + c = (q + p) * b + s
  <2>1. (q + p) * b = q * b + p * b
    BY <1>1, <1>2, Distributes
  <2> QED
    BY <2>1, <1>1, <1>2, SMT
<1>4. (a + c) % b = s
  <2>1. ((q + p) * b + s) % b = s
    BY <1>1, <1>2, ModUnique, SMT
  <2> QED
    BY <1>3, <2>1
<1> QED
  BY <1>4 DEF s, r
---------------------------------------------------------------------------
(* The opportunity clock.                                                  *)

(* An opportunity is always at least a period after the last call but one, *)
(* and never before the last call: that is why a late call cannot start a  *)
(* burst.                                                                  *)
OpportunityAhead ==
  /\ clock <= next_opportunity
  /\ earlier + ControlPeriod <= next_opportunity

ClockInv == ClockTypeOK /\ OpportunityAhead /\ OpportunitiesAccounted

(* The schedule starts a period after the start.                           *)
LEMMA ClockInitInv == ClockInit => ClockInv
BY ClockAssumption, SMT
DEF ClockInit, ClockInv, ClockTypeOK, OpportunityAhead,
  OpportunitiesAccounted, Restarts

(* A call on schedule moves the schedule on by its own period.             *)
LEMMA OnScheduleInv ==
  ASSUME ClockInv, NEW actual \in 0..ClockHorizon, WaitNextOpportunity(actual),
         OnSchedule(actual)
  PROVE  ClockInv'
<1> DEFINE taken == admitted + missed_opportunities + 1
<1>0. ControlPeriod \in Nat \ {0} /\ ClockHorizon \in Nat
  BY ClockAssumption
<1>1. ClockTypeOK'
  BY <1>0, SMT DEF ClockInv, ClockTypeOK, WaitNextOpportunity, OnSchedule
<1>2. OpportunityAhead'
  BY <1>0, SMT
  DEF ClockInv, ClockTypeOK, OpportunityAhead, WaitNextOpportunity, OnSchedule
<1>3. OpportunitiesAccounted'
  <2>1. taken \in Int /\ taken' = taken + 1
    BY DEF ClockInv, ClockTypeOK, WaitNextOpportunity, OnSchedule
  <2>2. (taken + 1) * ControlPeriod = taken * ControlPeriod + ControlPeriod
    BY <2>1, <1>0, Distributes, SMT
  <2>3. Restarts' = Restarts
    BY <2>1, <2>2, <1>0, SMT
    DEF Restarts, ClockInv, ClockTypeOK, OnSchedule
  <2> QED
    BY <2>3 DEF ClockInv, OpportunitiesAccounted, OnSchedule
<1> QED
  BY <1>1, <1>2, <1>3 DEF ClockInv

(* A late call skips whole periods, which are counted, and moves the       *)
(* schedule by the rest.                                                   *)
LEMMA OverrunInv ==
  ASSUME ClockInv, NEW actual \in 0..ClockHorizon, WaitNextOpportunity(actual),
         Overrun(actual)
  PROVE  ClockInv'
<1> DEFINE taken == admitted + missed_opportunities + 1
           late == actual - next_opportunity
           skipped == late \div ControlPeriod
           rest == late % ControlPeriod
<1>0. ControlPeriod \in Nat \ {0} /\ ClockHorizon \in Nat
  BY ClockAssumption
<1>1. late \in Nat
  BY <1>0, SMT DEF ClockInv, ClockTypeOK, WaitNextOpportunity
<1>2. /\ skipped \in Int /\ rest \in 0..ControlPeriod - 1
      /\ late = skipped * ControlPeriod + rest
  <2> HIDE DEF late
  <2> QED
    BY <1>0, <1>1, DivMod, SMT
<1>3. skipped \in Nat
  <2> HIDE DEF late
  <2> QED
    BY <1>0, <1>1, SMT
<1>4. /\ missed_opportunities' = missed_opportunities + skipped
      /\ deadline_overruns' = deadline_overruns + 1
      /\ next_opportunity' = actual + ControlPeriod
      /\ admitted' = admitted + 1
      /\ clock' = actual /\ earlier' = clock
      /\ clock \in Nat /\ next_opportunity \in Nat /\ actual \in Nat
      /\ missed_opportunities \in Nat /\ admitted \in Nat
      /\ deadline_overruns \in Nat
      /\ next_opportunity = actual - late
      /\ clock <= actual
  BY <1>0, SMT DEF ClockInv, ClockTypeOK, Overrun, WaitNextOpportunity
<1>5. taken \in Int /\ taken' = taken + 1 + skipped
  BY <1>3, <1>4, SMT
<1>6. Restarts' = Restarts + rest
  <2>1. /\ Restarts = next_opportunity - taken * ControlPeriod
        /\ Restarts' = next_opportunity' - taken' * ControlPeriod
    BY <1>0, <1>4, <1>5, SMT DEF Restarts
  <2> HIDE DEF taken, skipped, rest, late
  <2>2. taken' * ControlPeriod =
          taken * ControlPeriod + ControlPeriod + skipped * ControlPeriod
    <3>1. (taken + 1 + skipped) * ControlPeriod =
            (taken + 1) * ControlPeriod + skipped * ControlPeriod
      BY <1>0, <1>3, <1>5, Distributes, SMT
    <3>2. (taken + 1) * ControlPeriod = taken * ControlPeriod + ControlPeriod
      BY <1>0, <1>5, Distributes, SMT
    <3> QED
      BY <1>5, <3>1, <3>2
  <2>3. taken * ControlPeriod \in Int /\ skipped * ControlPeriod \in Int
    BY <1>0, <1>3, <1>5, ProductIsInt
  <2> QED
    BY <2>1, <2>2, <2>3, <1>0, <1>1, <1>2, <1>4, SMT
<1> HIDE DEF taken, skipped, rest, late
<1>7. ClockTypeOK'
  BY <1>0, <1>3, <1>4, SMT DEF ClockTypeOK
<1>8. OpportunityAhead'
  BY <1>0, <1>4, SMT DEF OpportunityAhead
<1>9. OpportunitiesAccounted'
  <2>1. (ControlPeriod - 1) * (deadline_overruns + 1) =
          (ControlPeriod - 1) * deadline_overruns + (ControlPeriod - 1)
    BY <1>0, <1>4, SMT
  <2>2. Restarts \in Int /\ (ControlPeriod - 1) * deadline_overruns \in Int
    BY <1>0, <1>4, ProductIsInt, SMT DEF Restarts
  <2>3. 0 <= Restarts /\ Restarts <= (ControlPeriod - 1) * deadline_overruns
    BY DEF ClockInv, OpportunitiesAccounted
  <2> QED
    BY <2>1, <2>2, <2>3, <1>0, <1>2, <1>4, <1>6, SMT DEF OpportunitiesAccounted
<1> QED
  BY <1>7, <1>8, <1>9 DEF ClockInv

(* Every call of the wait keeps it.                                        *)
LEMMA ClockNextInv == ClockInv /\ [ClockNext]_clockVars => ClockInv'
<1> SUFFICES ASSUME ClockInv, [ClockNext]_clockVars PROVE ClockInv'
  OBVIOUS
<1>1. ASSUME NEW actual \in 0..ClockHorizon, WaitNextOpportunity(actual)
      PROVE  ClockInv'
  BY <1>1, OverrunInv, OnScheduleInv DEF WaitNextOpportunity
<1>2. CASE UNCHANGED clockVars
  BY <1>2
  DEF clockVars, ClockInv, ClockTypeOK, OpportunityAhead,
    OpportunitiesAccounted, Restarts
<1> QED
  BY <1>1, <1>2 DEF ClockNext

(* It is an invariant of the clock.                                        *)
LEMMA ClockInvariant == ClockSpec => []ClockInv
BY ClockInitInv, ClockNextInv, PTL DEF ClockSpec

(* The counters and times of the opportunity clock keep their types        *)
(* (platform.cpp).                                                         *)
THEOREM ClockTypeCorrect == ClockSpec => []ClockTypeOK
<1>1. ClockInv => ClockTypeOK
  BY DEF ClockInv
<1> QED
  BY <1>1, ClockInvariant, PTL

(* However late the calls of wait_next_opportunity return, every ideal     *)
(* opportunity is admitted or counted as missed, up to the fraction of a   *)
(* period by which each restart moves the schedule.                        *)
THEOREM OpportunitiesAddUp == ClockSpec => []OpportunitiesAccounted
<1>1. ClockInv => OpportunitiesAccounted
  BY DEF ClockInv
<1> QED
  BY <1>1, ClockInvariant, PTL

(* No three calls of wait_next_opportunity return within one period:       *)
(* missed opportunities are never replayed as a burst.                     *)
THEOREM MissesAreNotReplayed == ClockSpec => NoBurst
<1>1. ClockInv /\ [ClockNext]_clockVars =>
        [clock' >= earlier + ControlPeriod]_clockVars
  BY ClockAssumption, SMT
  DEF ClockInv, ClockTypeOK, OpportunityAhead, ClockNext, WaitNextOpportunity
<1> QED
  BY <1>1, ClockInvariant, PTL DEF ClockSpec, NoBurst
---------------------------------------------------------------------------
(* The encoder accumulator.                                                *)

(* The timer's counter is the last sample plus the movement since, as far  *)
(* as its width can tell.                                                  *)
CounterFollows ==
  /\ arm \in Int /\ moved \in Int
  /\ counter \in Counters /\ previous_counter \in Counters
  /\ accumulated_count \in Int
  /\ outrun \in BOOLEAN
  /\ counter = (previous_counter + moved) % CounterModulus

AccumulatorInv == CounterFollows /\ AccumulatorFollows

(* The 16-bit difference of two readings is the movement between them, if  *)
(* that was less than half the counter's range.                            *)
LEMMA SignedDeltaIsMovement ==
  ASSUME NEW before \in Counters, NEW movement \in Int,
         2 * movement < CounterModulus, 2 * movement >= -CounterModulus
  PROVE  SignedDelta((before + movement) % CounterModulus, before) = movement
<1> DEFINE now == (before + movement) % CounterModulus
           difference == (now - before) % CounterModulus
<1>0. /\ CounterModulus \in Nat \ {0} /\ before \in Int
  BY CounterAssumption DEF Counters
<1>1. difference = movement % CounterModulus
  <2>1. (((before + movement) % CounterModulus) + (-before)) % CounterModulus
          = (before + movement + (-before)) % CounterModulus
    <3>1. before + movement \in Int /\ -before \in Int
      BY <1>0
    <3> QED
      BY <1>0, <3>1, ModAdd
  <2>2. now \in Int
    BY <1>0, SMT
  <2>3. /\ now + (-before) = now - before
        /\ before + movement + (-before) = movement
    <3> HIDE DEF now
    <3> QED
      BY <1>0, <2>2, SMT
  <2> QED
    BY <2>1, <2>3
<1>2. movement % CounterModulus =
        IF movement >= 0 THEN movement ELSE movement + CounterModulus
  <2>1. CASE movement >= 0
    <3>1. (0 * CounterModulus + movement) % CounterModulus = movement
      BY <1>0, <2>1, ModUnique, SMT
    <3> QED
      BY <1>0, <2>1, <3>1, SMT
  <2>2. CASE movement < 0
    <3> DEFINE r == movement + CounterModulus
    <3>1. /\ r \in Int /\ 0 <= r /\ r < CounterModulus
          /\ -1 * CounterModulus + r = movement
      BY <1>0, <2>2, SMT
    <3>2. (-1 * CounterModulus + r) % CounterModulus = r
      <4> HIDE DEF r
      <4> QED
        BY <1>0, <3>1, ModUnique, SMT
    <3> QED
      BY <1>0, <2>2, <3>1, <3>2, SMT
  <2> QED
    BY <2>1, <2>2, SMT
<1> QED
  BY <1>0, <1>1, <1>2, SMT DEF SignedDelta

(* The first reading starts the accumulator at no distance.                *)
LEMMA AccumulatorInitInv == AccumulatorInit => AccumulatorInv
<1> SUFFICES ASSUME AccumulatorInit PROVE AccumulatorInv
  OBVIOUS
<1>1. CounterModulus \in Nat \ {0}
  BY CounterAssumption
<1>2. counter \in Counters /\ previous_counter = counter /\ moved = 0
  BY DEF AccumulatorInit
<1>3. (0 * CounterModulus + counter) % CounterModulus = counter
  BY <1>1, <1>2, ModUnique, SMT DEF Counters
<1>4. 0 * CounterModulus + counter = counter + 0
  BY <1>1, <1>2, SMT DEF Counters
<1>5. counter = (previous_counter + moved) % CounterModulus
  BY <1>2, <1>3, <1>4
<1>6. CounterFollows
  <2>1. arm \in Int /\ moved \in Int /\ accumulated_count \in Int
    BY DEF AccumulatorInit
  <2>2. outrun \in BOOLEAN
    BY Zenon DEF AccumulatorInit
  <2> QED
    BY <1>2, <1>5, <2>1, <2>2, Zenon DEF CounterFollows
<1> QED
  BY <1>6 DEF AccumulatorInit, AccumulatorInv, AccumulatorFollows

(* One count of the arm moves the hardware counter by one.                 *)
LEMMA MoveInv ==
  ASSUME AccumulatorInv, NEW direction \in {-1, 1}, Move(direction)
  PROVE  AccumulatorInv'
<1>0. CounterModulus \in Nat \ {0} /\ direction \in Int
  <2>1. direction = -1 \/ direction = 1
    OBVIOUS
  <2> QED
    BY <2>1, CounterAssumption
<1>1. counter' = (previous_counter' + moved') % CounterModulus
  <2>1. previous_counter \in Int /\ moved \in Int
    BY <1>0, SMT DEF AccumulatorInv, CounterFollows, Counters
  <2>2. (((previous_counter + moved) % CounterModulus) + direction) % CounterModulus
          = (previous_counter + moved + direction) % CounterModulus
    <3>1. previous_counter + moved \in Int
      BY <2>1
    <3> QED
      BY <1>0, <3>1, ModAdd
  <2>3. previous_counter + moved + direction = previous_counter + (moved + direction)
    BY <1>0, <2>1, SMT
  <2> QED
    BY <2>2, <2>3 DEF AccumulatorInv, CounterFollows, Move
<1>2. counter' \in Counters
  <2>1. counter + direction \in Int
    BY <1>0, SMT DEF AccumulatorInv, CounterFollows, Counters
  <2> QED
    BY <1>0, <2>1, DivMod DEF Move, Counters
<1> QED
  BY <1>0, <1>1, <1>2, SMT
  DEF AccumulatorInv, CounterFollows, AccumulatorFollows, Move

(* A sample adds the signed difference, which is how far the arm has moved *)
(* unless it outran half the counter.                                      *)
LEMMA SampleInv ==
  ASSUME AccumulatorInv, Sample
  PROVE  AccumulatorInv'
<1> DEFINE delta == SignedDelta(counter, previous_counter)
           sum == accumulated_count + delta
<1>0. CounterModulus \in Nat \ {0} /\ CountLimit \in Nat
  BY CounterAssumption
<1>1. /\ arm \in Int /\ moved \in Int /\ accumulated_count \in Int
      /\ outrun \in BOOLEAN
      /\ counter \in Counters /\ previous_counter \in Counters
      /\ counter \in Int /\ previous_counter \in Int
      /\ counter = (previous_counter + moved) % CounterModulus
      /\ ~outrun => accumulated_count + moved = arm
  BY <1>0, SMT DEF AccumulatorInv, CounterFollows, AccumulatorFollows, Counters
<1>2. /\ accumulated_count' = Saturated(sum)
      /\ previous_counter' = counter
      /\ outrun' = (outrun \/ sum # Saturated(sum)
                      \/ 2 * moved >= CounterModulus \/ 2 * moved < -CounterModulus)
      /\ moved' = 0 /\ arm' = arm /\ counter' = counter
  BY DEF Sample
<1>3. delta \in Int /\ sum \in Int /\ Saturated(sum) \in Int
  <2>1. (counter - previous_counter) % CounterModulus \in Int
    BY <1>0, <1>1, DivMod, SMT
  <2>2. delta \in Int
    BY <1>0, <2>1, SMT DEF SignedDelta
  <2> HIDE DEF delta
  <2> QED
    BY <1>0, <1>1, <2>2, SMT DEF Saturated
<1>4. counter' = (previous_counter' + moved') % CounterModulus
  <2>1. (0 * CounterModulus + counter) % CounterModulus = counter
    BY <1>0, <1>1, ModUnique, SMT DEF Counters
  <2>2. 0 * CounterModulus + counter = counter + 0
    BY <1>0, <1>1, SMT
  <2> QED
    BY <1>2, <2>1, <2>2
<1>5. CounterFollows'
  <2> HIDE DEF sum
  <2> QED
    BY <1>0, <1>1, <1>2, <1>3, <1>4 DEF CounterFollows
<1>6. AccumulatorFollows'
  <2> SUFFICES ASSUME ~outrun' PROVE accumulated_count' + moved' = arm'
    BY DEF AccumulatorFollows
  <2>1. /\ ~outrun /\ sum = Saturated(sum)
        /\ ~(2 * moved >= CounterModulus) /\ ~(2 * moved < -CounterModulus)
    <3> HIDE DEF sum
    <3> QED
      BY <1>2, Zenon
  <2>2. delta = moved
    <3>1. 2 * moved < CounterModulus /\ 2 * moved >= -CounterModulus
      BY <2>1, <1>0, <1>1, SMT
    <3> QED
      BY <3>1, <1>1, SignedDeltaIsMovement
  <2> HIDE DEF delta
  <2> QED
    BY <1>1, <1>2, <2>1, <2>2, SMT
<1> QED
  BY <1>5, <1>6 DEF AccumulatorInv

(* So every step keeps it.                                                 *)
LEMMA AccumulatorNextInv ==
  AccumulatorInv /\ [AccumulatorNext]_accumulatorVars => AccumulatorInv'
<1> SUFFICES ASSUME AccumulatorInv, [AccumulatorNext]_accumulatorVars
             PROVE  AccumulatorInv'
  OBVIOUS
<1>1. CASE AccumulatorNext
  BY <1>1, MoveInv, SampleInv DEF AccumulatorNext
<1>2. CASE UNCHANGED accumulatorVars
  BY <1>2 DEF accumulatorVars, AccumulatorInv, CounterFollows, AccumulatorFollows
<1> QED
  BY <1>1, <1>2

(* The arm is followed through every wrap of the timer's counter, for      *)
(* every even width, every range of the count and any distance of travel   *)
(* (EncoderCounterAccumulator::update).                                    *)
THEOREM ArmIsFollowed == AccumulatorSpec => []AccumulatorFollows
<1>1. AccumulatorInv => AccumulatorFollows
  BY DEF AccumulatorInv
<1> QED
  BY <1>1, AccumulatorInitInv, AccumulatorNextInv, PTL DEF AccumulatorSpec
---------------------------------------------------------------------------
(* The pendulum's angle.                                                   *)

(* Of all numbers that differ by whole turns only one is within half a     *)
(* turn.                                                                   *)
LEMMA HalfTurnIsUnique ==
  ASSUME NEW turn \in Nat \ {0}, NEW y \in Int, NEW z \in Int, NEW k \in Int,
         y = z + k * turn,
         -turn < 2 * z, 2 * z < turn, -turn <= 2 * y, 2 * y <= turn
  PROVE  k = 0 /\ y = z
<1>1. CASE k >= 1
  <2>1. k * turn >= turn
    BY <1>1, SMT
  <2> QED
    BY <2>1, ProductIsInt, SMT
<1>2. CASE k <= -1
  <2>1. k * turn <= -turn
    BY <1>2, SMT
  <2> QED
    BY <2>1, ProductIsInt, SMT
<1>3. CASE k = 0
  BY <1>3, SMT
<1> QED
  BY <1>1, <1>2, <1>3, SMT

(* wrap_pi changes an angle by whole turns and leaves it within half a     *)
(* turn.                                                                   *)
LEMMA WrapPiWraps ==
  ASSUME NEW x \in Int, NEW turn \in Nat \ {0}
  PROVE  /\ WrapPi(x, turn) \in Int
         /\ -turn <= 2 * WrapPi(x, turn) /\ 2 * WrapPi(x, turn) <= turn
         /\ \E k \in Int : WrapPi(x, turn) = x + k * turn
<1> DEFINE q == x \div turn
           r == x % turn
<1>1. q \in Int /\ r \in 0..turn - 1 /\ x = q * turn + r
  BY DivMod
<1>2. WrapPi(x, turn) =
        IF 2 * Absolute(x) <= turn THEN x
        ELSE IF 2 * r > turn \/ (x < 0 /\ 2 * r = turn) THEN r - turn
        ELSE r
  BY DEF WrapPi
<1> HIDE DEF q, r
<1>3. CASE WrapPi(x, turn) = x /\ 2 * Absolute(x) <= turn
  <2>1. x = x + 0 * turn
    BY SMT
  <2> QED
    BY <1>3, <2>1, SMT DEF Absolute
<1>4. CASE WrapPi(x, turn) = r - turn /\ 2 * r >= turn
  <2>1. (-q - 1) * turn = (-q) * turn - turn /\ (-q) * turn = -(q * turn)
    BY <1>1, SMT
  <2>2. r - turn = x + (-q - 1) * turn /\ r - turn \in Int
    BY <1>1, <2>1, ProductIsInt, SMT
  <2>3. -q - 1 \in Int
    BY <1>1
  <2>4. -turn <= 2 * (r - turn) /\ 2 * (r - turn) <= turn
    BY <1>1, <1>4, SMT
  <2>5. \E k \in Int : r - turn = x + k * turn
    BY <2>2, <2>3
  <2> QED
    BY <1>4, <2>2, <2>4, <2>5
<1>5. CASE WrapPi(x, turn) = r /\ 2 * r <= turn
  <2>1. (-q) * turn = -(q * turn)
    BY <1>1, SMT
  <2>2. r = x + (-q) * turn
    BY <1>1, <2>1, ProductIsInt, SMT
  <2>3. -q \in Int
    BY <1>1
  <2>4. -turn <= 2 * r /\ 2 * r <= turn /\ r \in Int
    BY <1>1, <1>5, SMT
  <2>5. \E k \in Int : r = x + k * turn
    BY <2>2, <2>3
  <2> QED
    BY <1>5, <2>4, <2>5
<1> QED
  BY <1>1, <1>2, <1>3, <1>4, <1>5, SMT

(* Rounding to a whole count is off by half a count at most.               *)
LEMMA RoundedIsNear ==
  ASSUME NEW x \in Int
  PROVE  /\ Rounded(x) \in Int
         /\ -Parts <= 2 * (Parts * Rounded(x) - x)
         /\ 2 * (Parts * Rounded(x) - x) <= Parts
<1> DEFINE size == Absolute(x)
           counts == (2 * size + Parts) \div (2 * Parts)
<1>0. Parts \in Nat \ {0}
  BY AngleAssumption
<1>1. size \in Nat /\ x = IF x < 0 THEN -size ELSE size
  BY SMT DEF Absolute
<1>2. Rounded(x) = IF x < 0 THEN -counts ELSE counts
  BY DEF Rounded
<1> HIDE DEF size
<1>3. /\ counts \in Int
      /\ counts * (2 * Parts) <= 2 * size + Parts
      /\ 2 * size + Parts < counts * (2 * Parts) + 2 * Parts
  <2> DEFINE a == 2 * size + Parts
             b == 2 * Parts
  <2>1. a \in Int /\ b \in Nat \ {0}
    BY <1>0, <1>1, SMT
  <2> HIDE DEF a, b
  <2>2. a \div b \in Int /\ a % b \in 0..b - 1 /\ a = (a \div b) * b + (a % b)
    BY <2>1, DivMod
  <2>3. (a \div b) * b <= a /\ a < (a \div b) * b + b
    BY <2>1, <2>2, ProductIsInt, SMT
  <2> QED
    BY <2>2, <2>3 DEF a, b
<1> HIDE DEF counts
<1>4. /\ counts * (2 * Parts) = 2 * (Parts * counts)
      /\ Parts * (-counts) = -(Parts * counts)
      /\ Parts * counts \in Int
  BY <1>0, <1>3, SMT
<1> QED
  BY <1>0, <1>1, <1>2, <1>3, <1>4, SMT
FullTurn == Parts * AdcModulus

(* A full turn is at least two counts.                                     *)
LEMMA FullTurnType ==
  /\ Parts \in Nat \ {0} /\ AdcModulus \in Nat \ {0} /\ UprightAdc \in Int
  /\ FullTurn \in Nat \ {0} /\ 2 * Parts <= FullTurn
<1>1. /\ Parts \in Nat \ {0} /\ AdcModulus \in Nat \ {0} /\ AdcModulus % 2 = 0
      /\ UprightAdc \in Int
  BY AngleAssumption
<1>2. AdcModulus >= 2
  BY <1>1, SMT
<1>3. Parts * AdcModulus \in Int /\ Parts * AdcModulus >= Parts * 2
  BY <1>1, <1>2, SMT
<1> QED
  BY <1>1, <1>3, SMT DEF FullTurn

(* Reading, calibration and both of their seams: a measured angle is       *)
(* within half a turn, and up to whole turns within half a count of the    *)
(* true one.                                                               *)
LEMMA MeasuredAngle ==
  ASSUME NEW p \in Int, pendulum_direction \in Directions
  PROVE  LET theta == Angle(AdcRaw(p))
         IN  /\ theta \in Int
             /\ -AdcModulus <= 2 * theta /\ 2 * theta <= AdcModulus
             /\ Error(theta, p) \in Int
             /\ -Parts <= 2 * Error(theta, p) /\ 2 * Error(theta, p) <= Parts
             /\ \E k \in Int : p - Error(theta, p) = Parts * theta + k * FullTurn
<1> DEFINE theta == Angle(AdcRaw(p))
           w == WrapPi(p, FullTurn)
           d == pendulum_direction
           n == Rounded(d * w)
           adc == (UprightAdc + n) % AdcModulus
           u == (UprightAdc + n) \div AdcModulus
           e == Error(theta, p)
<1>0. /\ Parts \in Nat \ {0} /\ AdcModulus \in Nat \ {0} /\ UprightAdc \in Int
      /\ FullTurn \in Nat \ {0} /\ 2 * Parts <= FullTurn
      /\ d \in Int /\ (d = 1 \/ d = -1)
  BY FullTurnType DEF Directions
<1>1. /\ AdcRaw(p) = adc
      /\ theta = WrapPi((adc - UprightAdc) * d, AdcModulus)
      /\ e = WrapPi(p - Parts * theta, FullTurn)
  BY DEF AdcRaw, Angle, Error, FullTurn
<1>2. w \in Int /\ d * w \in Int /\ \E a \in Int : w = p + a * FullTurn
  <2>1. w \in Int /\ \E a \in Int : w = p + a * FullTurn
    BY <1>0, WrapPiWraps
  <2> HIDE DEF w
  <2> QED
    BY <1>0, <2>1, ProductIsInt
<1>3. PICK a \in Int : w = p + a * FullTurn
  BY <1>2
<1>4. /\ n \in Int
      /\ -Parts <= 2 * (Parts * n - d * w) /\ 2 * (Parts * n - d * w) <= Parts
  BY <1>2, RoundedIsNear
<1> HIDE DEF theta, w, d, n, e
<1>5. u \in Int /\ adc \in Int /\ UprightAdc + n = u * AdcModulus + adc
  BY <1>0, <1>4, DivMod, SMT
<1> HIDE DEF u, adc
<1>6. /\ theta \in Int /\ -AdcModulus <= 2 * theta /\ 2 * theta <= AdcModulus
      /\ \E b \in Int : theta = (adc - UprightAdc) * d + b * AdcModulus
  <2>1. (adc - UprightAdc) * d \in Int
    BY <1>0, <1>5, SMT
  <2> QED
    BY <1>0, <1>1, <2>1, WrapPiWraps
<1>7. PICK b \in Int : theta = (adc - UprightAdc) * d + b * AdcModulus
  BY <1>6
<1>8. PICK c \in Int : theta = d * n + c * AdcModulus
  <2>1. adc - UprightAdc = n - u * AdcModulus
    BY <1>0, <1>4, <1>5, ProductIsInt, SMT
  <2>2. (n - u * AdcModulus) * d = d * n - (d * u) * AdcModulus
    BY <1>0, <1>4, <1>5, SMT
  <2>3. d * u \in Int /\ b - d * u \in Int
    BY <1>0, <1>5, <1>7, SMT
  <2>4. (b - d * u) * AdcModulus = b * AdcModulus - (d * u) * AdcModulus
    <3> DEFINE v == d * u
    <3>1. v \in Int
      BY <2>3
    <3> HIDE DEF v
    <3>2. (b - v) * AdcModulus = b * AdcModulus - v * AdcModulus
      BY <1>0, <1>7, <3>1, SMT
    <3> QED
      BY <3>2 DEF v
  <2>5. theta = d * n + (b - d * u) * AdcModulus
    BY <1>0, <1>4, <1>7, <2>1, <2>2, <2>3, <2>4, ProductIsInt, SMT
  <2> QED
    BY <2>3, <2>5
<1> DEFINE off == d * (Parts * n - d * w)
<1>9. /\ off \in Int /\ -Parts <= 2 * off /\ 2 * off <= Parts
      /\ off = Parts * (d * n) - w
  <2> DEFINE v == Parts * n
  <2>1. v \in Int
    BY <1>0, <1>4, ProductIsInt
  <2>2. Parts * (d * n) = d * v
    BY <1>0, <1>4, SMT
  <2> HIDE DEF v
  <2>3. /\ d * (v - d * w) \in Int
        /\ -Parts <= 2 * (d * (v - d * w)) /\ 2 * (d * (v - d * w)) <= Parts
        /\ d * (v - d * w) = d * v - w
    <3>1. -Parts <= 2 * (v - d * w) /\ 2 * (v - d * w) <= Parts
      BY <1>4 DEF v
    <3>2. CASE d = 1
      BY <1>0, <1>2, <2>1, <3>1, <3>2, SMT
    <3>3. CASE d = -1
      BY <1>0, <1>2, <2>1, <3>1, <3>3, SMT
    <3> QED
      BY <1>0, <3>2, <3>3
  <2> QED
    BY <2>2, <2>3 DEF v
<1> HIDE DEF off
<1>10. /\ Parts * theta \in Int /\ a + c \in Int
       /\ Parts * theta = p + off + (a + c) * FullTurn
  <2>1. Parts * theta = Parts * (d * n) + c * FullTurn
    <3> DEFINE v == d * n
    <3>1. v \in Int
      BY <1>0, <1>4, SMT
    <3> HIDE DEF v
    <3>2. Parts * (v + c * AdcModulus) = Parts * v + c * (Parts * AdcModulus)
      BY <1>0, <1>8, <3>1, SMT
    <3> QED
      BY <1>8, <3>2 DEF v, FullTurn
  <2>2. (a + c) * FullTurn = a * FullTurn + c * FullTurn
    BY <1>0, <1>3, <1>8, Distributes
  <2>3. /\ a * FullTurn \in Int /\ c * FullTurn \in Int
        /\ Parts * (d * n) \in Int /\ a + c \in Int
    BY <1>0, <1>3, <1>4, <1>8, ProductIsInt
  <2> DEFINE x == a * FullTurn
             y == c * FullTurn
             z == Parts * (d * n)
  <2>4. /\ x \in Int /\ y \in Int /\ z \in Int
        /\ w = p + x /\ off = z - w /\ Parts * theta = z + y
        /\ (a + c) * FullTurn = x + y
    BY <1>3, <1>9, <2>1, <2>2, <2>3
  <2> HIDE DEF x, y, z
  <2> QED
    BY <1>2, <1>9, <2>3, <2>4, SMT
<1>11. /\ e \in Int /\ -FullTurn <= 2 * e /\ 2 * e <= FullTurn
       /\ \E k \in Int : e = p - Parts * theta + k * FullTurn
  <2> DEFINE y == p - Parts * theta
  <2>1. y \in Int /\ e = WrapPi(y, FullTurn)
    BY <1>1, <1>10
  <2> HIDE DEF y
  <2>2. /\ e \in Int /\ -FullTurn <= 2 * e /\ 2 * e <= FullTurn
        /\ \E k \in Int : e = y + k * FullTurn
    BY <1>0, <2>1, WrapPiWraps
  <2> QED
    BY <2>2 DEF y
<1>12. PICK k \in Int : e = p - Parts * theta + k * FullTurn
  BY <1>11
<1>13. e = -off
  <2>1. (k - (a + c)) * FullTurn = k * FullTurn - (a + c) * FullTurn
    <3> DEFINE v == a + c
    <3>1. v \in Int
      BY <1>10
    <3> HIDE DEF v
    <3>2. (k - v) * FullTurn = k * FullTurn - v * FullTurn
      BY <1>0, <1>12, <3>1, SMT
    <3> QED
      BY <3>2 DEF v
  <2>2. k * FullTurn \in Int /\ (a + c) * FullTurn \in Int
    BY <1>0, <1>10, <1>12, ProductIsInt
  <2>3. e = -off + (k - (a + c)) * FullTurn
    BY <1>9, <1>10, <1>12, <2>1, <2>2, SMT
  <2>4. /\ -off \in Int /\ k - (a + c) \in Int
        /\ -FullTurn < 2 * (-off) /\ 2 * (-off) < FullTurn
    BY <1>0, <1>9, <1>10, <1>12, SMT
  <2> DEFINE y == -off
             j == k - (a + c)
  <2>5. /\ y \in Int /\ j \in Int /\ e = y + j * FullTurn
        /\ -FullTurn < 2 * y /\ 2 * y < FullTurn
    BY <2>3, <2>4
  <2> HIDE DEF y, j
  <2>6. e = y
    BY <1>0, <1>11, <2>5, HalfTurnIsUnique
  <2> QED
    BY <2>6 DEF y
<1>14. /\ -Parts <= 2 * e /\ 2 * e <= Parts
       /\ p - e = Parts * theta + (-k) * FullTurn
  <2>1. (-k) * FullTurn = -(k * FullTurn) /\ k * FullTurn \in Int
    BY <1>0, <1>12, SMT
  <2> QED
    BY <1>0, <1>9, <1>10, <1>12, <1>13, <2>1, SMT
<1>15. \E j \in Int : p - e = Parts * theta + j * FullTurn
  <2>1. -k \in Int
    BY <1>12
  <2> QED
    BY <1>14, <2>1
<1> QED
  BY <1>6, <1>11, <1>14, <1>15 DEF theta, e

(* Dividing a multiple by the divisor is exact.                            *)
LEMMA DivExact ==
  ASSUME NEW x \in Int, NEW b \in Nat \ {0}
  PROVE  (x * b) \div b = x
BY SMT

(* What a measured angle says of the true one.                             *)
Measured(theta, at) ==
  /\ theta \in Int
  /\ -AdcModulus <= 2 * theta /\ 2 * theta <= AdcModulus
  /\ Error(theta, at) \in Int
  /\ -Parts <= 2 * Error(theta, at) /\ 2 * Error(theta, at) <= Parts
  /\ \E k \in Int : at - Error(theta, at) = Parts * theta + k * FullTurn

(* The angles differ from the true ones by an error that the differences   *)
(* carry along and never add up.                                           *)
AngleInv ==
  /\ pendulum \in Int /\ pendulum_direction \in Directions
  /\ previous_theta # NoAngle => Measured(previous_theta, pendulum)
  /\ primed_at # NoAngle =>
       /\ primed_at \in Int /\ followed \in Int
       /\ Measured(previous_theta, pendulum)
       /\ Parts * (primed_at + followed) = pendulum - Error(previous_theta, pendulum)

(* What it says of the latest angle is PendulumFollows.                    *)
LEMMA AngleInvFollows == AngleInv => PendulumFollows
<1> SUFFICES ASSUME AngleInv PROVE PendulumFollows
  OBVIOUS
<1> DEFINE e == Error(previous_theta, pendulum)
<1>0. Parts \in Nat
  BY FullTurnType
<1>1. ASSUME previous_theta # NoAngle PROVE 2 * Absolute(e) <= Parts
  <2>1. e \in Int /\ -Parts <= 2 * e /\ 2 * e <= Parts
    BY <1>1 DEF AngleInv, Measured
  <2> HIDE DEF e
  <2> QED
    BY <1>0, <2>1, SMT DEF Absolute
<1>2. ASSUME primed_at # NoAngle
      PROVE  2 * Absolute(Parts * (primed_at + followed) - pendulum) <= Parts
  <2>1. /\ e \in Int /\ -Parts <= 2 * e /\ 2 * e <= Parts
        /\ Parts * (primed_at + followed) = pendulum - e
        /\ pendulum \in Int
    BY <1>2 DEF AngleInv, Measured
  <2> HIDE DEF e
  <2>2. Parts * (primed_at + followed) - pendulum = -e
    BY <2>1, SMT
  <2> QED
    BY <1>0, <2>1, <2>2, SMT DEF Absolute
<1> QED
  BY <1>1, <1>2 DEF PendulumFollows

(* The estimator starts without an angle, however the pendulum hangs.      *)
LEMMA AngleInitInv == AngleInit => AngleInv
BY DEF AngleInit, AngleInv

(* The first measurement, and one after a gap.                             *)
LEMMA PrimeInv ==
  ASSUME AngleInv, NEW theta, pendulum' \in Int, Measured(theta, pendulum'),
         Prime(theta), UNCHANGED pendulum_direction
  PROVE  AngleInv'
<1> DEFINE e == Error(theta, pendulum')
<1>0. Parts \in Nat \ {0} /\ AdcModulus \in Nat \ {0}
  BY FullTurnType
<1>1. PICK k \in Int : pendulum' - e = Parts * theta + k * FullTurn
  BY DEF Measured
<1>2. theta \in Int /\ e \in Int
  BY DEF Measured
<1> DEFINE x == theta + k * AdcModulus
<1>3. x \in Int /\ pendulum' - e = x * Parts
  <2>1. k * AdcModulus \in Int
    BY <1>0, ProductIsInt
  <2>2. Parts * theta + k * (Parts * AdcModulus) = (theta + k * AdcModulus) * Parts
    BY <1>0, <1>2, SMT
  <2> QED
    BY <1>1, <1>2, <2>1, <2>2 DEF FullTurn
<1> HIDE DEF x
<1>4. primed_at' = x
  <2>1. primed_at' = (pendulum' - e) \div Parts
    BY DEF Prime
  <2>2. (x * Parts) \div Parts = x
    BY <1>0, <1>3, DivExact
  <2> QED
    BY <1>3, <2>1, <2>2
<1>5. previous_theta' = theta /\ followed' = 0
  BY DEF Prime
<1>6. Parts * (primed_at' + followed') = pendulum' - e
  <2>1. x + 0 = x /\ Parts * x = x * Parts
    BY <1>0, <1>3, SMT
  <2> QED
    BY <1>3, <1>4, <1>5, <2>1
<1>7. Error(previous_theta, pendulum)' = e /\ Measured(previous_theta, pendulum)'
  BY <1>5 DEF Error, Measured
<1>8. primed_at' \in Int /\ followed' \in Int
  BY <1>3, <1>4, <1>5
<1> QED
  BY <1>6, <1>7, <1>8 DEF AngleInv

(* Two measurements less than half a turn apart differ by the true         *)
(* movement between them and the change of the error.                      *)
LEMMA DifferenceIsMovement ==
  ASSUME NEW before \in Int, NEW after \in Int, NEW theta0, NEW theta1,
         Measured(theta0, before), Measured(theta1, after),
         2 * (Absolute(after - before) + Parts) < FullTurn
  PROVE  /\ ShortestCircularDelta(theta1 - theta0) \in Int
         /\ Parts * ShortestCircularDelta(theta1 - theta0) =
              (after - Error(theta1, after)) - (before - Error(theta0, before))
<1> DEFINE e0 == Error(theta0, before)
           e1 == Error(theta1, after)
           delta == theta1 - theta0
<1>0. /\ Parts \in Nat \ {0} /\ AdcModulus \in Nat \ {0}
      /\ FullTurn \in Nat \ {0}
  BY FullTurnType
<1>1. /\ theta0 \in Int /\ theta1 \in Int /\ e0 \in Int /\ e1 \in Int
      /\ -AdcModulus <= 2 * theta0 /\ 2 * theta0 <= AdcModulus
      /\ -AdcModulus <= 2 * theta1 /\ 2 * theta1 <= AdcModulus
      /\ -Parts <= 2 * e0 /\ 2 * e0 <= Parts
      /\ -Parts <= 2 * e1 /\ 2 * e1 <= Parts
  BY DEF Measured
<1>2. PICK k0 \in Int : before - e0 = Parts * theta0 + k0 * FullTurn
  BY DEF Measured
<1>3. PICK k1 \in Int : after - e1 = Parts * theta1 + k1 * FullTurn
  BY DEF Measured
<1> HIDE DEF e0, e1
<1> DEFINE j == k1 - k0
           turned == delta + j * AdcModulus
<1>4. /\ j \in Int /\ delta \in Int /\ turned \in Int
      /\ -AdcModulus <= delta /\ delta <= AdcModulus
  <2>1. j \in Int /\ delta \in Int /\ -AdcModulus <= delta /\ delta <= AdcModulus
    BY <1>0, <1>1, SMT
  <2>2. j * AdcModulus \in Int
    BY <1>0, <2>1, ProductIsInt
  <2> QED
    BY <2>1, <2>2
<1>5. Parts * turned = (after - e1) - (before - e0)
  <2>1. (Parts * theta1 + k1 * FullTurn) - (Parts * theta0 + k0 * FullTurn)
          = Parts * ((theta1 - theta0) + (k1 - k0) * AdcModulus)
    BY <1>0, <1>1, SMT DEF FullTurn
  <2> DEFINE x == Parts * theta1 + k1 * FullTurn
             y == Parts * theta0 + k0 * FullTurn
  <2>2. Parts * turned = x - y
    BY <2>1
  <2>3. after - e1 = x /\ before - e0 = y
    BY <1>2, <1>3
  <2> HIDE DEF x, y, turned
  <2> QED
    BY <2>2, <2>3, Zenon
<1>6. /\ -FullTurn < 2 * (Parts * turned)
      /\ 2 * (Parts * turned) < FullTurn
  <2> HIDE DEF turned
  <2> QED
    BY <1>0, <1>1, <1>5, SMT DEF Absolute
<1>7. -AdcModulus < 2 * turned /\ 2 * turned < AdcModulus
  <2> HIDE DEF turned
  <2>1. CASE 2 * turned >= AdcModulus
    <3>1. Parts * (2 * turned) >= Parts * AdcModulus
      BY <1>0, <1>4, <2>1, SMT
    <3>2. Parts * (2 * turned) = 2 * (Parts * turned)
      BY <1>0, <1>4, SMT
    <3> QED
      BY <1>0, <1>4, <1>6, <3>1, <3>2, ProductIsInt, SMT DEF FullTurn
  <2>2. CASE 2 * turned <= -AdcModulus
    <3>1. Parts * (2 * turned) <= Parts * (-AdcModulus)
      BY <1>0, <1>4, <2>2, SMT
    <3>2. /\ Parts * (2 * turned) = 2 * (Parts * turned)
          /\ Parts * (-AdcModulus) = -(Parts * AdcModulus)
      BY <1>0, <1>4, SMT
    <3> QED
      BY <1>0, <1>4, <1>6, <3>1, <3>2, ProductIsInt, SMT DEF FullTurn
  <2> QED
    BY <1>0, <1>4, <2>1, <2>2, SMT
<1>8. ShortestCircularDelta(delta) = turned
  <2>1. j = -1 \/ j = 0 \/ j = 1
    <3>1. CASE j >= 2
      <4>1. j * AdcModulus >= 2 * AdcModulus
        BY <1>0, <1>4, <3>1, SMT
      <4> QED
        BY <1>0, <1>4, <1>7, <4>1, ProductIsInt, SMT
    <3>2. CASE j <= -2
      <4>1. j * AdcModulus <= -(2 * AdcModulus)
        BY <1>0, <1>4, <3>2, SMT
      <4> QED
        BY <1>0, <1>4, <1>7, <4>1, ProductIsInt, SMT
    <3> HIDE DEF j
    <3> QED
      BY <1>4, <3>1, <3>2, SMT
  <2>2. CASE j = 0
    <3>1. turned = delta
      BY <1>0, <1>4, <2>2, SMT
    <3> HIDE DEF turned, delta
    <3> QED
      BY <1>0, <1>4, <1>7, <3>1, SMT DEF ShortestCircularDelta
  <2>3. CASE j = 1
    <3>1. turned = delta + AdcModulus
      BY <1>0, <1>4, <2>3, SMT
    <3> HIDE DEF turned, delta
    <3> QED
      BY <1>0, <1>4, <1>7, <3>1, SMT DEF ShortestCircularDelta
  <2>4. CASE j = -1
    <3>1. turned = delta - AdcModulus
      BY <1>0, <1>4, <2>4, SMT
    <3> HIDE DEF turned, delta
    <3> QED
      BY <1>0, <1>4, <1>7, <3>1, SMT DEF ShortestCircularDelta
  <2> QED
    BY <2>1, <2>2, <2>3, <2>4
<1> QED
  BY <1>4, <1>5, <1>8 DEF e0, e1
(* A difference carries the sum on.                                        *)
LEMMA DifferenceInv ==
  ASSUME AngleInv, NEW theta, pendulum' \in Int, Measured(theta, pendulum'),
         Difference(theta), UNCHANGED pendulum_direction
  PROVE  AngleInv'
<1>0. /\ Parts \in Nat \ {0} /\ pendulum \in Int
      /\ pendulum_direction' \in Directions
      /\ previous_theta # NoAngle /\ previous_theta' = theta
      /\ Measured(previous_theta, pendulum)
  BY FullTurnType DEF AngleInv, Difference
<1>1. Measured(previous_theta, pendulum)'
  BY <1>0 DEF Measured, Error
<1>2. CASE primed_at = NoAngle \/ Lost
  BY <1>0, <1>1, <1>2 DEF Difference, AngleInv
<1>3. CASE primed_at # NoAngle /\ ~Lost
  <2> DEFINE moved_by == ShortestCircularDelta(theta - previous_theta)
             e == Error(previous_theta, pendulum)
  <2>1. primed_at' = primed_at /\ followed' = followed + moved_by
    BY <1>3 DEF Difference
  <2>2. /\ primed_at \in Int /\ followed \in Int
        /\ Parts * (primed_at + followed) = pendulum - e
    BY <1>3 DEF AngleInv
  <2>3. 2 * (Absolute(pendulum' - pendulum) + Parts) < FullTurn
    <3>1. Absolute(pendulum' - pendulum) \in Int /\ FullTurn \in Nat
      <4> DEFINE d == pendulum' - pendulum
      <4>1. d \in Int
        BY <1>0
      <4> HIDE DEF d
      <4>2. Absolute(d) \in Int
        BY <4>1 DEF Absolute
      <4> QED
        BY <4>2, FullTurnType DEF d
    <3>2. ~(2 * (Absolute(pendulum' - pendulum) + Parts) >= FullTurn)
      BY <1>3 DEF Lost, FullTurn
    <3> QED
      BY <1>0, <3>1, <3>2, SMT
  <2>4. /\ moved_by \in Int
        /\ Parts * moved_by = (pendulum' - Error(theta, pendulum')) - (pendulum - e)
    BY <1>0, <2>3, DifferenceIsMovement
  <2>5. Error(previous_theta, pendulum)' = Error(theta, pendulum')
    BY <1>0 DEF Error
  <2>6. e \in Int /\ Error(theta, pendulum') \in Int
    BY <1>0 DEF Measured
  <2> HIDE DEF moved_by, e
  <2>7. Parts * (primed_at + (followed + moved_by)) =
          Parts * (primed_at + followed) + Parts * moved_by
    BY <1>0, <2>2, <2>4, SMT
  <2>8. Parts * (primed_at' + followed') = pendulum' - Error(theta, pendulum')
    BY <1>0, <2>1, <2>2, <2>4, <2>6, <2>7, SMT
  <2>9. primed_at' \in Int /\ followed' \in Int
    BY <2>1, <2>2, <2>4
  <2> QED
    BY <1>0, <1>1, <2>5, <2>8, <2>9 DEF AngleInv
<1> QED
  BY <1>2, <1>3

(* Every movement and every sample keeps it.                               *)
LEMMA AngleNextInv == AngleInv /\ [AngleNext]_angleVars => AngleInv'
<1> SUFFICES ASSUME AngleInv, [AngleNext]_angleVars PROVE AngleInv'
  OBVIOUS
<1>1. ASSUME NEW moved_to \in -PendulumTravel..PendulumTravel, SampleAngle(moved_to)
      PROVE  AngleInv'
  <2> DEFINE theta == Angle(AdcRaw(moved_to))
  <2>1. moved_to \in Int
    BY AngleAssumption
  <2>2. Measured(theta, moved_to)
    BY <2>1, MeasuredAngle DEF AngleInv, Measured
  <2>3. /\ pendulum' = moved_to /\ UNCHANGED pendulum_direction
        /\ Prime(theta) \/ Difference(theta)
    BY <1>1 DEF SampleAngle
  <2> HIDE DEF theta
  <2>4. pendulum' \in Int /\ Measured(theta, pendulum')
    BY <2>1, <2>2, <2>3
  <2> QED
    BY <2>3, <2>4, PrimeInv, DifferenceInv
<1>2. CASE UNCHANGED angleVars
  BY <1>2 DEF angleVars, AngleInv, Measured, Error
<1> QED
  BY <1>1, <1>2 DEF AngleNext

(* For every resolution, every turn of an even number of counts and both   *)
(* mountings, the measured angle is the true one to half a count, and the  *)
(* differences the estimator takes add up to the true movement             *)
(* (SyntheticSensors::observe, PendulumCalibration::angle,                 *)
(* BasicEstimator::step).                                                  *)
THEOREM PendulumIsFollowed == AngleSpec => []PendulumFollows
BY AngleInitInv, AngleNextInv, AngleInvFollows, PTL DEF AngleSpec
(* Both sensors follow their mechanism, in the machine that the run        *)
(* target_parts checks.                                                    *)
THEOREM SensorsAreFollowed == MCSpec => []SensorsFollow
<1> DEFINE I == AccumulatorInv /\ AngleInv
<1>1. MCInit => I
  BY AccumulatorInitInv, AngleInitInv DEF MCInit
<1>2. I /\ [MCNext]_mcVars => I'
  <2>1. MCNext => [AccumulatorNext]_accumulatorVars /\ [AngleNext]_angleVars
    BY DEF MCNext
  <2>2. UNCHANGED mcVars => UNCHANGED accumulatorVars /\ UNCHANGED angleVars
    BY DEF mcVars
  <2> QED
    BY <2>1, <2>2, AccumulatorNextInv, AngleNextInv
<1>3. I => SensorsFollow
  BY AngleInvFollows DEF SensorsFollow, AccumulatorInv
<1> HIDE DEF I
<1> QED
  BY <1>1, <1>2, <1>3, PTL DEF MCSpec
---------------------------------------------------------------------------
(* The shadow loop: telemetry.                                             *)

(* The state of the telemetry as one value, as the calls of a pass see it. *)
TelemetryStates ==
  [sequence : 0..SequenceModulus - 1, pending : {-1} \cup 0..SequenceModulus - 1,
   cursor : Int, lost : 0..SequenceModulus - 1, lost_before : 0..SequenceModulus - 1,
   received : 0..SequenceModulus - 1]

InTransit(t) == IF t.pending = -1 THEN 0 ELSE 1

(* The packet in transit was numbered when it was handed over: the number  *)
(* after the last one received and those lost before it was sent.          *)
Numbered(t) ==
  /\ t.pending # -1 =>
       t.pending = (t.received + 1 + t.lost_before) % SequenceModulus
  /\ t.sequence = (t.received + 1 + t.lost + InTransit(t)) % SequenceModulus

TelemetryInv == Telemetry \in TelemetryStates /\ Numbered(Telemetry)

(* Sequence numbers are counted modulo their width.                        *)
LEMMA SequenceType ==
  /\ SequenceModulus \in Nat \ {0}
  /\ 0 \in 0..SequenceModulus - 1
  /\ \A x \in Int : /\ x % SequenceModulus \in 0..SequenceModulus - 1
                    /\ x % SequenceModulus \in Int
<1>1. SequenceModulus \in Nat \ {0}
  BY LoopAssumption
<1>2. ASSUME NEW x \in Int PROVE x % SequenceModulus \in 0..SequenceModulus - 1
  BY <1>1, DivMod
<1>3. 0 \in 0..SequenceModulus - 1
  BY <1>1
<1> QED
  BY <1>1, <1>2, <1>3

(* What a telemetry value of the right type consists of.                   *)
LEMMA TelemetryParts ==
  ASSUME NEW t \in TelemetryStates
  PROVE  /\ t.sequence \in Int /\ t.lost \in Int /\ t.received \in Int
         /\ t.lost_before \in Int /\ t.pending \in Int /\ t.cursor \in Int
         /\ t.sequence + 1 \in Int /\ t.lost + 1 \in Int
         /\ t.lost - t.lost_before \in Int
<1>1. SequenceModulus \in Nat
  BY SequenceType
<1> QED
  BY <1>1 DEF TelemetryStates

(* A number that is used up and a loss that is counted keep in step.       *)
LEMMA BusyPublishNumbers ==
  ASSUME NEW t \in TelemetryStates, Numbered(t), t.pending # -1
  PROVE  /\ CountLost(UseSequence(t)) \in TelemetryStates
         /\ Numbered(CountLost(UseSequence(t)))
<1> DEFINE u == CountLost(UseSequence(t))
           M == SequenceModulus
<1>1. u = [t EXCEPT !.sequence = (t.sequence + 1) % M, !.lost = (t.lost + 1) % M]
  BY DEF CountLost, UseSequence, TelemetryStates
<1>2. /\ u.sequence = (t.sequence + 1) % M /\ u.lost = (t.lost + 1) % M
      /\ u.pending = t.pending /\ u.received = t.received
      /\ u.lost_before = t.lost_before
  BY <1>1 DEF TelemetryStates
<1>3. u \in TelemetryStates
  <2>1. (t.sequence + 1) % M \in 0..M - 1 /\ (t.lost + 1) % M \in 0..M - 1
    BY TelemetryParts, SequenceType
  <2> QED
    BY <1>1, <2>1 DEF TelemetryStates
<1> HIDE DEF u, M
<1>4. u.sequence = (t.received + t.lost + 3) % M
  <2> DEFINE x == t.received + 1 + t.lost + 1
  <2>1. InTransit(t) = 1
    BY DEF InTransit
  <2>2. t.sequence = x % M
    BY <2>1 DEF Numbered, M
  <2>3. x \in Int /\ x + 1 = t.received + t.lost + 3
    BY TelemetryParts
  <2> HIDE DEF x
  <2>4. ((x % M) + 1) % M = (x + 1) % M
    <3>1. M \in Nat \ {0} /\ 1 \in Int
      BY SequenceType DEF M
    <3> QED
      BY <2>3, <3>1, ModAdd
  <2> QED
    BY <1>2, <2>2, <2>3, <2>4
<1>5. (u.received + 1 + u.lost + InTransit(u)) % M = (t.received + t.lost + 3) % M
  <2> DEFINE x == t.lost + 1
             y == t.received + 2
             r == x % M
  <2>1. x \in Int /\ y \in Int /\ x + y = t.received + t.lost + 3
    BY TelemetryParts
  <2>2. r \in Int /\ (r + y) % M = (x + y) % M
    BY <2>1, SequenceType, ModAdd DEF M
  <2>3. InTransit(u) = 1 /\ u.received = t.received /\ u.lost = r
    BY <1>2 DEF InTransit
  <2> HIDE DEF r, x
  <2>4. u.received + 1 + u.lost + InTransit(u) = r + y
    BY <2>2, <2>3, TelemetryParts
  <2> QED
    BY <2>1, <2>2, <2>4
<1> QED
  BY <1>2, <1>3, <1>4, <1>5 DEF Numbered, u, M
(* A free transport takes the packet under the next number.                *)
LEMMA FreePublishNumbers ==
  ASSUME NEW t \in TelemetryStates, Numbered(t), t.pending = -1
  PROVE  /\ Sent(UseSequence(t), t.sequence) \in TelemetryStates
         /\ Numbered(Sent(UseSequence(t), t.sequence))
<1> DEFINE u == Sent(UseSequence(t), t.sequence)
           M == SequenceModulus
           x == t.received + 1 + t.lost
<1>1. u = [t EXCEPT !.sequence = (t.sequence + 1) % M, !.pending = t.sequence,
                    !.cursor = 0, !.lost_before = t.lost]
  BY DEF Sent, UseSequence, TelemetryStates
<1>2. /\ u.sequence = (t.sequence + 1) % M /\ u.pending = t.sequence
      /\ u.lost = t.lost /\ u.received = t.received /\ u.lost_before = t.lost
  BY <1>1 DEF TelemetryStates
<1>3. u \in TelemetryStates
  <2>1. (t.sequence + 1) % M \in 0..M - 1
    BY TelemetryParts, SequenceType
  <2>2. /\ t.sequence \in {-1} \cup 0..M - 1 /\ t.lost \in 0..M - 1 /\ 0 \in Int
    BY DEF TelemetryStates
  <2> HIDE DEF M
  <2> QED
    BY <1>1, <2>1, <2>2 DEF TelemetryStates, M
<1>4. M \in Nat \ {0} /\ x \in Int /\ 1 \in Int /\ x + 0 = x
  BY TelemetryParts, SequenceType
<1> HIDE DEF u, M
<1>5. t.sequence = x % M
  <2>1. InTransit(t) = 0
    BY DEF InTransit
  <2>2. t.sequence = (x + 0) % M
    BY <2>1 DEF Numbered, M
  <2> QED
    BY <1>4, <2>2
<1>6. u.sequence = (x + 1) % M
  <2> HIDE DEF x
  <2> QED
    BY <1>2, <1>4, <1>5, ModAdd
<1>7. InTransit(u) = 1
  <2>1. t.sequence # -1
    BY SequenceType DEF TelemetryStates
  <2> QED
    BY <1>2, <2>1 DEF InTransit
<1>8. /\ u.received + 1 + u.lost_before = x
      /\ u.received + 1 + u.lost + InTransit(u) = x + 1
  BY <1>2, <1>7
<1> HIDE DEF x
<1> QED
  BY <1>2, <1>3, <1>5, <1>6, <1>8 DEF Numbered, u, M

(* A transport that gives a packet up counts it as lost.                   *)
LEMMA FailureNumbers ==
  ASSUME NEW t \in TelemetryStates, Numbered(t), t.pending # -1
  PROVE  /\ CountLost(Freed(t)) \in TelemetryStates
         /\ Numbered(CountLost(Freed(t)))
<1> DEFINE u == CountLost(Freed(t))
           M == SequenceModulus
           x == t.lost + 1
           y == t.received + 1
<1>1. u = [t EXCEPT !.pending = -1, !.cursor = 0, !.lost_before = 0,
                    !.lost = (t.lost + 1) % M]
  BY DEF CountLost, Freed, TelemetryStates
<1>2. /\ u.sequence = t.sequence /\ u.pending = -1
      /\ u.lost = x % M /\ u.received = t.received
  BY <1>1 DEF TelemetryStates
<1>3. u \in TelemetryStates
  <2>1. (t.lost + 1) % M \in 0..M - 1
    BY TelemetryParts, SequenceType
  <2>2. -1 \in {-1} \cup 0..M - 1 /\ 0 \in 0..M - 1 /\ 0 \in Int
    BY SequenceType
  <2> QED
    BY <1>1, <2>1, <2>2 DEF TelemetryStates
<1>4. /\ M \in Nat \ {0} /\ x \in Int /\ y \in Int /\ x % M \in Int
      /\ t.received + 1 + t.lost + 1 = x + y
  BY TelemetryParts, SequenceType
<1> HIDE DEF u, M
<1>5. t.sequence = (x + y) % M
  <2>1. InTransit(t) = 1
    BY DEF InTransit
  <2> QED
    BY <1>4, <2>1 DEF Numbered, M
<1>6. ((x % M) + y) % M = (x + y) % M
  <2> HIDE DEF x, y
  <2> QED
    BY <1>4, ModAdd
<1>7. u.received + 1 + u.lost + InTransit(u) = (x % M) + y
  <2> DEFINE r == x % M
  <2>1. r \in Int /\ u.lost = r /\ u.received = t.received /\ InTransit(u) = 0
    BY <1>2, <1>4 DEF InTransit
  <2> HIDE DEF r
  <2>2. u.received + 1 + u.lost + InTransit(u) = r + y
    BY <2>1, TelemetryParts
  <2> QED
    BY <2>2 DEF r
<1> QED
  BY <1>2, <1>3, <1>5, <1>6, <1>7 DEF Numbered, u, M

(* Bytes move a packet on, and the last of them deliver it.                *)
LEMMA TakenNumbers ==
  ASSUME NEW t \in TelemetryStates, Numbered(t), t.pending # -1, NEW bytes \in Nat
  PROVE  Taken(t, bytes) \in TelemetryStates /\ Numbered(Taken(t, bytes))
<1> DEFINE M == SequenceModulus
<1>1. CASE t.cursor + bytes < PacketBytes
  <2> DEFINE u == [t EXCEPT !.cursor = t.cursor + bytes]
  <2>1. Taken(t, bytes) = u
    BY <1>1 DEF Taken, TelemetryStates
  <2>2. /\ u.sequence = t.sequence /\ u.pending = t.pending /\ u.lost = t.lost
        /\ u.received = t.received /\ u.lost_before = t.lost_before
        /\ u \in TelemetryStates
    BY TelemetryParts DEF TelemetryStates
  <2> HIDE DEF u
  <2>3. InTransit(u) = InTransit(t)
    BY <2>2 DEF InTransit
  <2> QED
    BY <2>1, <2>2, <2>3 DEF Numbered
<1>2. CASE ~(t.cursor + bytes < PacketBytes)
  <2> DEFINE x == t.lost - t.lost_before
             y == t.received + 1 + t.lost_before
             u == [t EXCEPT !.pending = -1, !.cursor = 0, !.lost_before = 0,
                            !.received = t.pending, !.lost = x % M]
  <2>1. Taken(t, bytes) = u
    BY <1>2 DEF Taken, Freed, TelemetryStates
  <2>2. /\ M \in Nat \ {0} /\ x \in Int /\ y \in Int
        /\ x % M \in Int /\ x % M \in 0..M - 1 /\ y % M \in Int
        /\ t.received + 1 + t.lost + 1 = x + (y + 1)
    BY TelemetryParts, SequenceType
  <2>3. /\ u.sequence = t.sequence /\ u.pending = -1
        /\ u.received = t.pending /\ u.lost = x % M
    BY DEF TelemetryStates
  <2>4. u \in TelemetryStates
    <3>1. t.pending \in 0..M - 1
      BY DEF TelemetryStates
    <3>2. -1 \in {-1} \cup 0..M - 1 /\ 0 \in 0..M - 1 /\ 0 \in Int
      BY SequenceType
    <3>3. x % M \in 0..M - 1
      BY <2>2
    <3> HIDE DEF x
    <3> QED
      BY <3>1, <3>2, <3>3 DEF TelemetryStates
  <2>5. t.pending = y % M /\ t.sequence = (x + (y + 1)) % M
    <3>1. InTransit(t) = 1
      BY DEF InTransit
    <3> QED
      BY <2>2, <3>1 DEF Numbered
  <2> HIDE DEF u, x, y, M
  <2> DEFINE r == x % M
             p == y % M
  <2>6. r \in Int /\ p \in Int /\ u.lost = r /\ u.received = p /\ InTransit(u) = 0
    BY <2>2, <2>3, <2>5 DEF InTransit
  <2>7. (p + (1 + r)) % M = (y + (1 + r)) % M
    <3>1. 1 + r \in Int
      BY <2>2
    <3> HIDE DEF r
    <3> QED
      BY <2>2, <3>1, ModAdd
  <2>8. (r + (y + 1)) % M = (x + (y + 1)) % M
    <3>1. y + 1 \in Int
      BY <2>2
    <3> QED
      BY <2>2, <3>1, ModAdd
  <2>9. /\ u.received + 1 + u.lost + InTransit(u) = p + (1 + r)
        /\ y + (1 + r) = r + (y + 1)
    <3> HIDE DEF r, p
    <3> QED
      BY <2>2, <2>6
  <2> HIDE DEF r, p
  <2> QED
    BY <2>1, <2>3, <2>4, <2>5, <2>7, <2>8, <2>9 DEF Numbered, M
<1> QED
  BY <1>1, <1>2
(* A pass offers a packet or not, and serves the transport.                *)
LEMMA PublishNumbers ==
  ASSUME NEW t \in TelemetryStates, Numbered(t)
  PROVE  PublishLatest(t) \in TelemetryStates /\ Numbered(PublishLatest(t))
<1>1. CASE t.pending # -1
  BY <1>1, BusyPublishNumbers DEF PublishLatest
<1>2. CASE t.pending = -1
  BY <1>2, FreePublishNumbers DEF PublishLatest
<1> QED
  BY <1>1, <1>2

(* Serving the transport keeps the numbers, whatever it accepts.           *)
LEMMA ServedNumbers ==
  ASSUME NEW t \in TelemetryStates, Numbered(t),
         NEW accepted, accepted \subseteq Nat, NEW u \in Served(t, accepted)
  PROVE  u \in TelemetryStates /\ Numbered(u)
<1>1. CASE t.pending = -1
  BY <1>1 DEF Served
<1>2. CASE t.pending # -1
  <2>1. (\E bytes \in accepted : u = Taken(t, bytes)) \/ u = CountLost(Freed(t))
    BY <1>2 DEF Served
  <2>2. ASSUME NEW bytes \in accepted, u = Taken(t, bytes)
        PROVE  u \in TelemetryStates /\ Numbered(u)
    BY <1>2, <2>2, TakenNumbers
  <2>3. CASE u = CountLost(Freed(t))
    BY <1>2, <2>3, FailureNumbers
  <2> QED
    BY <2>1, <2>2, <2>3
<1> QED
  BY <1>1, <1>2

(* So a pass of the loop keeps them: it offers a packet and serves it.     *)
LEMMA TelemetryPassInv ==
  ASSUME TelemetryInv, NEW accepted, accepted \subseteq Nat, TelemetryPass(accepted)
  PROVE  TelemetryInv'
<1>1. PICK offered \in Offered : \E served \in Served(offered, accepted) :
        /\ next_sequence' = served.sequence
        /\ pending' = served.pending
        /\ cursor' = served.cursor
        /\ received' = served.received
        /\ lost' = served.lost
        /\ lost_before' = served.lost_before
  BY DEF TelemetryPass
<1>2. PICK served \in Served(offered, accepted) :
        /\ next_sequence' = served.sequence
        /\ pending' = served.pending
        /\ cursor' = served.cursor
        /\ received' = served.received
        /\ lost' = served.lost
        /\ lost_before' = served.lost_before
  BY <1>1
<1>3. offered \in TelemetryStates /\ Numbered(offered)
  <2>1. offered = Telemetry \/ offered = PublishLatest(Telemetry)
    BY DEF Offered
  <2> QED
    BY <2>1, PublishNumbers DEF TelemetryInv
<1>4. served \in TelemetryStates /\ Numbered(served)
  BY <1>3, ServedNumbers
<1>5. Telemetry' = served
  BY <1>2, <1>4 DEF Telemetry, TelemetryStates
<1> QED
  BY <1>4, <1>5 DEF TelemetryInv, Numbered, InTransit

(* The publisher starts idle, with no number used.                         *)
LEMMA TelemetryInitInv == LoopInit => TelemetryInv
<1> SUFFICES ASSUME LoopInit PROVE TelemetryInv
  OBVIOUS
<1> DEFINE M == SequenceModulus
<1>1. M \in Nat \ {0} /\ 0 \in 0..M - 1 /\ M - 1 \in 0..M - 1
  BY SequenceType
<1>2. /\ Telemetry = [sequence |-> 0, pending |-> -1, cursor |-> 0, lost |-> 0,
                      lost_before |-> 0, received |-> M - 1]
  BY DEF LoopInit, Telemetry
<1>3. Telemetry \in TelemetryStates
  <2>1. -1 \in {-1} \cup 0..M - 1 /\ 0 \in Int
    OBVIOUS
  <2> QED
    BY <1>1, <1>2, <2>1 DEF TelemetryStates
<1>4. Numbered(Telemetry)
  <2>1. (1 * M + 0) % M = 0
    BY <1>1, ModUnique
  <2>2. 1 * M + 0 = (M - 1) + 1 + 0 + 0
    BY <1>1
  <2>3. 0 = ((M - 1) + 1 + 0 + 0) % M
    BY <2>1, <2>2
  <2> QED
    BY <1>2, <2>3 DEF Numbered, InTransit
<1> QED
  BY <1>3, <1>4 DEF TelemetryInv

(* The numbering is what GapsAreDrops states.                              *)
LEMMA TelemetryInvFollows == TelemetryInv => GapsAreDrops
BY DEF TelemetryInv, Numbered, InTransit, Telemetry, GapsAreDrops

(* Every step of the loop keeps it.                                        *)
LEMMA TelemetryNextInv == TelemetryInv /\ [LoopNext]_loopVars => TelemetryInv'
<1> SUFFICES ASSUME TelemetryInv, [LoopNext]_loopVars PROVE TelemetryInv'
  OBVIOUS
<1>1. CASE LoopNext
  <2>1. 0..ServiceBytes \subseteq Nat /\ TelemetryPass(0..ServiceBytes)
    BY <1>1, LoopAssumption DEF LoopNext, PassAccepting, Pass
  <2> QED
    BY <2>1, TelemetryPassInv
<1>2. CASE UNCHANGED loopVars
  <2>1. Telemetry' = Telemetry
    BY <1>2 DEF loopVars, telemetryVars, Telemetry
  <2> QED
    BY <2>1 DEF TelemetryInv, Numbered, InTransit
<1> QED
  BY <1>1, <1>2

(* Through every drop, failure and wrap the sequence numbers alone tell    *)
(* the host how many packets it missed: publish_latest and the transport's *)
(* service keep the count between them.                                    *)
THEOREM GapsCountDrops == LoopSpec => []GapsAreDrops
<1>1. LoopInit => TelemetryInv
  BY TelemetryInitInv
<1>2. TelemetryInv /\ [LoopNext]_loopVars => TelemetryInv'
  BY TelemetryNextInv
<1>3. TelemetryInv => GapsAreDrops
  BY TelemetryInvFollows
<1> QED
  BY <1>1, <1>2, <1>3, PTL DEF LoopSpec
---------------------------------------------------------------------------
(* The display.  The rows and what a row may show; "Stale" is not in it.   *)
ShownRegimes == {"Cleared", "Current", "Kept"}
Shown == {"Blank", "Noise", "Own", "Fixed"} \cup ShownRegimes \cup StatusPages \cup Cycles

(* What is known of the flush: the open row is dirty, and every slice that *)
(* is not still to be sent shows what the row holds.                       *)
FlushInv ==
  /\ dirty \subseteq OledRows
  /\ flush_active \in BOOLEAN
  /\ flush_column \in Chunks
  /\ flush_active => flush_page \in dirty

PanelInv ==
  /\ buffer \in [OledRows -> Shown]
  /\ panel \in [OledRows -> [Chunks -> Shown]]
  /\ \A r \in OledRows, c \in Chunks : panel[r][c] = buffer[r] \/ Unsent(r, c)

OledInv == FlushInv /\ PanelInv

(* A frame that pairs no old regime with a new command, and that the last  *)
(* frame drawn is one.                                                     *)
Honest(drawn) == ~\E r, s \in OledRows : drawn[r] = "Kept" /\ drawn[s] = "Own"
HonestInv == record.regime \in ShownRegimes /\ Honest(buffer)

(* The least of some naturals is one of them.                              *)
LEMMA LeastIsMember ==
  ASSUME NEW T, T \subseteq Nat, T # {}
  PROVE  Min(T) \in T
<1> DEFINE R == OpToRel(<, Nat)
<1>1. IsWellFoundedOn(R, Nat)
  BY NatLessThanWellFounded, Zenon
<1>2. \A x, y \in Nat : <<y, x>> \in R <=> y < x
  BY DEF R, OpToRel
<1> HIDE DEF R
<1>3. PICK x \in T : \A y \in T : ~(<<y, x>> \in R)
  BY <1>1, WFMin, Zenon
<1>4. \A y \in T : x =< y
  <2> SUFFICES ASSUME NEW y \in T PROVE x =< y
    OBVIOUS
  <2>1. x \in Nat /\ y \in Nat /\ ~(y < x)
    BY <1>2, <1>3
  <2> QED
    BY <2>1
<1> QED
  BY <1>4 DEF Min

(* Sending one slice of a dirty row keeps what is known of the display:    *)
(* shown is the frame, and the open row is the one being sent.             *)
LEMMA SendSliceInv ==
  ASSUME NEW shown \in [OledRows -> Shown], NEW unsent \in SUBSET OledRows,
         NEW row \in unsent, NEW column \in Chunks,
         panel \in [OledRows -> [Chunks -> Shown]],
         \A r \in OledRows, c \in Chunks :
           \/ panel[r][c] = shown[r]
           \/ r \in unsent /\ ~(r = row /\ c < column),
         buffer' = shown, SendSlice(shown, unsent, row, column)
  PROVE  OledInv'
<1>1. /\ flush_page' = row
      /\ panel' = [panel EXCEPT ![row][column] = shown[row]]
      /\ flush_active' = (column < RowChunks)
      /\ flush_column' = IF column < RowChunks THEN column + 1 ELSE 1
      /\ dirty' = IF column < RowChunks THEN unsent ELSE unsent \ {row}
  BY DEF SendSlice
<1>2. RowChunks \in Nat \ {0} /\ column \in 1..RowChunks /\ row \in OledRows
  BY LoopAssumption DEF Chunks
<1>3. FlushInv'
  <2>1. flush_column' \in 1..RowChunks
    BY <1>1, <1>2
  <2>2. flush_active' \in BOOLEAN
    <3>1. CASE column < RowChunks
      BY <1>1, <3>1
    <3>2. CASE ~(column < RowChunks)
      BY <1>1, <3>2
    <3> QED
      BY <3>1, <3>2
  <2> QED
    BY <1>1, <2>1, <2>2 DEF FlushInv, Chunks
<1>4. panel' \in [OledRows -> [Chunks -> Shown]]
  BY <1>1, <1>2
<1>5. ASSUME NEW r \in OledRows, NEW c \in Chunks
      PROVE  panel'[r][c] = shown[r] \/ Unsent(r, c)'
  <2>1. CASE r = row /\ c = column
    BY <1>1, <2>1
  <2>2. CASE ~(r = row /\ c = column)
    <3>1. panel'[r][c] = panel[r][c]
      BY <1>1, <1>2, <2>2
    <3>2. CASE r \in unsent /\ ~(r = row /\ c < column)
      <4>1. CASE r # row
        BY <1>1, <3>2, <4>1 DEF Unsent
      <4>2. CASE r = row
        <5>1. c > column /\ c \in 1..RowChunks
          BY <2>2, <3>2, <4>2, <1>2 DEF Chunks
        <5>2. column < RowChunks
          BY <5>1, <1>2
        <5> QED
          BY <1>1, <1>2, <3>2, <4>2, <5>1, <5>2 DEF Unsent
      <4> QED
        BY <4>1, <4>2
    <3> QED
      BY <3>1, <3>2
  <2> QED
    BY <2>1, <2>2
<1> QED
  BY <1>3, <1>4, <1>5 DEF OledInv, PanelInv

(* Writing a frame and serving the display: the rows that differ become    *)
(* dirty before anything is sent, and a new frame finds the display idle.  *)
LEMMA WriteFrameInv ==
  ASSUME OledInv, NEW drawn \in [OledRows -> Shown], drawn = buffer \/ OledIdle,
         WriteFrame(drawn)
  PROVE  OledInv'
<1> DEFINE unsent == dirty \cup Differing(drawn)
<1>1. buffer' = drawn /\ ServiceOled(drawn, unsent)
  BY DEF WriteFrame
<1>2. /\ dirty \subseteq OledRows /\ unsent \in SUBSET OledRows
      /\ panel \in [OledRows -> [Chunks -> Shown]]
      /\ flush_column \in Chunks /\ flush_active \in BOOLEAN
  BY DEF OledInv, FlushInv, PanelInv, Differing
<1>3. ASSUME NEW r \in OledRows, NEW c \in Chunks
      PROVE  \/ panel[r][c] = drawn[r]
             \/ r \in unsent /\ ~(flush_active /\ r = flush_page /\ c < flush_column)
  <2>1. panel[r][c] = buffer[r] \/ Unsent(r, c)
    BY DEF OledInv, PanelInv
  <2>2. CASE drawn = buffer
    BY <2>1, <2>2 DEF Unsent
  <2>3. CASE OledIdle
    <3>1. ~flush_active /\ panel[r][c] = buffer[r]
      BY <2>1, <2>3 DEF OledIdle, Unsent
    <3>2. CASE drawn[r] = buffer[r]
      BY <3>1, <3>2
    <3>3. CASE drawn[r] # buffer[r]
      BY <3>1, <3>3 DEF Differing
    <3> QED
      BY <3>2, <3>3
  <2> QED
    BY <2>2, <2>3
<1>4. CASE flush_active /\ SendSlice(drawn, unsent, flush_page, flush_column)
  <2>1. flush_page \in unsent
    BY <1>4 DEF OledInv, FlushInv
  <2> HIDE DEF unsent
  <2> QED
    BY <1>1, <1>2, <1>3, <1>4, <2>1, SendSliceInv
<1>5. CASE ~flush_active /\ unsent # {} /\ SendSlice(drawn, unsent, Min(unsent), 1)
  <2>1. Min(unsent) \in unsent
    <3>1. unsent \subseteq Nat
      BY <1>2 DEF OledRows
    <3> HIDE DEF unsent
    <3> QED
      BY <1>5, <3>1, LeastIsMember
  <2>2. 1 \in Chunks /\ \A c \in Chunks : ~(c < 1)
    BY LoopAssumption DEF Chunks
  <2>3. \A r \in OledRows, c \in Chunks :
          panel[r][c] = drawn[r] \/ (r \in unsent /\ ~(r = Min(unsent) /\ c < 1))
    BY <1>3, <2>2
  <2> HIDE DEF unsent
  <2> QED
    BY <1>1, <1>2, <1>5, <2>1, <2>2, <2>3, SendSliceInv
<1>6. CASE /\ ~flush_active /\ unsent = {}
           /\ UNCHANGED <<dirty, flush_page, flush_column, flush_active, panel>>
  <2>1. \A r \in OledRows, c \in Chunks : panel'[r][c] = buffer'[r]
    BY <1>1, <1>3, <1>6
  <2>2. FlushInv'
    BY <1>6 DEF OledInv, FlushInv
  <2>3. panel' \in [OledRows -> [Chunks -> Shown]] /\ buffer' \in [OledRows -> Shown]
    BY <1>1, <1>2, <1>6
  <2> QED
    BY <2>1, <2>2, <2>3 DEF OledInv, PanelInv
<1> QED
  BY <1>1, <1>4, <1>5, <1>6 DEF ServiceOled

(* publish_raw and what follows it leave no state and no command stale,    *)
(* and a regime stale only in a record whose command is cleared.           *)
LEMMA OutcomeIsFresh ==
  ASSUME NEW outcome \in Cycles, record.regime \in ShownRegimes,
         record' = PublishOutcome(PublishRaw(record), outcome)
  PROVE  /\ record'.cycle \in Cycles
         /\ record'.state \in {"Own", "Cleared"}
         /\ record'.computed \in {"Own", "Cleared"}
         /\ record'.regime \in ShownRegimes
         /\ record'.regime = "Kept" => record'.computed = "Cleared"
<1>1. PublishRaw(record).regime \in ShownRegimes
  BY DEF PublishRaw, Older, ShownRegimes
<1> DEFINE read == PublishRaw(record)
<1> HIDE DEF read
<1>2. record' = PublishOutcome(read, outcome) /\ read.regime \in ShownRegimes
  BY <1>1 DEF read
<1>3. CASE outcome = "Error"
  BY <1>2, <1>3 DEF PublishOutcome, PublishRegime
<1>4. CASE outcome # "Error"
  BY <1>2, <1>4 DEF PublishOutcome, PublishRegime, ShownRegimes
<1> QED
  BY <1>3, <1>4

(* A frame of such a record shows no old state and no old command, and no  *)
(* old regime beside a new command.                                        *)
LEMMA FrameIsHonest ==
  ASSUME NEW r, NEW shown \in StatusPages,
         r.cycle \in Cycles, r.state \in {"Own", "Cleared"},
         r.computed \in {"Own", "Cleared"}, r.regime \in ShownRegimes,
         r.regime = "Kept" => r.computed = "Cleared"
  PROVE  DrawnFrame(r, shown) \in [OledRows -> Shown] /\ Honest(DrawnFrame(r, shown))
<1> DEFINE held == {r.cycle, r.state, r.computed, r.regime}
           drawn == DrawnFrame(r, shown)
<1>1. \A i \in DOMAIN Body(r, shown) :
        /\ Body(r, shown)[i] \in held
        /\ shown = "Sensor" => Body(r, shown)[i] = r.state
        /\ shown # "Sensor" => Body(r, shown)[i] # "Own" \/ r.computed = "Own"
  BY DEF Body, StatusPages, Cycles, ShownRegimes
<1>2. \A row \in OledRows :
        \/ drawn[row] \in {shown, "Fixed"}
        \/ /\ drawn[row] \in held
           /\ shown = "Sensor" => drawn[row] = r.state
           /\ shown # "Sensor" => drawn[row] # "Own" \/ r.computed = "Own"
  BY <1>1 DEF DrawnFrame
<1>3. drawn = [row \in OledRows |-> drawn[row]]
  BY DEF DrawnFrame
<1> HIDE DEF drawn
<1>4. drawn \in [OledRows -> Shown]
  <2>1. \A row \in OledRows : drawn[row] \in Shown
    BY <1>2 DEF Shown, ShownRegimes
  <2> QED
    BY <1>3, <2>1
<1>5. ASSUME NEW x \in OledRows, NEW y \in OledRows, drawn[x] = "Kept", drawn[y] = "Own"
      PROVE  FALSE
  BY <1>2, <1>5 DEF StatusPages, Cycles
<1> QED
  BY <1>4, <1>5 DEF Honest, drawn

(* A frame that changes finds the whole of the last one on the panel.      *)
LEMMA RedrawStartsIdle ==
  ASSUME OledInv, [LoopNext]_loopVars
  PROVE  buffer' # buffer => ShownInFull
<1> SUFFICES ASSUME buffer' # buffer PROVE ShownInFull
  OBVIOUS
<1>1. LoopNext
  BY DEF loopVars, oledVars
<1>2. Redraw
  BY <1>1 DEF LoopNext, PassAccepting, Pass, KeepFrame, WriteFrame
<1>3. OledIdle
  BY <1>2 DEF Redraw, RedrawDue
<1> QED
  BY <1>3 DEF OledInv, PanelInv, ShownInFull, OledIdle, Unsent

(* The buffer starts blank and dirty in every row, before a panel that     *)
(* holds anything.                                                         *)
LEMMA OledInitInv == LoopInit => OledInv
<1> SUFFICES ASSUME LoopInit PROVE OledInv
  OBVIOUS
<1>1. OledInit /\ 1 \in Chunks
  BY LoopAssumption DEF LoopInit, Chunks
<1>2. "Blank" \in Shown /\ "Noise" \in Shown
  BY DEF Shown
<1>3. FlushInv
  BY <1>1 DEF OledInit, FlushInv
<1>4. PanelInv
  BY <1>1, <1>2 DEF OledInit, PanelInv, Unsent
<1> QED
  BY <1>3, <1>4 DEF OledInv

(* What the loop keeps of the display and of the record it draws.          *)
DisplayInv == OledInv /\ HonestInv

(* The first record holds no regime of the controller's yet.               *)
LEMMA DisplayInitInv == LoopInit => DisplayInv
<1> SUFFICES ASSUME LoopInit PROVE HonestInv
  BY OledInitInv DEF DisplayInv
<1> QED
  BY DEF LoopInit, OledInit, HonestInv, Honest, ShownRegimes

(* Redrawing and sending slices keep the panel and its dirty rows in step. *)
LEMMA DisplayNextInv == DisplayInv /\ [LoopNext]_loopVars => DisplayInv'
<1> SUFFICES ASSUME OledInv, HonestInv, [LoopNext]_loopVars PROVE DisplayInv'
  BY DEF DisplayInv
<1>1. CASE LoopNext
  <2>1. PICK outcome \in Cycles :
          /\ record' = PublishOutcome(PublishRaw(record), outcome)
          /\ Redraw \/ KeepFrame
    BY <1>1 DEF LoopNext, PassAccepting, Pass
  <2>2. /\ record'.cycle \in Cycles
        /\ record'.state \in {"Own", "Cleared"}
        /\ record'.computed \in {"Own", "Cleared"}
        /\ record'.regime \in ShownRegimes
        /\ record'.regime = "Kept" => record'.computed = "Cleared"
    BY <2>1, OutcomeIsFresh DEF HonestInv
  <2>3. CASE Redraw
    <3>1. PICK shown \in StatusPages : WriteFrame(DrawnFrame(record', shown))
      BY <2>3 DEF Redraw
    <3> DEFINE drawn == DrawnFrame(record', shown)
    <3>2. drawn \in [OledRows -> Shown] /\ Honest(drawn)
      BY <2>2, FrameIsHonest
    <3>3. OledIdle
      BY <2>3 DEF Redraw, RedrawDue
    <3>4. WriteFrame(drawn) /\ buffer' = drawn
      BY <3>1 DEF WriteFrame
    <3> HIDE DEF drawn
    <3>5. OledInv'
      BY <3>2, <3>3, <3>4, WriteFrameInv
    <3>6. HonestInv'
      BY <2>2, <3>2, <3>4 DEF HonestInv, Honest
    <3> QED
      BY <3>5, <3>6 DEF DisplayInv
  <2>4. CASE KeepFrame
    <3>1. WriteFrame(buffer) /\ buffer' = buffer /\ buffer \in [OledRows -> Shown]
      BY <2>4 DEF KeepFrame, WriteFrame, OledInv, PanelInv
    <3>2. OledInv'
      BY <3>1, WriteFrameInv
    <3>3. HonestInv'
      BY <2>2, <3>1 DEF HonestInv, Honest
    <3> QED
      BY <3>2, <3>3 DEF DisplayInv
  <2> QED
    BY <2>1, <2>3, <2>4
<1>2. CASE UNCHANGED loopVars
  BY <1>2 DEF loopVars, oledVars, OledInv, FlushInv, PanelInv, Unsent, DisplayInv,
    HonestInv, Honest
<1> QED
  BY <1>1, <1>2

(* No old state or command reaches the display, and no old regime beside a *)
(* new command: publish_raw leaves them old, but no frame is drawn before  *)
(* publish_cycle or publish_cycle_error has replaced or cleared the first  *)
(* two, and only an error, which clears the command, leaves the regime.    *)
THEOREM NothingStale == LoopSpec => []NothingStaleIsShown
<1>1. DisplayInv => NothingStaleIsShown
  <2> SUFFICES ASSUME OledInv, HonestInv PROVE NothingStaleIsShown
    BY DEF DisplayInv
  <2>1. "Stale" \notin Shown
    BY DEF Shown, StatusPages, Cycles, ShownRegimes
  <2>2. \A r \in OledRows, c \in Chunks : panel[r][c] # "Stale"
    BY <2>1 DEF OledInv, PanelInv
  <2>3. OledIdle => \A r \in OledRows, c \in Chunks : panel[r][c] = buffer[r]
    BY DEF OledInv, PanelInv, OledIdle, Unsent
  <2> QED
    BY <2>2, <2>3 DEF NothingStaleIsShown, HonestInv, Honest
<1>2. LoopInit => DisplayInv
  BY DisplayInitInv
<1>3. DisplayInv /\ [LoopNext]_loopVars => DisplayInv'
  BY DisplayNextInv
<1> QED
  BY <1>1, <1>2, <1>3, PTL DEF LoopSpec

(* What differs from the last frame is only what service has yet to send,  *)
(* and write_frame is not called again before all of it is shown.          *)
THEOREM FramesAreShownWhole == LoopSpec => ShowsWholeFrame
<1> DEFINE P == \A r \in OledRows, c \in Chunks : panel[r][c] = buffer[r] \/ Unsent(r, c)
           Q == buffer' # buffer => ShownInFull
<1>1. DisplayInv => P
  BY DEF DisplayInv, OledInv, PanelInv
<1>2. DisplayInv /\ [LoopNext]_loopVars => Q
  BY RedrawStartsIdle DEF DisplayInv
<1>3. LoopInit => DisplayInv
  BY DisplayInitInv
<1>4. DisplayInv /\ [LoopNext]_loopVars => DisplayInv'
  BY DisplayNextInv
<1>5. ShowsWholeFrame <=> []P /\ [][Q]_loopVars
  BY DEF ShowsWholeFrame
<1> HIDE DEF P, Q
<1> QED
  BY <1>1, <1>2, <1>3, <1>4, <1>5, PTL DEF LoopSpec
---------------------------------------------------------------------------
(* The TB6612 output, for every set of commands, every duty resolution and *)
(* both wirings.                                                           *)

(* The mapper only produces frames the backend accepts.                    *)
LEMMA MapperType ==
  ASSUME NEW command \in BoundedCommands
  PROVE  MapCommand(command) \in Frames
BY MapperAssumption DEF MapCommand, BoundedCommands, Frames, Frame,
  SafeOffFrame, BridgeModes

(* Safe-off is a frame.                                                    *)
LEMMA SafeOffType == SafeOffFrame \in Frames
BY MapperAssumption DEF Frames, Frame, SafeOffFrame, BridgeModes

(* What a frame programs has the type of the pins.                         *)
LEMMA LevelType ==
  ASSUME NEW f \in Frames
  PROVE  /\ DutyLevel(f) \in 0..FullDuty
         /\ In1Level(f) \in BOOLEAN
         /\ In2Level(f) \in BOOLEAN
BY MapperAssumption DEF DutyLevel, In1Level, In2Level, Frames

(* Initially nothing is powered and no call has been made.                 *)
LEMMA InitInvariant == Init => IInv
BY MapperAssumption, SafeOffType
DEF Init, IInv, TypeOK, DrivesWhatWasAsked, OkMeansApplied, Writes, Results

(* A call only records its frame: the pins, and what they were driven to,  *)
(* stay.                                                                   *)
LEMMA CallStep ==
  ASSUME IInv, NEW f \in Frames, ApplyFrame(f)
  PROVE  IInv'
BY DEF IInv, TypeOK, ApplyFrame, pins, Writes, Results, DrivesWhatWasAsked,
  OkMeansApplied, Programmed

(* Each write establishes its own pin, with the bridge unpowered until the *)
(* last one; a failed write returns with the duty still at zero.           *)
LEMMA WriteStep ==
  ASSUME IInv, WriteZero \/ WriteIn1 \/ WriteIn2 \/ WriteDuty
  PROVE  IInv'
<1>0. frame \in Frames
  BY DEF IInv, TypeOK
<1>1. /\ DutyLevel(frame) \in 0..FullDuty
      /\ In1Level(frame) \in BOOLEAN
      /\ In2Level(frame) \in BOOLEAN
  BY <1>0, LevelType
<1>2. 0 \in 0..FullDuty
  BY MapperAssumption
<1>3. CASE WriteZero
  BY <1>2, <1>3
  DEF IInv, TypeOK, WriteZero, Continue, Return, Writes, Results,
    DrivesWhatWasAsked, OkMeansApplied, Programmed
<1>4. CASE WriteIn1
  BY <1>1, <1>4
  DEF IInv, TypeOK, WriteIn1, Continue, Return, Writes, Results,
    DrivesWhatWasAsked, OkMeansApplied, Programmed
<1>5. CASE WriteIn2
  BY <1>1, <1>5
  DEF IInv, TypeOK, WriteIn2, Continue, Return, Writes, Results,
    DrivesWhatWasAsked, OkMeansApplied, Programmed
<1>6. CASE WriteDuty
  BY <1>0, <1>1, <1>6
  DEF IInv, TypeOK, WriteDuty, Return, Writes, Results,
    DrivesWhatWasAsked, OkMeansApplied, Programmed
<1> QED
  BY <1>3, <1>4, <1>5, <1>6

(* Every write, whether it fails or not, keeps it.                         *)
LEMMA NextInvariant == IInv /\ [Next]_vars => IInv'
<1> SUFFICES ASSUME IInv, [Next]_vars PROVE IInv'
  OBVIOUS
<1>1. ASSUME NEW command \in Commands, Apply(command) PROVE IInv'
  <2>1. MapCommand(command) \in Frames
    BY MapperType, CommandAssumption
  <2> QED
    BY <1>1, <2>1, CallStep DEF Apply
<1>2. CASE SafeOff
  BY <1>2, SafeOffType, CallStep DEF SafeOff
<1>3. CASE WriteZero \/ WriteIn1 \/ WriteIn2 \/ WriteDuty
  BY <1>3, WriteStep
<1>4. CASE UNCHANGED vars
  BY <1>4 DEF vars, pins, IInv, TypeOK, DrivesWhatWasAsked, OkMeansApplied,
    Programmed
<1> QED
  BY <1>1, <1>2, <1>3, <1>4 DEF Next

(* IInv is inductive.                                                      *)
THEOREM Invariance == Spec => []IInv
BY InitInvariant, NextInvariant, PTL DEF Spec

(* Type correctness.                                                       *)
THEOREM TypeCorrect == Spec => []TypeOK
<1>1. IInv => TypeOK
  BY DEF IInv
<1> QED
  BY <1>1, Invariance, PTL

(* However many writes fail, the duty on the bridge belongs to the         *)
(* direction on its pins.                                                  *)
THEOREM BridgeDrivesOneFrame == Spec => []DrivesWhatWasAsked
<1>1. IInv => DrivesWhatWasAsked
  BY DEF IInv
<1> QED
  BY <1>1, Invariance, PTL

(* A call that returns Ok has programmed its whole frame.                  *)
THEOREM OkIsApplied == Spec => []OkMeansApplied
<1>1. IInv => OkMeansApplied
  BY DEF IInv
<1> QED
  BY <1>1, Invariance, PTL

(* The direction pins change only with the PWM at zero.                    *)
THEOREM BreaksBeforeMaking == Spec => BreakBeforeMake
<1>1. IInv /\ [Next]_vars =>
        [<<in1, in2>>' # <<in1, in2>> => duty = 0 /\ duty' = 0]_vars
  BY DEF IInv, Next, vars, pins, Apply, SafeOff, ApplyFrame, WriteZero,
    WriteIn1, WriteIn2, WriteDuty
<1> QED
  BY <1>1, Invariance, PTL DEF Spec, BreakBeforeMake
---------------------------------------------------------------------------
(* The quadrature decoder.  Where in the encoder's cycle a state is.       *)
PlaceOf(state) == <<0, 3, 1, 2>>[state + 1]

(* A pin whose interrupt is not pending and that has lost no edge has the  *)
(* level the decoder has, or the level the running interrupt has read.     *)
LevelsAgree ==
  /\ reading = -1 =>
       /\ "A" \notin latched \cup unseen => encoder_state \div 2 = LevelA(shaft)
       /\ "B" \notin latched \cup unseen => encoder_state % 2 = LevelB(shaft)
  /\ reading # -1 /\ "A" \notin latched => reading = LevelA(shaft)

(* Only an enabled pin is latched, and A is enabled before B; an interrupt *)
(* therefore finds A enabled.                                              *)
EnablingOrder ==
  /\ latched \subseteq enabled /\ unseen \subseteq {"A", "B"}
  /\ enabled \in {{}, {"A"}, {"A", "B"}}
  /\ reading # -1 => "A" \in enabled

(* The count follows the decoded state, two edges for each illegal         *)
(* transition; unhurried, it follows the shaft and is one edge behind or   *)
(* ahead at most.                                                          *)
CountFollowsState ==
  (encoder_count + 2 * illegal_transitions
     - (PlaceOf(encoder_state) - shaft_start)) % 4 = 0

CountFollowsShaft ==
  ~hurried =>
    /\ illegal_transitions = 0
    /\ Settled(encoder_count + shaft_start)
    /\ encoder_count + shaft_start \in shaft - 1 .. shaft + 1
    /\ reading # -1 => reading = LevelA(shaft)

QuadratureInv ==
  /\ shaft \in Int /\ shaft_start \in 0 .. 3
  /\ latched \subseteq {"A", "B"} /\ reading \in {-1, 0, 1}
  /\ encoder_count \in Int /\ encoder_state \in 0 .. 3
  /\ illegal_transitions \in Nat /\ hurried \in BOOLEAN
  /\ EnablingOrder /\ LevelsAgree /\ CountFollowsState /\ CountFollowsShaft

(* The levels at a position, and back.                                     *)
LEMMA LevelsOfPlace ==
  ASSUME NEW p \in Int
  PROVE  /\ p % 4 \in 0 .. 3
         /\ p % 4 = 0 => LevelA(p) = 0 /\ LevelB(p) = 0
         /\ p % 4 = 1 => LevelA(p) = 1 /\ LevelB(p) = 0
         /\ p % 4 = 2 => LevelA(p) = 1 /\ LevelB(p) = 1
         /\ p % 4 = 3 => LevelA(p) = 0 /\ LevelB(p) = 1
         /\ LevelA(p) \in {0, 1} /\ LevelB(p) \in {0, 1}
<1>1. p % 4 \in 0 .. 3
  BY SMT
<1> DEFINE m == p % 4
<1>2. m \in 0 .. 3
  BY <1>1
<1>3. LevelA(p) = Levels[m + 1][1] /\ LevelB(p) = Levels[m + 1][2]
  BY DEF LevelA, LevelB
<1> HIDE DEF m
<1>4. /\ m = 0 => LevelA(p) = 0 /\ LevelB(p) = 0
      /\ m = 1 => LevelA(p) = 1 /\ LevelB(p) = 0
      /\ m = 2 => LevelA(p) = 1 /\ LevelB(p) = 1
      /\ m = 3 => LevelA(p) = 0 /\ LevelB(p) = 1
  BY <1>2, <1>3 DEF Levels
<1>5. m = 0 \/ m = 1 \/ m = 2 \/ m = 3
  BY <1>2
<1> QED
  BY <1>2, <1>4, <1>5 DEF m

(* A decoded state has its levels, and is settled where it belongs.        *)
LEMMA StateOfPlace ==
  ASSUME NEW p \in Int, NEW state \in 0 .. 3
  PROVE  /\ state = StateOf(LevelA(p), LevelB(p)) <=> PlaceOf(state) = p % 4
         /\ PlaceOf(state) \in 0 .. 3
         /\ state = StateOf(LevelA(p), LevelB(p)) <=>
              state \div 2 = LevelA(p) /\ state % 2 = LevelB(p)
<1>1. /\ PlaceOf(0) = 0 /\ PlaceOf(1) = 3 /\ PlaceOf(2) = 1 /\ PlaceOf(3) = 2
  BY DEF PlaceOf
<1>2. /\ 0 \div 2 = 0 /\ 1 \div 2 = 0 /\ 2 \div 2 = 1 /\ 3 \div 2 = 1
      /\ 0 % 2 = 0 /\ 1 % 2 = 1 /\ 2 % 2 = 0 /\ 3 % 2 = 1
  BY SMT
<1>3. state = 0 \/ state = 1 \/ state = 2 \/ state = 3
  OBVIOUS
<1> DEFINE m == p % 4
<1>4. /\ m \in 0 .. 3
      /\ m = 0 => LevelA(p) = 0 /\ LevelB(p) = 0
      /\ m = 1 => LevelA(p) = 1 /\ LevelB(p) = 0
      /\ m = 2 => LevelA(p) = 1 /\ LevelB(p) = 1
      /\ m = 3 => LevelA(p) = 0 /\ LevelB(p) = 1
  BY LevelsOfPlace
<1> HIDE DEF m
<1>5. /\ state = StateOf(LevelA(p), LevelB(p)) <=> PlaceOf(state) = m
      /\ PlaceOf(state) \in 0 .. 3
      /\ state = StateOf(LevelA(p), LevelB(p)) <=>
           state \div 2 = LevelA(p) /\ state % 2 = LevelB(p)
  BY <1>1, <1>2, <1>3, <1>4 DEF StateOf
<1> QED
  BY <1>5 DEF m

(* The table: an edge forward, an edge backward, nothing or two edges.     *)
LEMMA TableOfDeltas ==
  ASSUME NEW from \in 0 .. 3, NEW to \in 0 .. 3
  PROVE  LET d == Delta(from, to)
             e == PlaceOf(to) - PlaceOf(from)
         IN  \/ d = 1 /\ e \in {1, -3}
             \/ d = -1 /\ e \in {-1, 3}
             \/ d = 0 /\ to = from /\ e = 0
             \/ d = 0 /\ to # from /\ e \in {2, -2}
<1>1. /\ PlaceOf(0) = 0 /\ PlaceOf(1) = 3 /\ PlaceOf(2) = 1 /\ PlaceOf(3) = 2
  BY DEF PlaceOf
<1>2. /\ Delta(0, 0) = 0 /\ Delta(0, 1) = -1 /\ Delta(0, 2) = 1 /\ Delta(0, 3) = 0
      /\ Delta(1, 0) = 1 /\ Delta(1, 1) = 0 /\ Delta(1, 2) = 0 /\ Delta(1, 3) = -1
      /\ Delta(2, 0) = -1 /\ Delta(2, 1) = 0 /\ Delta(2, 2) = 0 /\ Delta(2, 3) = 1
      /\ Delta(3, 0) = 0 /\ Delta(3, 1) = 1 /\ Delta(3, 2) = -1 /\ Delta(3, 3) = 0
  BY DEF Delta, kQuadratureDelta
<1>3. /\ from = 0 \/ from = 1 \/ from = 2 \/ from = 3
      /\ to = 0 \/ to = 1 \/ to = 2 \/ to = 3
  OBVIOUS
<1> QED
  BY <1>1, <1>2, <1>3

(* Whole cycles change nothing modulo a cycle.                             *)
LEMMA WholeCycles ==
  /\ \A x, k \in Int : x % 4 = 0 => (x + 4 * k) % 4 = 0
  /\ \A x \in Int : \E k \in Int : x = 4 * k + (x % 4)
  /\ \A x \in Int : x % 4 = 0 => (x + 4) % 4 = 0 /\ (x - 4) % 4 = 0
BY SMT

(* Places of neighbours.                                                   *)
LEMMA Neighbours ==
  ASSUME NEW p \in Int, NEW q \in Int, p \in q - 1 .. q + 1
  PROVE  /\ p % 4 = q % 4 => p = q
         /\ p = q => (q % 4) - (p % 4) = 0
         /\ p = q - 1 => (q % 4) - (p % 4) \in {1, -3}
         /\ p = q + 1 => (q % 4) - (p % 4) \in {-1, 3}
BY SMT

(* The decoder starts where the shaft is.                                  *)
LEMMA QuadratureInitInv == QuadratureInit => QuadratureInv
<1> SUFFICES ASSUME QuadratureInit PROVE QuadratureInv
  OBVIOUS
<1>1. /\ shaft \in 0 .. 3 /\ shaft_start = shaft /\ latched = {} /\ reading = -1
      /\ enabled = {} /\ unseen = {}
      /\ encoder_count = 0 /\ illegal_transitions = 0 /\ hurried = FALSE
      /\ encoder_state = StateOf(LevelA(shaft), LevelB(shaft)) /\ shaft \in Int
  BY DEF QuadratureInit
<1>2. encoder_state \in 0 .. 3
  BY <1>1, LevelsOfPlace DEF StateOf
<1>3. /\ PlaceOf(encoder_state) = shaft % 4
      /\ encoder_state \div 2 = LevelA(shaft) /\ encoder_state % 2 = LevelB(shaft)
  BY <1>1, <1>2, StateOfPlace
<1>4. shaft % 4 = shaft
  BY <1>1, SMT
<1>5. CountFollowsState
  BY <1>1, <1>3, <1>4, SMT DEF CountFollowsState
<1>6. CountFollowsShaft
  BY <1>1 DEF CountFollowsShaft, Settled
<1>7. LevelsAgree
  BY <1>1, <1>3 DEF LevelsAgree
<1>8. /\ encoder_count \in Int /\ illegal_transitions \in Nat /\ hurried \in BOOLEAN
      /\ reading \in {-1, 0, 1}
  <2>1. encoder_count \in Int
    BY <1>1
  <2>2. illegal_transitions \in Nat
    BY <1>1
  <2>3. hurried \in BOOLEAN
    BY <1>1
  <2>4. reading \in {-1, 0, 1}
    BY <1>1
  <2> QED
    BY <2>1, <2>2, <2>3, <2>4
<1>9. latched \subseteq {"A", "B"} /\ EnablingOrder
  BY <1>1, Zenon DEF EnablingOrder
<1> QED
  BY <1>1, <1>2, <1>5, <1>6, <1>7, <1>8, <1>9 DEF QuadratureInv

(* Enabling a pin touches nothing that is decoded.                         *)
LEMMA EnableInv ==
  ASSUME QuadratureInv, NEW pin \in {"A", "B"}, Enable(pin)
  PROVE  QuadratureInv'
<1>1. /\ enabled = (IF pin = "A" THEN {} ELSE {"A"}) /\ enabled' = enabled \cup {pin}
      /\ UNCHANGED <<shaft, shaft_start, latched, reading, encoder_count, encoder_state,
                     illegal_transitions, unseen, hurried>>
  BY DEF Enable, decoderVars
<1>2. EnablingOrder'
  BY <1>1 DEF QuadratureInv, EnablingOrder
<1>3. LevelsAgree' /\ CountFollowsState' /\ CountFollowsShaft'
  BY <1>1 DEF QuadratureInv, LevelsAgree, CountFollowsState, CountFollowsShaft, Settled
<1> QED
  BY <1>1, <1>2, <1>3 DEF QuadratureInv

(* An edge latches its pin, or is lost; one that comes too early is        *)
(* hurried.                                                                *)
LEMMA TurnInv ==
  ASSUME QuadratureInv, NEW direction \in {-1, 1}, Turn(direction)
  PROVE  QuadratureInv'
<1> USE DEF QuadratureInv
<1> DEFINE turned == IF LevelA(shaft') # LevelA(shaft) THEN {"A"} ELSE {"B"}
<1>1. /\ shaft' = shaft + direction /\ shaft' \in Int
      /\ latched' = latched \cup (turned \cap enabled)
      /\ unseen' = unseen \cup (turned \ enabled)
      /\ UNCHANGED <<shaft_start, enabled, reading, encoder_count, encoder_state,
                     illegal_transitions>>
      /\ latched' \subseteq {"A", "B"}
  <2>1. latched' = latched \cup (turned \cap enabled)
    BY DEF Turn
  <2>2. unseen' = unseen \cup (turned \ enabled)
    BY DEF Turn
  <2>3. turned \subseteq {"A", "B"}
    OBVIOUS
  <2>4. /\ shaft' = shaft + direction
        /\ UNCHANGED <<shaft_start, enabled, reading, encoder_count, encoder_state,
                       illegal_transitions>>
    BY DEF Turn, decoderVars
  <2>5. shaft' \in Int
    BY <2>4
  <2> HIDE DEF turned
  <2>6. latched' \subseteq {"A", "B"}
    <3>1. latched \subseteq {"A", "B"}
      OBVIOUS
    <3> HIDE DEF QuadratureInv
    <3> QED
      BY <2>1, <2>3, <3>1
  <2> QED
    BY <2>1, <2>2, <2>4, <2>5, <2>6
<1>2. hurried' \in BOOLEAN
  BY Zenon DEF Turn
<1>3. LevelA(shaft') # LevelA(shaft) => LevelB(shaft') = LevelB(shaft)
  <2>1. (shaft' % 4) - (shaft % 4) \in {1, -3, -1, 3}
    <3>1. shaft \in shaft' - 1 .. shaft' + 1 /\ (shaft = shaft' - 1 \/ shaft = shaft' + 1)
      BY <1>1
    <3> QED
      BY <1>1, <3>1, Neighbours
  <2> DEFINE m == shaft % 4
             n == shaft' % 4
  <2>2. /\ m \in 0 .. 3
        /\ m = 0 => LevelA(shaft) = 0 /\ LevelB(shaft) = 0
        /\ m = 1 => LevelA(shaft) = 1 /\ LevelB(shaft) = 0
        /\ m = 2 => LevelA(shaft) = 1 /\ LevelB(shaft) = 1
        /\ m = 3 => LevelA(shaft) = 0 /\ LevelB(shaft) = 1
    BY LevelsOfPlace
  <2>3. /\ n \in 0 .. 3
        /\ n = 0 => LevelA(shaft') = 0 /\ LevelB(shaft') = 0
        /\ n = 1 => LevelA(shaft') = 1 /\ LevelB(shaft') = 0
        /\ n = 2 => LevelA(shaft') = 1 /\ LevelB(shaft') = 1
        /\ n = 3 => LevelA(shaft') = 0 /\ LevelB(shaft') = 1
    BY <1>1, LevelsOfPlace
  <2>4. n - m \in {1, -3, -1, 3}
    BY <2>1
  <2> HIDE DEF m, n
  <2> QED
    BY <2>2, <2>3, <2>4
<1>4. LevelsAgree' /\ EnablingOrder'
  <2>1. CASE LevelA(shaft') # LevelA(shaft)
    <3>1. turned = {"A"} /\ LevelB(shaft') = LevelB(shaft)
      BY <1>3, <2>1
    <3> QED
      BY <1>1, <3>1 DEF LevelsAgree, EnablingOrder
  <2>2. CASE LevelA(shaft') = LevelA(shaft)
    <3>1. turned = {"B"}
      BY <2>2
    <3> QED
      BY <1>1, <2>2, <3>1 DEF LevelsAgree, EnablingOrder
  <2> QED
    BY <2>1, <2>2
<1>5. CountFollowsState'
  BY <1>1 DEF CountFollowsState
<1>6. CountFollowsShaft'
  <2> SUFFICES ASSUME ~hurried' PROVE CountFollowsShaft'
    BY DEF CountFollowsShaft
  <2> DEFINE p == encoder_count + shaft_start
  <2>1. ~hurried /\ reading = -1 /\ (Settled(shaft) \/ Settled(shaft + direction))
    BY DEF Turn
  <2>2. p \in Int /\ Settled(p) /\ p \in shaft - 1 .. shaft + 1 /\ illegal_transitions = 0
    BY <2>1 DEF CountFollowsShaft
  <2>3. PlaceOf(encoder_state) = p % 4
    BY <2>2, StateOfPlace DEF Settled
  <2> HIDE DEF p
  <2>4. p \in shaft' - 1 .. shaft' + 1
    <3>1. CASE Settled(shaft)
      <4>1. p % 4 = shaft % 4
        BY <2>3, <3>1, StateOfPlace DEF Settled
      <4>2. p = shaft
        BY <2>2, <4>1, Neighbours
      <4> QED
        BY <1>1, <4>2
    <3>2. CASE Settled(shaft + direction)
      <4>1. p % 4 = shaft' % 4
        BY <1>1, <2>3, <3>2, StateOfPlace DEF Settled
      <4>2. p % 4 = (shaft + direction) % 4
        BY <1>1, <4>1
      <4>3. p = shaft + direction
        BY <2>2, <4>2, SMT
      <4> QED
        BY <1>1, <4>3
    <3> QED
      BY <2>1, <3>1, <3>2
  <2>5. p' = p
    BY <1>1 DEF p
  <2>6. Settled(p)'
    BY <1>1, <2>2, <2>5 DEF Settled
  <2> QED
    BY <1>1, <2>1, <2>2, <2>4, <2>5, <2>6 DEF CountFollowsShaft, p
<1> QED
  BY <1>1, <1>2, <1>4, <1>5, <1>6

(* The dispatcher reads pin A for a pin it acknowledges.                   *)
LEMMA EnterInv ==
  ASSUME QuadratureInv, NEW pin \in {"A", "B"}, EnterInterrupt(pin)
  PROVE  QuadratureInv'
<1> USE DEF QuadratureInv
<1>1. /\ reading = -1 /\ pin \in latched /\ latched' = latched \ {pin}
      /\ reading' = LevelA(shaft)
      /\ UNCHANGED <<shaft, shaft_start, encoder_count, encoder_state,
                     illegal_transitions, enabled, unseen, hurried>>
  BY DEF EnterInterrupt, decoderVars
<1>2. reading' \in {0, 1}
  BY <1>1, LevelsOfPlace
<1>3. EnablingOrder' /\ LevelsAgree' /\ CountFollowsState'
  BY <1>1, <1>2 DEF EnablingOrder, LevelsAgree, CountFollowsState
<1>4. CountFollowsShaft'
  BY <1>1 DEF CountFollowsShaft, Settled
<1> QED
  BY <1>1, <1>2, <1>3, <1>4

(* The rest of the interrupt reads pin B and decodes.                      *)
LEMMA FinishInv ==
  ASSUME QuadratureInv, FinishInterrupt
  PROVE  QuadratureInv'
<1> USE DEF QuadratureInv
<1> DEFINE next == StateOf(reading, LevelB(shaft))
           delta == Delta(encoder_state, next)
           turn == PlaceOf(next) - PlaceOf(encoder_state)
           illegal == IF next # encoder_state /\ delta = 0 THEN 1 ELSE 0
<1>1. /\ reading # -1 /\ reading' = -1 /\ encoder_count' = encoder_count + delta
      /\ illegal_transitions' = illegal_transitions + illegal
      /\ encoder_state' = next /\ unseen' = {}
      /\ UNCHANGED <<shaft, shaft_start, enabled, latched, hurried>>
  BY DEF FinishInterrupt
<1>2. reading \in {0, 1} /\ LevelB(shaft) \in {0, 1}
  BY <1>1, LevelsOfPlace
<1>3. next \in 0 .. 3 /\ next \div 2 = reading /\ next % 2 = LevelB(shaft)
  BY <1>2, SMT DEF StateOf
<1>4. \/ delta = 1 /\ turn \in {1, -3} /\ illegal = 0
      \/ delta = -1 /\ turn \in {-1, 3} /\ illegal = 0
      \/ delta = 0 /\ turn = 0 /\ illegal = 0
      \/ delta = 0 /\ turn \in {2, -2} /\ illegal = 1
  BY <1>3, TableOfDeltas
<1>5. PlaceOf(encoder_state) \in 0 .. 3 /\ PlaceOf(next) \in 0 .. 3
  BY <1>3, StateOfPlace
<1>6. encoder_count' \in Int /\ illegal_transitions' \in Nat /\ encoder_state' \in 0 .. 3
  BY <1>1, <1>3, <1>4
<1>7. LevelsAgree' /\ EnablingOrder'
  BY <1>1, <1>3 DEF LevelsAgree, EnablingOrder
<1>8. CountFollowsState'
  <2> DEFINE x == encoder_count + 2 * illegal_transitions
                    - (PlaceOf(encoder_state) - shaft_start)
  <2>1. x \in Int /\ x % 4 = 0
    BY <1>5 DEF CountFollowsState
  <2>2. x' \in {x, x + 4, x - 4}
    <3>1. /\ encoder_count \in Int /\ illegal_transitions \in Nat /\ shaft_start \in Int
          /\ encoder_state' = next /\ shaft_start' = shaft_start
      BY <1>1
    <3> HIDE DEF QuadratureInv, next, delta, illegal
    <3> QED
      BY <1>1, <1>4, <1>5, <3>1
  <2> HIDE DEF x
  <2>3. x' % 4 = 0
    BY <2>1, <2>2, WholeCycles
  <2> QED
    BY <2>3 DEF CountFollowsState, x
<1>9. CountFollowsShaft'
  <2> SUFFICES ASSUME ~hurried PROVE CountFollowsShaft'
    BY <1>1 DEF CountFollowsShaft
  <2> DEFINE p == encoder_count + shaft_start
  <2>1. p \in Int /\ Settled(p) /\ p \in shaft - 1 .. shaft + 1 /\ illegal_transitions = 0
        /\ reading = LevelA(shaft)
    BY <1>1 DEF CountFollowsShaft
  <2>2. PlaceOf(encoder_state) = p % 4 /\ PlaceOf(next) = shaft % 4
    BY <1>3, <2>1, StateOfPlace DEF Settled
  <2> HIDE DEF p
  <2>3. p + delta = shaft /\ illegal = 0
    <3>1. turn = (shaft % 4) - (p % 4)
      BY <2>2
    <3>2. /\ p = shaft => turn = 0
          /\ p = shaft - 1 => turn \in {1, -3}
          /\ p = shaft + 1 => turn \in {-1, 3}
      BY <2>1, <3>1, Neighbours
    <3> HIDE DEF turn, delta, illegal
    <3> QED
      BY <1>4, <2>1, <3>2
  <2>4. encoder_count' + shaft_start' = shaft
    BY <1>1, <1>4, <2>3 DEF p
  <2>5. Settled(shaft)'
    BY <1>1, <2>1 DEF Settled
  <2>6. Settled(encoder_count + shaft_start)'
    BY <1>1, <2>4, <2>5 DEF Settled
  <2> QED
    BY <1>1, <2>1, <2>3, <2>4, <2>6 DEF CountFollowsShaft
<1> QED
  BY <1>1, <1>6, <1>7, <1>8, <1>9

(* The invariant says what a settled decoder shows.                        *)
LEMMA QuadratureInvExplains == QuadratureInv => CountExplained
<1> SUFFICES ASSUME QuadratureInv, latched = {}, reading = -1, unseen = {}
             PROVE  /\ Settled(shaft)
                    /\ (encoder_count + 2 * illegal_transitions
                          - (shaft - shaft_start)) % 4 = 0
                    /\ ~hurried => /\ encoder_count = shaft - shaft_start
                                   /\ illegal_transitions = 0
  BY DEF CountExplained
<1> USE DEF QuadratureInv
<1>1. PlaceOf(encoder_state) = shaft % 4 /\ Settled(shaft)
  BY StateOfPlace DEF LevelsAgree, Settled
<1>2. (encoder_count + 2 * illegal_transitions - (shaft - shaft_start)) % 4 = 0
  <2>1. PICK k \in Int : shaft = 4 * k + (shaft % 4)
    BY WholeCycles
  <2> DEFINE x == encoder_count + 2 * illegal_transitions
                    - (PlaceOf(encoder_state) - shaft_start)
  <2>2. x \in Int /\ x % 4 = 0
    BY <1>1 DEF CountFollowsState
  <2>3. x + 4 * (-k) = encoder_count + 2 * illegal_transitions - (shaft - shaft_start)
    BY <1>1, <2>1
  <2> HIDE DEF x
  <2>4. (x + 4 * (-k)) % 4 = 0
    BY <2>1, <2>2, WholeCycles
  <2> QED
    BY <2>3, <2>4
<1>3. ~hurried => encoder_count = shaft - shaft_start /\ illegal_transitions = 0
  <2> SUFFICES ASSUME ~hurried
               PROVE  encoder_count = shaft - shaft_start /\ illegal_transitions = 0
    OBVIOUS
  <2> DEFINE p == encoder_count + shaft_start
  <2>1. p \in Int /\ Settled(p) /\ p \in shaft - 1 .. shaft + 1 /\ illegal_transitions = 0
    BY DEF CountFollowsShaft
  <2>2. p % 4 = shaft % 4
    BY <1>1, <2>1, StateOfPlace DEF Settled
  <2>3. p = shaft
    BY <2>1, <2>2, Neighbours
  <2> QED
    BY <2>1, <2>3
<1> QED
  BY <1>1, <1>2, <1>3

(* Whatever edges come whenever, those before the interrupt is enabled     *)
(* included, the settled count is off by what the illegal-transition       *)
(* counter admits to and by whole cycles, and by nothing if the shaft      *)
(* never outran the interrupt or its enabling.                             *)
THEOREM CountIsExplained == QuadratureSpec => []CountExplained
<1>1. QuadratureInv /\ [QuadratureNext]_quadratureVars => QuadratureInv'
  <2> SUFFICES ASSUME QuadratureInv, [QuadratureNext]_quadratureVars
               PROVE  QuadratureInv'
    OBVIOUS
  <2>1. CASE UNCHANGED quadratureVars
    BY <2>1 DEF quadratureVars, decoderVars, QuadratureInv, LevelsAgree, EnablingOrder,
      CountFollowsState, CountFollowsShaft, Settled
  <2> QED
    BY <2>1, TurnInv, EnableInv, EnterInv, FinishInv DEF QuadratureNext
<1> QED
  BY <1>1, QuadratureInitInv, QuadratureInvExplains, PTL DEF QuadratureSpec
---------------------------------------------------------------------------
(* The keys.  While a level waits to be accepted the debounce clock and    *)
(* the count of passes with it agree, and have not wrapped; the repeat     *)
(* clocks agree with the passes they stand for until those no longer       *)
(* matter.                                                                 *)
KeyInv ==
  /\ {tick, candidate_since, pressed_since, last_repeat} \subseteq 0 .. TickModulus - 1
  /\ raw \in BOOLEAN /\ stable \in BOOLEAN /\ candidate \in BOOLEAN
  /\ telemetry_enabled \in BOOLEAN
  /\ held_for \in 0 .. Debounce + 2
  /\ since_press \in 0 .. RepeatDelay /\ since_event \in 0 .. Repeat
  /\ candidate = raw
  /\ candidate # stable =>
       held_for \in 1 .. Debounce /\ Elapsed(candidate_since, tick) = held_for - 1
  /\ since_press = RepeatDelay \/ Elapsed(pressed_since, tick) = since_press
  /\ since_event = Repeat \/ Elapsed(last_repeat, tick) = since_event

(* One tick later, wherever the tick wraps.                                *)
LEMMA ElapsedStep ==
  ASSUME NEW since \in 0 .. TickModulus - 1, NEW now \in 0 .. TickModulus - 1
  PROVE  LET next == (now + 1) % TickModulus
         IN  /\ next \in 0 .. TickModulus - 1
             /\ Elapsed(since, now) \in 0 .. TickModulus - 1
             /\ Elapsed(since, now) + 1 < TickModulus =>
                  Elapsed(since, next) = Elapsed(since, now) + 1
             /\ Elapsed(now, now) = 0
<1>0. TickModulus \in Nat \ {0}
  BY KeyAssumption
<1> DEFINE next == (now + 1) % TickModulus
           x == (now - since) % TickModulus
<1>1. next \in 0 .. TickModulus - 1 /\ x \in 0 .. TickModulus - 1
  BY <1>0, DivMod, SMT
<1>2. (next - since) % TickModulus = (now + 1 - since) % TickModulus
  <2> DEFINE a == now + 1
             c == -since
  <2>1. a \in Int /\ c \in Int /\ a + c = now + 1 - since /\ a = now + 1
    OBVIOUS
  <2>2. next \in Int /\ next + c = next - since /\ next = a % TickModulus
    BY <1>1
  <2> HIDE DEF a, c, next
  <2>3. ((a % TickModulus) + c) % TickModulus = (a + c) % TickModulus
    BY <1>0, <2>1, ModAdd
  <2> QED
    BY <2>1, <2>2, <2>3
<1>3. (x + 1) % TickModulus = (now + 1 - since) % TickModulus
  <2> DEFINE a == now - since
  <2>1. a \in Int /\ a + 1 = now + 1 - since /\ x = a % TickModulus /\ 1 \in Int
    OBVIOUS
  <2> HIDE DEF a, x
  <2>2. ((a % TickModulus) + 1) % TickModulus = (a + 1) % TickModulus
    BY <1>0, <2>1, ModAdd
  <2> QED
    BY <2>1, <2>2
<1>4. ASSUME NEW r \in Int, 0 <= r, r < TickModulus
      PROVE  r % TickModulus = r
  <2>1. (0 * TickModulus + r) % TickModulus = r
    BY <1>0, <1>4, ModUnique, SMT
  <2> QED
    BY <1>0, <2>1, SMT
<1>5. x + 1 < TickModulus => (x + 1) % TickModulus = x + 1
  BY <1>1, <1>4
<1>6. (now - now) % TickModulus = 0
  BY <1>0, <1>4, SMT
<1> HIDE DEF next, x
<1>7. x + 1 < TickModulus => (next - since) % TickModulus = x + 1
  BY <1>2, <1>3, <1>5
<1> QED
  BY <1>1, <1>6, <1>7 DEF Elapsed, next, x

(* The keys start released and settled.                                    *)
LEMMA KeyInitInv == UiInit => KeyInv
<1> SUFFICES ASSUME UiInit PROVE KeyInv
  OBVIOUS
<1>1. /\ TickModulus \in Nat \ {0} /\ Debounce \in Nat /\ RepeatDelay \in Nat
      /\ Repeat \in Nat
  BY KeyAssumption
<1>2. 0 \in 0 .. TickModulus - 1
  BY <1>1
<1>3. Elapsed(0, 0) = 0
  BY <1>2, ElapsedStep
<1>4. /\ {tick, candidate_since, pressed_since, last_repeat} \subseteq 0 .. TickModulus - 1
      /\ raw \in BOOLEAN /\ stable \in BOOLEAN /\ candidate \in BOOLEAN
      /\ telemetry_enabled \in BOOLEAN
      /\ candidate = raw /\ candidate = stable
  BY <1>2 DEF UiInit
<1>5. /\ held_for \in 0 .. Debounce + 2
      /\ since_press \in 0 .. RepeatDelay /\ since_event \in 0 .. Repeat
  BY <1>1 DEF UiInit
<1>6. Elapsed(pressed_since, tick) = since_press /\ Elapsed(last_repeat, tick) = since_event
  BY <1>3 DEF UiInit
<1> QED
  BY <1>4, <1>5, <1>6 DEF KeyInv

(* What one pass does to the history of a level.                           *)
LEMMA LevelStep ==
  ASSUME KeyInv, NEW pressed \in BOOLEAN, KeyPass(pressed)
  PROVE  /\ tick' \in 0 .. TickModulus - 1
         /\ candidate' = pressed /\ raw' = pressed
         /\ held_for' \in 0 .. Debounce + 2
         /\ pressed # candidate => held_for' = 1
         /\ pressed = candidate /\ candidate # stable =>
              /\ held_for' = held_for + 1
              /\ Elapsed(candidate_since, tick') = held_for
         /\ stable' \in BOOLEAN
<1>0. /\ TickModulus \in Nat \ {0} /\ Debounce \in Nat \ {0} /\ Debounce < TickModulus
  BY KeyAssumption
<1>1. /\ raw' = pressed /\ tick' = (tick + 1) % TickModulus
      /\ held_for' = IF pressed = raw THEN UpTo(Debounce + 2, held_for + 1) ELSE 1
      /\ Update(pressed, tick')
  BY DEF KeyPass
<1>2. candidate' = pressed /\ stable' \in BOOLEAN
  BY <1>1 DEF Update, NewCandidate, Debouncing, Accept, Hold, keyVars, KeyInv
<1>3. tick' \in 0 .. TickModulus - 1
  BY <1>1, ElapsedStep DEF KeyInv
<1>4. held_for' \in 0 .. Debounce + 2 /\ (pressed # candidate => held_for' = 1)
  BY <1>0, <1>1 DEF KeyInv, UpTo
<1>5. ASSUME pressed = candidate, candidate # stable
      PROVE  held_for' = held_for + 1 /\ Elapsed(candidate_since, tick') = held_for
  <2>1. held_for \in 1 .. Debounce /\ Elapsed(candidate_since, tick) = held_for - 1
        /\ candidate = raw
    BY <1>5 DEF KeyInv
  <2>2. held_for' = held_for + 1
    BY <1>0, <1>1, <1>5, <2>1 DEF UpTo
  <2>3. Elapsed(candidate_since, tick) + 1 < TickModulus
    BY <1>0, <2>1
  <2>4. candidate_since \in 0 .. TickModulus - 1 /\ tick \in 0 .. TickModulus - 1
    BY DEF KeyInv
  <2>5. Elapsed(candidate_since, tick') = Elapsed(candidate_since, tick) + 1
    BY <1>1, <2>3, <2>4, ElapsedStep
  <2> QED
    BY <1>0, <2>1, <2>2, <2>5
<1> QED
  BY <1>1, <1>2, <1>3, <1>4, <1>5

(* A clock that stands for a capped count of passes keeps standing for it. *)
LEMMA ClockStep ==
  ASSUME NEW since \in 0 .. TickModulus - 1, NEW now \in 0 .. TickModulus - 1,
         NEW cap \in Nat \ {0}, cap < TickModulus, NEW passes \in 0 .. cap,
         passes = cap \/ Elapsed(since, now) = passes
  PROVE  LET next == (now + 1) % TickModulus
             passed == UpTo(cap, passes + 1)
         IN  /\ passed \in 0 .. cap
             /\ passed = cap \/ Elapsed(since, next) = passed
             /\ Elapsed(since, next) >= cap => passes + 1 >= cap
<1> DEFINE next == (now + 1) % TickModulus
<1>0. TickModulus \in Nat \ {0}
  BY KeyAssumption
<1>1. Elapsed(since, now) + 1 < TickModulus =>
        Elapsed(since, next) = Elapsed(since, now) + 1
  BY ElapsedStep
<1> HIDE DEF next
<1>2. passes # cap => Elapsed(since, next) = passes + 1
  BY <1>0, <1>1
<1>3. LET passed == UpTo(cap, passes + 1)
      IN  /\ passed \in 0 .. cap
          /\ passed = cap \/ Elapsed(since, next) = passed
          /\ Elapsed(since, next) >= cap => passes + 1 >= cap
  BY <1>2 DEF UpTo
<1> QED
  BY <1>3 DEF next

(* Every pass keeps the clocks and says what OnePressOneEvent says of it.  *)
PassIsSound ==
  /\ event' = "Pressed" => raw' /\ held_for' = Debounce + 1 /\ ~stable
  /\ event' = "Released" => ~raw' /\ held_for' = Debounce + 1 /\ stable
  /\ event' = "Repeat" =>
       stable /\ since_press' >= RepeatDelay /\ since_event + 1 >= Repeat
  /\ page' # page \/ telemetry_enabled' # telemetry_enabled =>
       raw' /\ held_for' = Debounce + 1
  /\ stable' # raw' => held_for' <= Debounce

(* One pass, by the debouncer, the repeat timer and the page.              *)
LEMMA KeyPassInv ==
  ASSUME KeyInv, NEW pressed \in BOOLEAN, KeyPass(pressed)
  PROVE  KeyInv' /\ PassIsSound
<1>0. /\ TickModulus \in Nat \ {0} /\ Debounce \in Nat \ {0}
      /\ RepeatDelay \in Nat \ {0} /\ Repeat \in Nat \ {0}
      /\ Debounce < TickModulus /\ Repeat < TickModulus /\ RepeatDelay < TickModulus
  BY KeyAssumption
<1>1. /\ tick' \in 0 .. TickModulus - 1 /\ tick' = (tick + 1) % TickModulus
      /\ candidate' = pressed /\ raw' = pressed
      /\ held_for' \in 0 .. Debounce + 2
      /\ pressed # candidate => held_for' = 1
      /\ pressed = candidate /\ candidate # stable =>
           /\ held_for' = held_for + 1
           /\ Elapsed(candidate_since, tick') = held_for
      /\ stable' \in BOOLEAN
      /\ candidate # stable => held_for \in 1 .. Debounce
  BY LevelStep DEF KeyPass, KeyInv
<1>2. /\ {tick, candidate_since, pressed_since, last_repeat} \subseteq 0 .. TickModulus - 1
      /\ stable \in BOOLEAN /\ candidate \in BOOLEAN
      /\ since_press \in 0 .. RepeatDelay /\ since_event \in 0 .. Repeat
      /\ telemetry_enabled \in BOOLEAN
  BY DEF KeyInv
<1>3. Elapsed(tick', tick') = 0
  BY <1>1, ElapsedStep
<1>4. /\ UpTo(RepeatDelay, since_press + 1) \in 0 .. RepeatDelay
      /\ \/ UpTo(RepeatDelay, since_press + 1) = RepeatDelay
         \/ Elapsed(pressed_since, tick') = UpTo(RepeatDelay, since_press + 1)
      /\ Elapsed(pressed_since, tick') >= RepeatDelay => since_press + 1 >= RepeatDelay
  BY <1>0, <1>1, <1>2, ClockStep DEF KeyInv
<1>5. /\ UpTo(Repeat, since_event + 1) \in 0 .. Repeat
      /\ \/ UpTo(Repeat, since_event + 1) = Repeat
         \/ Elapsed(last_repeat, tick') = UpTo(Repeat, since_event + 1)
      /\ Elapsed(last_repeat, tick') >= Repeat => since_event + 1 >= Repeat
  BY <1>0, <1>1, <1>2, ClockStep DEF KeyInv
<1>6. /\ since_press' = IF event' = "Pressed" THEN 0 ELSE UpTo(RepeatDelay, since_press + 1)
      /\ since_event' = IF event' \in {"Pressed", "Repeat"} THEN 0
                        ELSE UpTo(Repeat, since_event + 1)
      /\ Update(pressed, tick') /\ Act
  BY DEF KeyPass
<1>7. telemetry_enabled' \in BOOLEAN
  BY <1>6, Zenon DEF Act
<1>8. /\ page' # page => event' = "Pressed"
      /\ telemetry_enabled' # telemetry_enabled => event' = "Pressed"
  <2>1. page' # page => event' = "Pressed"
    BY <1>6 DEF Act
  <2>2. event' # "Pressed" => (telemetry_enabled' <=> telemetry_enabled)
    BY <1>2, <1>6, Zenon DEF Act
  <2> QED
    BY <1>2, <1>7, <2>1, <2>2
<1>9. /\ candidate_since' \in 0 .. TickModulus - 1 /\ pressed_since' \in 0 .. TickModulus - 1
      /\ last_repeat' \in 0 .. TickModulus - 1
  BY <1>1, <1>2, <1>6 DEF Update, NewCandidate, Debouncing, Accept, Hold, keyVars
<1>10. since_press' \in 0 .. RepeatDelay /\ since_event' \in 0 .. Repeat
  BY <1>0, <1>4, <1>5, <1>6
<1>11. /\ since_press' = RepeatDelay \/ Elapsed(pressed_since', tick') = since_press'
       /\ since_event' = Repeat \/ Elapsed(last_repeat', tick') = since_event'
  BY <1>3, <1>4, <1>5, <1>6 DEF Update, NewCandidate, Debouncing, Accept, Hold, keyVars
<1>12. candidate' # stable' =>
         held_for' \in 1 .. Debounce /\ Elapsed(candidate_since', tick') = held_for' - 1
  <2>1. CASE NewCandidate(pressed, tick')
    BY <1>0, <1>1, <1>3, <2>1 DEF NewCandidate
  <2>2. CASE Debouncing(pressed, tick')
    BY <1>0, <1>1, <2>2 DEF Debouncing, keyVars
  <2>3. CASE Accept(pressed, tick') \/ Hold(pressed, tick')
    BY <2>3 DEF Accept, Hold
  <2> QED
    BY <1>6, <2>1, <2>2, <2>3 DEF Update
<1>13. KeyInv'
  <2>1. {tick', candidate_since', pressed_since', last_repeat'} \subseteq 0 .. TickModulus - 1
    BY <1>1, <1>9
  <2> QED
    BY <1>1, <1>7, <1>10, <1>11, <1>12, <2>1 DEF KeyInv
<1>14. /\ event' = "Pressed" => raw' /\ held_for' = Debounce + 1 /\ ~stable
       /\ event' = "Released" => ~raw' /\ held_for' = Debounce + 1 /\ stable
  <2>1. CASE Accept(pressed, tick')
    <3>1. held_for' = Debounce + 1
      BY <1>0, <1>1, <2>1 DEF Accept
    <3> QED
      BY <1>1, <1>2, <2>1, <3>1 DEF Accept
  <2>2. CASE NewCandidate(pressed, tick') \/ Debouncing(pressed, tick') \/ Hold(pressed, tick')
    BY <2>2 DEF NewCandidate, Debouncing, Hold
  <2> QED
    BY <1>6, <2>1, <2>2 DEF Update
<1>15. event' = "Repeat" =>
         stable /\ since_press' >= RepeatDelay /\ since_event + 1 >= Repeat
  <2> SUFFICES ASSUME event' = "Repeat"
               PROVE  stable /\ since_press' >= RepeatDelay /\ since_event + 1 >= Repeat
    OBVIOUS
  <2>1. RepeatDue(tick')
    BY <1>6 DEF Update, NewCandidate, Debouncing, Accept, Hold
  <2>2. /\ stable /\ Elapsed(pressed_since, tick') >= RepeatDelay
        /\ Elapsed(last_repeat, tick') >= Repeat
    BY <2>1 DEF RepeatDue
  <2>3. since_press + 1 >= RepeatDelay /\ since_event + 1 >= Repeat
    BY <1>4, <1>5, <2>2
  <2>4. since_press' = UpTo(RepeatDelay, since_press + 1)
    BY <1>6
  <2> QED
    BY <1>0, <1>2, <2>2, <2>3, <2>4 DEF UpTo
<1>16. stable' # raw' => held_for' <= Debounce
  BY <1>0, <1>1, <1>12
<1> QED
  BY <1>8, <1>13, <1>14, <1>15, <1>16 DEF PassIsSound

(* Across bounces, long holds and the tick's wrap, every press and every   *)
(* release that lasts is reported once, and what a press does is done once.*)
THEOREM OneEventPerPress == UiSpec => OnePressOneEvent
<1>1. KeyInv /\ [UiNext]_uiVars => KeyInv' /\ [PassIsSound]_uiVars
  <2> SUFFICES ASSUME KeyInv, [UiNext]_uiVars PROVE KeyInv' /\ [PassIsSound]_uiVars
    OBVIOUS
  <2>1. CASE UNCHANGED uiVars
    BY <2>1 DEF uiVars, keyVars, screenVars, KeyInv, Elapsed
  <2>2. CASE UiNext
    BY <2>2, KeyPassInv DEF UiNext
  <2> QED
    BY <2>1, <2>2
<1>2. [PassIsSound]_uiVars =>
        [/\ event' = "Pressed" => raw' /\ held_for' = Debounce + 1 /\ ~stable
         /\ event' = "Released" => ~raw' /\ held_for' = Debounce + 1 /\ stable
         /\ event' = "Repeat" =>
              stable /\ since_press' >= RepeatDelay /\ since_event + 1 >= Repeat
         /\ page' # page \/ telemetry_enabled' # telemetry_enabled =>
              raw' /\ held_for' = Debounce + 1
         /\ stable' # raw' => held_for' <= Debounce]_uiVars
  BY DEF PassIsSound
<1> QED
  BY <1>1, <1>2, KeyInitInv, PTL DEF UiSpec, OnePressOneEvent
---------------------------------------------------------------------------
(* The timing of the shadow loop.  A reading of the timebase after n       *)
(* others is n times the lost ticks behind the true time, and short of the *)
(* next microsecond by its remainder.                                      *)
Timebases == [last : Nat, remainder : 0 .. TicksPerUs - 1, elapsed_us : Nat]

Reads(us, rest, n, time) == us * TicksPerUs + rest + n * lost_ticks = time

Keeps(base, n) == Reads(base.elapsed_us, base.remainder, n, base.last)

EvidenceType ==
  [admissions : Nat, last_admitted : Nat \cup {None}, max_phase : Nat, missed : Nat,
   overruns : Nat, late : Nat, timeouts : Nat, adc_errors : Nat, runtime_errors : Nat]

(* The microsecond us is what reading number h.readings showed at h.at.    *)
Stamp(us, h) ==
  /\ us \in 0 .. timebase.elapsed_us
  /\ h \in [at : Int, readings : Nat] /\ h.readings <= Readings
  /\ \E rest \in 0 .. TicksPerUs - 1 : Reads(us, rest, h.readings - 1, h.at)

Stamps(us, h) ==
  IF h = None THEN us = None ELSE us # None /\ Stamp(us, h)

(* The admission of update u was read after n other readings, no later     *)
(* than the largest phase says.                                            *)
AdmittedAt(e, u, n) ==
  \E rest \in 0 .. TicksPerUs - 1, phase_ticks \in Nat :
    /\ Reads(e.last_admitted, rest, n, u * TickPeriod + phase_ticks)
    /\ phase_ticks < (e.max_phase + 1) * TicksPerUs

Sharp(e) == 2 * ((e.max_phase + 2) * TicksPerUs + 2 * lost_ticks) <= TickPeriod
Exact(e, u) == Sharp(e) => e.admissions + e.missed = u

AdmissionInv ==
  IF evidence.last_admitted = None
  THEN update = 0 /\ loop_clock = 0 /\ evidence.admissions = 0 /\ evidence.missed = 0
  ELSE /\ evidence.last_admitted <= timebase.elapsed_us
       /\ \E n \in {Readings - 1, Readings - 2} : AdmittedAt(evidence, update, n)

TimingInv ==
  /\ loop_clock \in Nat /\ update \in Nat /\ lost_ticks \in Nat
  /\ timebase \in Timebases /\ timebase.last <= loop_clock
  /\ evidence \in EvidenceType /\ evidence.adc_errors <= evidence.admissions
  /\ Keeps(timebase, Readings)
  /\ AdmissionInv
  /\ Stamps(last_event, good) /\ Stamps(last_kick, success)
  /\ Exact(evidence, update) /\ HealthIsHonest

(* Products with a positive factor.                                        *)
LEMMA Products ==
  /\ \A x, y, b \in Int : /\ (x + y) * b = x * b + y * b
                          /\ (x - y) * b = x * b - y * b
                          /\ x * b = b * x /\ x * b \in Int
  /\ \A x \in Int, b \in Nat \ {0} : x * b > 0 => x > 0
  /\ \A x, y \in Int, b \in Nat : x <= y => x * b <= y * b
<1>1. \A x, y, b \in Int : /\ (x + y) * b = x * b + y * b
                           /\ (x - y) * b = x * b - y * b
                           /\ x * b = b * x /\ x * b \in Int
  BY SMT
<1>2. \A x \in Int, b \in Nat \ {0} : x * b > 0 => x > 0
  BY SMT
<1>3. \A x, y \in Int, b \in Nat : x <= y => x * b <= y * b
  <2> TAKE x, y \in Int, b \in Nat
  <2> HAVE x <= y
  <2>1. (y - x) * b >= 0
    BY SMT
  <2>2. (y - x) * b = y * b - x * b /\ x * b \in Int /\ y * b \in Int
    BY <1>1
  <2> QED
    BY <2>1, <2>2
<1> QED
  BY <1>1, <1>2, <1>3

(* The loop's constants.                                                   *)
LEMMA TimingConstants ==
  /\ TicksPerUs \in Nat \ {0} /\ TickPeriod \in Nat \ {0}
  /\ ExpectedPeriod \in Nat \ {0} /\ TickPeriod = ExpectedPeriod * TicksPerUs
<1>1. TicksPerUs \in Nat \ {0} /\ TickPeriod \in Nat \ {0} /\ TickPeriod % TicksPerUs = 0
  BY TimingAssumption
<1>2. /\ ExpectedPeriod \in Int
      /\ TickPeriod = ExpectedPeriod * TicksPerUs + (TickPeriod % TicksPerUs)
  BY <1>1, DivMod DEF ExpectedPeriod
<1>3. ExpectedPeriod * TicksPerUs \in Int
  BY <1>1, <1>2, Products
<1>4. TickPeriod = ExpectedPeriod * TicksPerUs
  BY <1>1, <1>2, <1>3
<1>5. ExpectedPeriod > 0
  BY <1>1, <1>2, <1>4, Products
<1> QED
  BY <1>1, <1>2, <1>4, <1>5

(* MicrosecondTimebase::now loses the same ticks every time, and is        *)
(* otherwise exact.                                                        *)
LEMMA NowReads ==
  ASSUME lost_ticks \in Nat, NEW base \in Timebases, NEW n \in Nat, Keeps(base, n),
         NEW t \in Nat, base.last <= t
  PROVE  /\ Now(base, t) \in Timebases
         /\ Keeps(Now(base, t), n + 1)
         /\ Now(base, t).last = t + lost_ticks
         /\ base.elapsed_us <= Now(base, t).elapsed_us
         /\ Reads(Now(base, t).elapsed_us, Now(base, t).remainder, n, t)
<1> DEFINE total == base.remainder + (t - base.last)
           q == total \div TicksPerUs
           r == total % TicksPerUs
           b == Now(base, t)
<1>1. /\ base.last \in Nat /\ base.elapsed_us \in Nat
      /\ base.remainder \in 0 .. TicksPerUs - 1 /\ TicksPerUs \in Nat \ {0}
  BY TimingConstants DEF Timebases
<1>2. total \in Nat
  BY <1>1
<1>3. /\ b.last = t + lost_ticks /\ b.remainder = r /\ b.elapsed_us = base.elapsed_us + q
      /\ b = [last |-> b.last, remainder |-> b.remainder, elapsed_us |-> b.elapsed_us]
  BY DEF Now
<1>4. total = base.remainder + (t - base.last)
  OBVIOUS
<1>5. q \in Int /\ r \in 0 .. TicksPerUs - 1 /\ total = q * TicksPerUs + r
  <2> HIDE DEF total
  <2> QED
    BY <1>1, <1>2, DivMod
<1> HIDE DEF total, q, r, b
<1>6. q \in Nat
  <2>1. q * TicksPerUs \in Int /\ (q + 1) * TicksPerUs = q * TicksPerUs + 1 * TicksPerUs
    BY <1>1, <1>5, Products
  <2>2. (q + 1) * TicksPerUs > 0
    BY <1>1, <1>2, <1>5, <2>1
  <2>3. q + 1 > 0
    BY <1>1, <1>5, <2>2, Products
  <2> QED
    BY <1>5, <2>3
<1>7. b \in Timebases
  BY <1>1, <1>3, <1>5, <1>6 DEF Timebases
<1>8. /\ b.elapsed_us * TicksPerUs = base.elapsed_us * TicksPerUs + q * TicksPerUs
      /\ base.elapsed_us * TicksPerUs \in Int /\ q * TicksPerUs \in Int
      /\ b.elapsed_us * TicksPerUs \in Int
  <2>1. /\ (base.elapsed_us + q) * TicksPerUs
             = base.elapsed_us * TicksPerUs + q * TicksPerUs
        /\ base.elapsed_us * TicksPerUs \in Int /\ q * TicksPerUs \in Int
    BY <1>1, <1>6, Products
  <2> QED
    BY <1>3, <2>1
<1>9. (n + 1) * lost_ticks = n * lost_ticks + 1 * lost_ticks /\ n * lost_ticks \in Int
  BY Products
<1>10. base.elapsed_us * TicksPerUs + base.remainder + n * lost_ticks = base.last
  BY DEF Keeps, Reads
<1>11. b.elapsed_us * TicksPerUs + b.remainder + n * lost_ticks = t
  <2> DEFINE P == base.elapsed_us * TicksPerUs
             Q == q * TicksPerUs
             E == b.elapsed_us * TicksPerUs
             L == n * lost_ticks
  <2>1. /\ P \in Int /\ Q \in Int /\ E \in Int /\ L \in Int /\ E = P + Q
        /\ total = Q + r /\ P + base.remainder + L = base.last /\ b.remainder = r
    BY <1>3, <1>5, <1>8, <1>9, <1>10
  <2> HIDE DEF P, Q, E, L
  <2>2. E + b.remainder + L = t
    BY <1>1, <1>4, <1>5, <2>1
  <2> QED
    BY <2>2 DEF E, L
<1>12. b.elapsed_us * TicksPerUs + b.remainder + (n + 1) * lost_ticks = t + lost_ticks
  <2>1. b.elapsed_us * TicksPerUs \in Int /\ b.remainder \in Int
    BY <1>1, <1>3, <1>5, <1>8
  <2> QED
    BY <1>9, <1>11, <2>1
<1> QED
  BY <1>1, <1>3, <1>6, <1>7, <1>11, <1>12 DEF Keeps, Reads, b

(* The quotient is the only one.                                           *)
LEMMA DivUnique ==
  ASSUME NEW q \in Int, NEW r \in Int, NEW b \in Nat \ {0}, 0 <= r, r < b
  PROVE  (q * b + r) \div b = q
<1> DEFINE a == q * b + r
           p == a \div b
           s == a % b
<1>1. q * b \in Int /\ a \in Int
  BY Products
<1>2. p \in Int /\ s \in 0 .. b - 1 /\ a = p * b + s
  BY <1>1, DivMod
<1>3. a = q * b + r
  OBVIOUS
<1> HIDE DEF a, p, s
<1>4. /\ (q - p) * b = q * b - p * b /\ (p - q) * b = p * b - q * b
      /\ (q - p + 1) * b = (q - p) * b + 1 * b /\ (p - q + 1) * b = (p - q) * b + 1 * b
      /\ p * b \in Int /\ (q - p) * b \in Int /\ (p - q) * b \in Int
  BY <1>2, Products
<1>5. (q - p + 1) * b > 0 /\ (p - q + 1) * b > 0
  BY <1>1, <1>2, <1>3, <1>4
<1>6. q - p + 1 > 0 /\ p - q + 1 > 0
  BY <1>2, <1>5, Products
<1>7. p = q
  BY <1>2, <1>6
<1> QED
  BY <1>7 DEF p, a

(* An interval that is off by less than half a period is counted exactly.  *)
LEMMA RoundedPeriods ==
  ASSUME NEW us \in Nat, NEW m \in Nat \ {0},
         2 * (us * TicksPerUs - m * TickPeriod) < TickPeriod,
         2 * (m * TickPeriod - us * TicksPerUs) < TickPeriod
  PROVE  ObservedPeriods(us) = m
<1> DEFINE T == TicksPerUs
           EP == ExpectedPeriod
           h == EP \div 2
           d == us - m * EP
<1>1. T \in Nat \ {0} /\ EP \in Nat \ {0} /\ TickPeriod = EP * T
  BY TimingConstants
<1> HIDE DEF EP, T
<1>2. h \in Int /\ (EP = 2 * h \/ EP = 2 * h + 1)
  BY <1>1, SMT
<1>3. m * EP \in Int /\ d \in Int
  BY <1>1, Products
<1>4. m * TickPeriod = (m * EP) * T
  BY <1>1, SMT
<1>5. d * T = us * T - m * TickPeriod /\ d * T \in Int /\ EP * T \in Int
      /\ us * T \in Int /\ m * TickPeriod \in Int
  <2>1. (us - m * EP) * T = us * T - (m * EP) * T
    BY <1>1, <1>3, Products
  <2>2. (m * EP) * T \in Int
    BY <1>1, <1>3, Products
  <2> QED
    BY <1>1, <1>3, <1>4, <2>1, <2>2, Products
<1> HIDE DEF d
<1>6. 2 * (d * T) < EP * T /\ 0 - EP * T < 2 * (d * T)
  BY <1>1, <1>5 DEF T
<1>7. (EP - 2 * d) * T > 0 /\ (EP + 2 * d) * T > 0
  <2>1. (2 * d) * T = 2 * (d * T)
    BY <1>1, <1>3, SMT
  <2>2. (EP - 2 * d) * T = EP * T - (2 * d) * T /\ (EP + 2 * d) * T = EP * T + (2 * d) * T
    BY <1>1, <1>3, Products
  <2> QED
    BY <1>5, <1>6, <2>1, <2>2
<1>8. EP - 2 * d > 0 /\ EP + 2 * d > 0
  BY <1>1, <1>3, <1>7, Products
<1> DEFINE r == d + h
<1>9. r \in Int /\ 0 <= r /\ r < EP
  BY <1>1, <1>2, <1>3, <1>8
<1>10. us + h = m * EP + r
  BY <1>2, <1>3 DEF d
<1> HIDE DEF h, r
<1>11. (m * EP + r) \div EP = m
  BY <1>1, <1>9, DivUnique
<1>12. (us + h) \div EP = m
  BY <1>10, <1>11
<1> QED
  BY <1>12 DEF ObservedPeriods, Largest, EP, h

(* However large, an interval counts for at least one period.              *)
LEMMA ObservedType ==
  ASSUME NEW us \in Nat
  PROVE  ObservedPeriods(us) \in Nat \ {0}
<1> DEFINE h == ExpectedPeriod \div 2
           x == (us + h) \div ExpectedPeriod
<1>1. h \in Int
  BY TimingConstants, DivMod, SMT
<1> HIDE DEF h
<1>2. us + h \in Int
  BY <1>1
<1>3. x \in Int
  BY <1>2, TimingConstants, DivMod
<1> HIDE DEF x
<1>4. Largest(1, x) \in Nat \ {0}
  BY <1>3 DEF Largest
<1> QED
  BY <1>4 DEF ObservedPeriods, x, h

(* The update that a pass takes, and when it was raised.                   *)
LEMMA TakenUpdate ==
  ASSUME TimingInv, TakeUpdate
  PROVE  /\ AdmissionTime \in Nat /\ loop_clock <= AdmissionTime
         /\ update' \in Nat /\ update < update'
         /\ AdmissionTime % TickPeriod \in Nat
         /\ AdmissionTime = update' * TickPeriod + (AdmissionTime % TickPeriod)
         /\ evidence.last_admitted = None => update' = 1
<1> DEFINE A == AdmissionTime
           f == A % TickPeriod
           u == A \div TickPeriod
<1>1. /\ loop_clock \in Nat /\ update \in Nat /\ TickPeriod \in Nat \ {0}
      /\ update' = u
  BY TimingConstants DEF TimingInv, TakeUpdate
<1>2. NextUpdateAt \in Nat /\ NextUpdateAt = (update + 1) * TickPeriod
  <2>1. (update + 1) * TickPeriod \in Nat
    BY <1>1, SMT
  <2> QED
    BY <2>1 DEF NextUpdateAt
<1>3. A \in Nat /\ loop_clock <= A /\ NextUpdateAt <= A
      /\ (loop_clock = 0 => A = NextUpdateAt)
  BY <1>1, <1>2 DEF AdmissionTime, Largest
<1> HIDE DEF A
<1>4. u \in Int /\ f \in 0 .. TickPeriod - 1 /\ A = u * TickPeriod + f
  BY <1>1, <1>3, DivMod
<1> HIDE DEF u, f
<1>5. update < u
  <2>1. /\ (u - update) * TickPeriod = u * TickPeriod - update * TickPeriod
        /\ (update + 1) * TickPeriod = update * TickPeriod + 1 * TickPeriod
        /\ u * TickPeriod \in Int /\ update * TickPeriod \in Int
        /\ (u - update) * TickPeriod \in Int
    BY <1>1, <1>4, Products
  <2>2. (u - update) * TickPeriod > 0
    BY <1>1, <1>2, <1>3, <1>4, <2>1
  <2> QED
    BY <1>1, <1>4, <2>2, Products
<1>6. evidence.last_admitted = None => u = 1
  <2> SUFFICES ASSUME evidence.last_admitted = None PROVE u = 1
    OBVIOUS
  <2>1. update = 0 /\ loop_clock = 0
    BY DEF TimingInv, AdmissionInv
  <2>2. A = 1 * TickPeriod + 0
    BY <1>1, <1>2, <1>3, <2>1
  <2>3. (1 * TickPeriod + 0) \div TickPeriod = 1
    BY <1>1, DivUnique
  <2> QED
    BY <2>2, <2>3 DEF u
<1> QED
  BY <1>1, <1>3, <1>4, <1>5, <1>6 DEF A, u, f

(* What an admission adds to the evidence.                                 *)
LEMMA AdmittedParts ==
  ASSUME TimingInv, NEW base \in Timebases, NEW phase \in Nat,
         evidence.last_admitted # None => evidence.last_admitted <= base.elapsed_us
  PROVE  LET e == ObserveAdmission(evidence, base.elapsed_us, phase)
         IN  /\ e \in EvidenceType
             /\ e.admissions = evidence.admissions + 1
             /\ e.adc_errors = evidence.adc_errors
             /\ e.last_admitted = base.elapsed_us
             /\ e.max_phase = Largest(evidence.max_phase, phase)
             /\ evidence.last_admitted = None => e.missed = evidence.missed
             /\ evidence.last_admitted # None =>
                  e.missed = evidence.missed
                    + ObservedPeriods(base.elapsed_us - evidence.last_admitted) - 1
<1> DEFINE gap == SaturatingSub(base.elapsed_us, evidence.last_admitted)
           more == IF evidence.last_admitted = None THEN 0 ELSE ObservedPeriods(gap) - 1
           e == ObserveAdmission(evidence, base.elapsed_us, phase)
<1>1. evidence \in EvidenceType /\ base.elapsed_us \in Nat
  BY DEF TimingInv, Timebases
<1>2. evidence.last_admitted # None =>
        gap = base.elapsed_us - evidence.last_admitted /\ gap \in Nat
  BY <1>1 DEF EvidenceType, SaturatingSub
<1> HIDE DEF gap
<1>3. more \in Nat
  BY <1>2, ObservedType
<1>4. Largest(evidence.max_phase, phase) \in Nat
  BY <1>1 DEF Largest, EvidenceType
<1>5. e = [evidence EXCEPT !.admissions = @ + 1,
                           !.max_phase = Largest(evidence.max_phase, phase),
                           !.missed = @ + more,
                           !.last_admitted = base.elapsed_us]
  BY DEF ObserveAdmission, gap
<1> HIDE DEF e, more
<1>6. /\ e \in EvidenceType /\ e.admissions = evidence.admissions + 1
      /\ e.adc_errors = evidence.adc_errors /\ e.last_admitted = base.elapsed_us
      /\ e.max_phase = Largest(evidence.max_phase, phase)
      /\ e.missed = evidence.missed + more
  <2>1. /\ evidence.admissions + 1 \in Nat /\ evidence.missed + more \in Nat
        /\ base.elapsed_us \in Nat \cup {None}
    BY <1>1, <1>3 DEF EvidenceType
  <2> DEFINE a == evidence.admissions + 1
             p == Largest(evidence.max_phase, phase)
             m == evidence.missed + more
             l == base.elapsed_us
  <2>2. e = [evidence EXCEPT !.admissions = a, !.max_phase = p, !.missed = m,
                             !.last_admitted = l]
    BY <1>5
  <2>3. a \in Nat /\ p \in Nat /\ m \in Nat /\ l \in Nat \cup {None}
    BY <1>4, <2>1
  <2> HIDE DEF a, p, m, l
  <2>4. /\ e \in EvidenceType /\ e.admissions = a /\ e.max_phase = p /\ e.missed = m
        /\ e.last_admitted = l /\ e.adc_errors = evidence.adc_errors
    BY <1>1, <2>2, <2>3 DEF EvidenceType
  <2> QED
    BY <2>4 DEF a, p, m, l
<1>7. evidence.missed \in Nat
  BY <1>1 DEF EvidenceType
<1>8. /\ evidence.last_admitted = None => e.missed = evidence.missed
      /\ evidence.last_admitted # None =>
           e.missed = evidence.missed
             + ObservedPeriods(base.elapsed_us - evidence.last_admitted) - 1
  <2>1. CASE evidence.last_admitted = None
    BY <1>6, <1>7, <2>1 DEF more
  <2>2. CASE evidence.last_admitted # None
    <3>1. more = ObservedPeriods(base.elapsed_us - evidence.last_admitted) - 1
      BY <1>2, <2>2 DEF more
    <3>2. ObservedPeriods(base.elapsed_us - evidence.last_admitted) \in Nat
      BY <1>2, <2>2, ObservedType
    <3> QED
      BY <1>6, <1>7, <2>2, <3>1, <3>2
  <2> QED
    BY <2>1, <2>2
<1> QED
  BY <1>6, <1>8 DEF e

(* Two admissions: of update u at microsecond us, its phase f, and of the  *)
(* later v at vs; n and k readings went before them, r and s are rests.    *)
TwoAdmissions(us, r, n, u, f, vs, s, k, v, g, bound) ==
  /\ us \in Nat /\ vs \in Nat /\ us <= vs
  /\ u \in Nat /\ v \in Nat /\ u < v
  /\ n \in Int /\ k \in {n + 1, n + 2}
  /\ r \in 0 .. TicksPerUs - 1 /\ s \in 0 .. TicksPerUs - 1
  /\ bound \in Nat /\ f \in Nat /\ f < bound /\ g \in Nat /\ g < bound
  /\ Reads(us, r, n, u * TickPeriod + f) /\ Reads(vs, s, k, v * TickPeriod + g)

(* When their phases are small enough they are a whole number of periods   *)
(* apart on the loop's own clock, to the nearest one.                      *)
LEMMA AdmissionsApart ==
  ASSUME lost_ticks \in Nat, NEW us, NEW r, NEW n, NEW u, NEW f, NEW vs, NEW s, NEW k,
         NEW v, NEW g, NEW bound, TwoAdmissions(us, r, n, u, f, vs, s, k, v, g, bound),
         2 * (bound + TicksPerUs + 2 * lost_ticks) <= TickPeriod
  PROVE  ObservedPeriods(vs - us) = v - u
<1> USE DEF TwoAdmissions
<1> DEFINE U == us * TicksPerUs
           V == vs * TicksPerUs
           N == n * lost_ticks
           K == k * lost_ticks
           P == u * TickPeriod
           Q == v * TickPeriod
           L == lost_ticks
<1>1. TicksPerUs \in Nat \ {0} /\ TickPeriod \in Nat \ {0}
  BY TimingConstants
<1>2. U + r + N = P + f /\ V + s + K = Q + g
  BY DEF Reads
<1>3. /\ U \in Int /\ V \in Int /\ N \in Int /\ K \in Int /\ P \in Int /\ Q \in Int
      /\ (vs - us) * TicksPerUs = V - U /\ (v - u) * TickPeriod = Q - P
  BY <1>1, Products
<1>4. K = N + L \/ K = N + 2 * L
  <2>1. (n + 1) * lost_ticks = N + 1 * lost_ticks /\ (n + 2) * lost_ticks = N + 2 * lost_ticks
    BY Products
  <2> QED
    BY <2>1
<1>5. L \in Nat /\ 2 * (bound + TicksPerUs + 2 * L) <= TickPeriod
  OBVIOUS
<1> HIDE DEF U, V, N, K, P, Q, L
<1>6. /\ 2 * ((V - U) - (Q - P)) < TickPeriod
      /\ 2 * ((Q - P) - (V - U)) < TickPeriod
  BY <1>1, <1>2, <1>3, <1>4, <1>5
<1>7. vs - us \in Nat /\ v - u \in Nat \ {0}
  OBVIOUS
<1> QED
  BY <1>3, <1>6, <1>7, RoundedPeriods

(* How often the timebase has been read.                                   *)
LEMMA ReadingsType == TimingInv => Readings \in Nat /\ evidence.admissions \in Nat
BY DEF TimingInv, EvidenceType, Readings

(* An admission is recorded with a phase that bounds its lateness, and the *)
(* updates inferred as missed since the last one are those that were.      *)
LEMMA AdmissionStep ==
  ASSUME TimingInv, TakeUpdate
  PROVE  LET entry == Now(timebase, AdmissionTime)
             e == Admitted(entry)
         IN  /\ AdmissionTime \in Nat /\ loop_clock <= AdmissionTime /\ update' \in Nat
             /\ entry \in Timebases /\ Keeps(entry, Readings + 1)
             /\ entry.last = AdmissionTime + lost_ticks
             /\ timebase.elapsed_us <= entry.elapsed_us
             /\ e \in EvidenceType /\ e.admissions = evidence.admissions + 1
             /\ e.adc_errors = evidence.adc_errors
             /\ e.last_admitted = entry.elapsed_us
             /\ AdmittedAt(e, update', Readings) /\ Exact(e, update')
<1> DEFINE A == AdmissionTime
           entry == Now(timebase, A)
           f == A % TickPeriod
           phase == f \div TicksPerUs
           e == Admitted(entry)
<1>1. /\ A \in Nat /\ loop_clock <= A /\ update' \in Nat /\ update < update'
      /\ f \in Nat /\ A = update' * TickPeriod + f
      /\ evidence.last_admitted = None => update' = 1
  BY TakenUpdate
<1>2. /\ timebase \in Timebases /\ timebase.last <= A /\ lost_ticks \in Nat
      /\ Keeps(timebase, Readings) /\ Readings \in Nat /\ update \in Nat
      /\ timebase.last \in Nat /\ evidence \in EvidenceType
      /\ TicksPerUs \in Nat \ {0} /\ timebase.elapsed_us \in Nat
  BY <1>1, ReadingsType, TimingConstants DEF TimingInv, Timebases
<1> HIDE DEF A
<1>3. /\ entry \in Timebases /\ Keeps(entry, Readings + 1)
      /\ entry.last = A + lost_ticks
      /\ timebase.elapsed_us <= entry.elapsed_us
      /\ Reads(entry.elapsed_us, entry.remainder, Readings, A)
  BY <1>1, <1>2, NowReads
<1> HIDE DEF f, entry
<1>4. phase \in Nat /\ f < (phase + 1) * TicksPerUs
  <2>1. phase \in Int /\ f % TicksPerUs \in 0 .. TicksPerUs - 1
        /\ f = phase * TicksPerUs + (f % TicksPerUs)
    <3>1. f \in Int /\ TicksPerUs \in Nat \ {0}
      BY <1>1, <1>2
    <3> QED
      BY <3>1, DivMod
  <2> HIDE DEF phase
  <2>2. (phase + 1) * TicksPerUs = phase * TicksPerUs + 1 * TicksPerUs
        /\ phase * TicksPerUs \in Int /\ (phase + 1) * TicksPerUs \in Int
    BY <1>2, <2>1, Products
  <2>3. (phase + 1) * TicksPerUs > 0 /\ f < (phase + 1) * TicksPerUs
    BY <1>1, <1>2, <2>1, <2>2
  <2>4. phase + 1 > 0
    BY <1>2, <2>1, <2>3, Products
  <2> QED
    BY <2>1, <2>3, <2>4
<1> HIDE DEF phase
<1>5. evidence.last_admitted # None => /\ evidence.last_admitted <= timebase.elapsed_us
                                       /\ evidence.last_admitted \in Nat
  BY <1>2 DEF TimingInv, AdmissionInv, EvidenceType
<1>6. entry.elapsed_us \in Nat /\ entry.remainder \in 0 .. TicksPerUs - 1
  BY <1>3 DEF Timebases
<1>7. /\ e \in EvidenceType /\ e.admissions = evidence.admissions + 1
      /\ e.adc_errors = evidence.adc_errors /\ e.last_admitted = entry.elapsed_us
      /\ e.max_phase = Largest(evidence.max_phase, phase)
      /\ evidence.last_admitted = None => e.missed = evidence.missed
      /\ evidence.last_admitted # None =>
           e.missed = evidence.missed
             + ObservedPeriods(entry.elapsed_us - evidence.last_admitted) - 1
  <2>1. evidence.last_admitted # None => evidence.last_admitted <= entry.elapsed_us
    BY <1>2, <1>3, <1>5, <1>6
  <2>2. e = ObserveAdmission(evidence, entry.elapsed_us, phase)
    BY DEF Admitted, phase, f, A
  <2> HIDE DEF e
  <2> QED
    BY <1>3, <1>4, <2>1, <2>2, AdmittedParts
<1> HIDE DEF e
<1>8. /\ evidence.max_phase \in Nat /\ e.max_phase \in Nat /\ evidence.missed \in Nat
      /\ evidence.admissions \in Nat /\ phase <= e.max_phase
      /\ evidence.max_phase <= e.max_phase
  BY <1>2, <1>4, <1>7 DEF EvidenceType, Largest
<1>9. /\ f < (e.max_phase + 1) * TicksPerUs
      /\ (evidence.max_phase + 1) * TicksPerUs <= (e.max_phase + 1) * TicksPerUs
      /\ (evidence.max_phase + 2) * TicksPerUs <= (e.max_phase + 2) * TicksPerUs
  <2>1. /\ (phase + 1) * TicksPerUs <= (e.max_phase + 1) * TicksPerUs
        /\ (evidence.max_phase + 1) * TicksPerUs <= (e.max_phase + 1) * TicksPerUs
        /\ (evidence.max_phase + 2) * TicksPerUs <= (e.max_phase + 2) * TicksPerUs
    BY <1>2, <1>4, <1>8, Products
  <2>2. (phase + 1) * TicksPerUs \in Int /\ (e.max_phase + 1) * TicksPerUs \in Int
    BY <1>2, <1>4, <1>8, Products
  <2> QED
    BY <1>1, <1>4, <2>1, <2>2
<1>10. AdmittedAt(e, update', Readings)
  BY <1>1, <1>3, <1>6, <1>7, <1>9 DEF AdmittedAt
<1>11. Exact(e, update')
  <2> SUFFICES ASSUME Sharp(e) PROVE e.admissions + e.missed = update'
    BY DEF Exact
  <2>1. CASE evidence.last_admitted = None
    <3>1. evidence.admissions = 0 /\ evidence.missed = 0
      BY <2>1 DEF TimingInv, AdmissionInv
    <3> QED
      BY <1>1, <1>7, <2>1, <3>1
  <2>2. CASE evidence.last_admitted # None
    <3> DEFINE bound == (e.max_phase + 1) * TicksPerUs
    <3>1. PICK n \in {Readings - 1, Readings - 2} : AdmittedAt(evidence, update, n)
      BY <2>2 DEF TimingInv, AdmissionInv
    <3>2. PICK rest \in 0 .. TicksPerUs - 1, phase_ticks \in Nat :
            /\ Reads(evidence.last_admitted, rest, n, update * TickPeriod + phase_ticks)
            /\ phase_ticks < (evidence.max_phase + 1) * TicksPerUs
      BY <3>1 DEF AdmittedAt
    <3>3. bound \in Nat /\ 2 * (bound + TicksPerUs + 2 * lost_ticks) <= TickPeriod
      <4>1. /\ (e.max_phase + 1) * TicksPerUs = e.max_phase * TicksPerUs + 1 * TicksPerUs
            /\ (e.max_phase + 2) * TicksPerUs = e.max_phase * TicksPerUs + 2 * TicksPerUs
            /\ e.max_phase * TicksPerUs \in Int
        BY <1>2, <1>8, Products
      <4>2. bound \in Int /\ 0 <= bound
        BY <1>1, <1>2, <1>9, <4>1
      <4> QED
        BY <1>2, <4>1, <4>2 DEF Sharp
    <3>4. f < bound /\ phase_ticks < bound
      <4>1. (evidence.max_phase + 1) * TicksPerUs \in Int /\ bound \in Int
        BY <1>2, <1>8, Products
      <4> QED
        BY <1>9, <3>2, <4>1
    <3>5. Readings \in {n + 1, n + 2} /\ n \in Int
      BY <1>2, <3>1
    <3> HIDE DEF bound
    <3>6. evidence.last_admitted <= entry.elapsed_us /\ evidence.last_admitted \in Nat
      BY <1>2, <1>3, <1>5, <1>6, <2>2
    <3>7. Reads(entry.elapsed_us, entry.remainder, Readings, update' * TickPeriod + f)
      BY <1>1, <1>3
    <3>8. ObservedPeriods(entry.elapsed_us - evidence.last_admitted) = update' - update
      <4>1. /\ lost_ticks \in Nat /\ update \in Nat /\ update' \in Nat
            /\ update < update' /\ f \in Nat /\ entry.elapsed_us \in Nat
            /\ entry.remainder \in 0 .. TicksPerUs - 1
        BY <1>1, <1>2, <1>6
      <4>2. TwoAdmissions(evidence.last_admitted, rest, n, update, phase_ticks,
                          entry.elapsed_us, entry.remainder, Readings, update', f, bound)
        BY <3>2, <3>3, <3>4, <3>5, <3>6, <3>7, <4>1 DEF TwoAdmissions
      <4> QED
        BY <3>3, <4>1, <4>2, AdmissionsApart
    <3>9. evidence.admissions + evidence.missed = update
      <4>1. Sharp(evidence)
        <5>1. (evidence.max_phase + 2) * TicksPerUs \in Int
              /\ (e.max_phase + 2) * TicksPerUs \in Int
          BY <1>2, <1>8, Products
        <5> QED
          BY <1>2, <1>9, <5>1, TimingConstants DEF Sharp
      <4> QED
        BY <4>1 DEF TimingInv, Exact
    <3> QED
      BY <1>1, <1>2, <1>7, <1>8, <2>2, <3>8, <3>9
  <2> QED
    BY <2>1, <2>2
<1> QED
  BY <1>1, <1>2, <1>3, <1>7, <1>10, <1>11 DEF e, entry, A

(* The rest of a pass only adds to counters of its own.                    *)
SameAdmissions(e, d) ==
  /\ d \in EvidenceType
  /\ d.admissions = e.admissions /\ d.missed = e.missed
  /\ d.last_admitted = e.last_admitted /\ d.max_phase = e.max_phase

(* Whatever it adds to, the admissions stay as they were.                  *)
LEMMA CountersOfAPass ==
  ASSUME NEW e \in EvidenceType
  PROVE  /\ \A elapsed : SameAdmissions(e, FinishCycle(e, elapsed))
                           /\ FinishCycle(e, elapsed).adc_errors = e.adc_errors
         /\ \A timing : SameAdmissions(e, ObserveHealth(e, timing))
                          /\ ObserveHealth(e, timing).adc_errors = e.adc_errors
         /\ SameAdmissions(e, [e EXCEPT !.adc_errors = @ + 1])
         /\ [e EXCEPT !.adc_errors = @ + 1].adc_errors = e.adc_errors + 1
         /\ \A succeeds : LET d == [e EXCEPT !.runtime_errors =
                                      @ + IF succeeds THEN 0 ELSE 1]
                          IN  SameAdmissions(e, d) /\ d.adc_errors = e.adc_errors
<1>1. \A b : (IF b THEN 1 ELSE 0) \in Nat /\ (IF b THEN 0 ELSE 1) \in Nat
  OBVIOUS
<1>2. /\ e.overruns \in Nat /\ e.late \in Nat /\ e.timeouts \in Nat /\ e.adc_errors \in Nat
      /\ e.runtime_errors \in Nat
  BY DEF EvidenceType
<1>3. \A x \in Nat : /\ SameAdmissions(e, [e EXCEPT !.overruns = x])
                     /\ [e EXCEPT !.overruns = x].adc_errors = e.adc_errors
                     /\ SameAdmissions(e, [e EXCEPT !.runtime_errors = x])
                     /\ [e EXCEPT !.runtime_errors = x].adc_errors = e.adc_errors
                     /\ SameAdmissions(e, [e EXCEPT !.adc_errors = x])
                     /\ [e EXCEPT !.adc_errors = x].adc_errors = x
  BY DEF EvidenceType, SameAdmissions
<1>4. \A x, y \in Nat : /\ SameAdmissions(e, [e EXCEPT !.late = x, !.timeouts = y])
                        /\ [e EXCEPT !.late = x, !.timeouts = y].adc_errors = e.adc_errors
  BY DEF EvidenceType, SameAdmissions
<1>5. \A elapsed : SameAdmissions(e, FinishCycle(e, elapsed))
                     /\ FinishCycle(e, elapsed).adc_errors = e.adc_errors
  <2> TAKE elapsed
  <2> DEFINE x == e.overruns +
       IF (elapsed + TicksPerUs - 1) \div TicksPerUs > ExpectedPeriod THEN 1 ELSE 0
  <2>1. x \in Nat /\ FinishCycle(e, elapsed) = [e EXCEPT !.overruns = x]
    BY <1>1, <1>2 DEF FinishCycle
  <2> HIDE DEF x
  <2> QED
    BY <1>3, <2>1
<1>6. \A timing : SameAdmissions(e, ObserveHealth(e, timing))
                    /\ ObserveHealth(e, timing).adc_errors = e.adc_errors
  <2> TAKE timing
  <2> DEFINE x == e.late + IF timing = "Late" THEN 1 ELSE 0
             y == e.timeouts + IF timing = "Timeout" THEN 1 ELSE 0
  <2>1. x \in Nat /\ y \in Nat
    BY <1>1, <1>2
  <2>2. ObserveHealth(e, timing) = [e EXCEPT !.late = x, !.timeouts = y]
    BY DEF ObserveHealth
  <2> HIDE DEF x, y
  <2>3. /\ SameAdmissions(e, [e EXCEPT !.late = x, !.timeouts = y])
        /\ [e EXCEPT !.late = x, !.timeouts = y].adc_errors = e.adc_errors
    BY <2>1 DEF EvidenceType, SameAdmissions
  <2> QED
    BY <2>2, <2>3
<1>7. /\ SameAdmissions(e, [e EXCEPT !.adc_errors = @ + 1])
      /\ [e EXCEPT !.adc_errors = @ + 1].adc_errors = e.adc_errors + 1
  <2>1. e.adc_errors + 1 \in Nat
    BY <1>2
  <2> QED
    BY <1>3, <2>1
<1>8. \A succeeds : LET d == [e EXCEPT !.runtime_errors = @ + IF succeeds THEN 0 ELSE 1]
                    IN  SameAdmissions(e, d) /\ d.adc_errors = e.adc_errors
  <2> TAKE succeeds
  <2>1. e.runtime_errors + (IF succeeds THEN 0 ELSE 1) \in Nat
    BY <1>1, <1>2
  <2> QED
    BY <1>3, <2>1
<1> QED
  BY <1>5, <1>6, <1>7, <1>8

(* The microseconds between two readings, against the true time between    *)
(* them: late by less than a microsecond, short by less than one and the   *)
(* ticks the readings in between lost.                                     *)
LEMMA GapIsHonest ==
  ASSUME lost_ticks \in Nat, NEW h \in [at : Int, readings : Nat], NEW us \in Nat,
         NEW r \in 0 .. TicksPerUs - 1, Reads(us, r, h.readings - 1, h.at),
         NEW here \in [at : Int, readings : Nat], NEW vs \in Nat, us <= vs,
         NEW s \in 0 .. TicksPerUs - 1, Reads(vs, s, here.readings - 1, here.at),
         h.readings <= here.readings
  PROVE  /\ Gap(h, here) # None
         /\ \A limit \in Nat :
              /\ vs - us >= limit => AtLeast(Gap(h, here), limit)
              /\ vs - us <= limit => AtMost(Gap(h, here), limit)
<1> DEFINE g == Gap(h, here)
           T == TicksPerUs
           m == h.readings
           n == here.readings
           U == us * T
           V == vs * T
           M == (m - 1) * lost_ticks
           N == (n - 1) * lost_ticks
           E == lost_ticks * (n - m)
<1>1. T \in Nat \ {0} /\ m \in Nat /\ n \in Nat /\ h.at \in Int /\ here.at \in Int
      /\ m <= n
  BY TimingConstants
<1>2. h # None
  BY TimingAssumption
<1>3. g = [time |-> here.at - h.at, readings |-> n - m]
  BY <1>2 DEF Gap
<1>4. g # None /\ g.time = here.at - h.at /\ g.readings = n - m
  <2>1. g \in [time : Int, readings : Int]
    BY <1>1, <1>3
  <2> QED
    BY <1>3, <2>1, TimingAssumption
<1> HIDE DEF g
<1>5. /\ U + r + M = h.at /\ V + s + N = here.at
  BY DEF Reads
<1>6. U \in Int /\ V \in Int /\ M \in Int /\ N \in Int /\ (vs - us) * T = V - U
  BY <1>1, Products
<1>7. E = N - M /\ E >= 0
  <2>1. (n - 1) * lost_ticks - (m - 1) * lost_ticks = (n - m) * lost_ticks
    <3>1. ((n - 1) - (m - 1)) * lost_ticks = (n - 1) * lost_ticks - (m - 1) * lost_ticks
      BY <1>1, Products
    <3>2. (n - 1) - (m - 1) = n - m
      BY <1>1
    <3> QED
      BY <3>1, <3>2
  <2>2. (n - m) * lost_ticks = E /\ 0 * lost_ticks <= (n - m) * lost_ticks
    BY <1>1, Products
  <2>3. 0 * lost_ticks = 0
    OBVIOUS
  <2> QED
    BY <1>6, <2>1, <2>2, <2>3
<1>8. ASSUME NEW limit \in Nat
      PROVE  /\ vs - us >= limit => AtLeast(g, limit)
             /\ vs - us <= limit => AtMost(g, limit)
  <2>1. /\ limit <= vs - us => limit * T <= (vs - us) * T
        /\ vs - us <= limit => (vs - us) * T <= limit * T
        /\ (limit - 1) * T = limit * T - 1 * T /\ (limit + 1) * T = limit * T + 1 * T
        /\ limit * T \in Int
    BY <1>1, Products
  <2> DEFINE W == limit * T
             W1 == (limit - 1) * T
             W2 == (limit + 1) * T
  <2>2. /\ limit <= vs - us => W <= V - U
        /\ vs - us <= limit => V - U <= W
        /\ W1 = W - T /\ W2 = W + T /\ W \in Int
    BY <1>1, <1>6, <2>1
  <2>3. E \in Int
    BY <1>6, <1>7
  <2> HIDE DEF U, V, M, N, E, W, W1, W2
  <2>4. /\ limit <= vs - us => here.at - h.at > W1
        /\ vs - us <= limit => here.at - h.at < W2 + E
    BY <1>1, <1>5, <1>6, <1>7, <2>2, <2>3
  <2>5. E = lost_ticks * g.readings
    BY <1>4 DEF E
  <2> QED
    BY <1>4, <2>4, <2>5 DEF AtLeast, AtMost, W1, W2
<1> QED
  BY <1>4, <1>8 DEF g

(* The timing monitor and the watchdog compare the same microseconds with  *)
(* their limits, so each is as honest as the gap it is about.              *)
LEMMA VerdictsOfAGap ==
  ASSUME lost_ticks \in Nat, timebase.elapsed_us \in Nat, NEW last, NEW h, Stamps(last, h),
         NEW vs \in Nat, timebase.elapsed_us <= vs, NEW s \in 0 .. TicksPerUs - 1,
         NEW here \in [at : Int, readings : Nat], Reads(vs, s, here.readings - 1, here.at),
         Readings \in Nat, Readings <= here.readings
  PROVE  LET timing == OnEvent(SupervisorLimits, last, vs)
             watchdog == WatchdogVerdict(WatchdogAfter, last, vs)
             gap == Gap(h, here)
         IN  /\ (timing = "Startup") = (gap = None)
             /\ timing = "Healthy" => AtMost(gap, LateAfter)
             /\ timing = "Late" => AtLeast(gap, LateAfter) /\ AtMost(gap, TimeoutAfter)
             /\ timing = "Timeout" => AtLeast(gap, TimeoutAfter)
             /\ (watchdog = "Disarmed") = (gap = None)
             /\ watchdog = "Healthy" => AtMost(gap, WatchdogAfter)
             /\ watchdog = "Expired" => AtLeast(gap, WatchdogAfter + 1)
<1> DEFINE timing == OnEvent(SupervisorLimits, last, vs)
           watchdog == WatchdogVerdict(WatchdogAfter, last, vs)
           gap == Gap(h, here)
<1>1. LateAfter \in Nat /\ TimeoutAfter \in Nat /\ WatchdogAfter \in Nat
  BY TimingAssumption
<1>2. CASE h = None
  <2>1. timing = "Startup" /\ watchdog = "Disarmed" /\ gap = None
    BY <1>2 DEF Stamps, OnEvent, WatchdogVerdict, Gap
  <2> QED
    BY <2>1
<1>3. CASE h # None
  <2>1. last # None /\ Stamp(last, h)
    BY <1>3 DEF Stamps
  <2>2. PICK r \in 0 .. TicksPerUs - 1 : Reads(last, r, h.readings - 1, h.at)
    BY <2>1 DEF Stamp
  <2>3. /\ last \in Nat /\ last <= vs /\ h \in [at : Int, readings : Nat]
        /\ h.readings <= here.readings
    BY <2>1 DEF Stamp
  <2>4. /\ gap # None
        /\ \A limit \in Nat : /\ vs - last >= limit => AtLeast(gap, limit)
                              /\ vs - last <= limit => AtMost(gap, limit)
    BY <2>2, <2>3, GapIsHonest
  <2>5. SaturatingSub(vs, last) = vs - last /\ vs - last \in Nat
    BY <2>3 DEF SaturatingSub
  <2> HIDE DEF gap
  <2>6. /\ timing # "Startup"
        /\ timing = "Healthy" => vs - last <= LateAfter
        /\ timing = "Late" => vs - last >= LateAfter /\ vs - last <= TimeoutAfter
        /\ timing = "Timeout" => vs - last >= TimeoutAfter
    BY <1>1, <2>1, <2>5 DEF OnEvent, ClassifyElapsed, SupervisorLimits
  <2>7. /\ watchdog # "Disarmed"
        /\ watchdog = "Healthy" => vs - last <= WatchdogAfter
        /\ watchdog = "Expired" => vs - last >= WatchdogAfter + 1
    BY <1>1, <2>1, <2>5 DEF WatchdogVerdict
  <2> HIDE DEF timing, watchdog
  <2>8. WatchdogAfter + 1 \in Nat
    BY <1>1
  <2>9. /\ timing = "Healthy" => AtMost(gap, LateAfter)
        /\ timing = "Late" => AtLeast(gap, LateAfter) /\ AtMost(gap, TimeoutAfter)
        /\ timing = "Timeout" => AtLeast(gap, TimeoutAfter)
        /\ watchdog = "Healthy" => AtMost(gap, WatchdogAfter)
        /\ watchdog = "Expired" => AtLeast(gap, WatchdogAfter + 1)
    BY <1>1, <2>4, <2>6, <2>7, <2>8
  <2> QED
    BY <2>4, <2>6, <2>7, <2>9 DEF timing, watchdog, gap
<1> QED
  BY <1>2, <1>3

(* What a pass must show: the counters are those of the admission, but for *)
(* the ones of its own, and its readings went on from the entry.           *)
PassFrom(entry, readings) ==
  /\ TakeUpdate /\ UNCHANGED lost_ticks
  /\ SameAdmissions(Admitted(entry), evidence')
  /\ evidence'.adc_errors \in {evidence.adc_errors, evidence.adc_errors + 1}
  /\ readings = 2 + evidence.adc_errors - evidence'.adc_errors
  /\ timebase' \in Timebases /\ entry.elapsed_us <= timebase'.elapsed_us
  /\ Keeps(timebase', Readings + readings)
  /\ loop_clock' \in Nat /\ timebase'.last <= loop_clock'

(* Then everything but the verdicts on the past holds after it.            *)
LEMMA PassKeepsEvidence ==
  ASSUME TimingInv, NEW readings, PassFrom(Now(timebase, AdmissionTime), readings)
  PROVE  /\ Readings' = Readings + readings /\ readings \in {1, 2}
         /\ timebase.elapsed_us <= timebase'.elapsed_us
         /\ loop_clock' \in Nat /\ update' \in Nat /\ lost_ticks' \in Nat
         /\ timebase' \in Timebases /\ timebase'.last <= loop_clock'
         /\ evidence' \in EvidenceType /\ evidence'.adc_errors <= evidence'.admissions
         /\ Keeps(timebase, Readings)'
         /\ AdmissionInv' /\ Exact(evidence, update)'
<1> DEFINE entry == Now(timebase, AdmissionTime)
           e == Admitted(entry)
<1> USE DEF PassFrom
<1>1. /\ update' \in Nat /\ entry \in Timebases
      /\ timebase.elapsed_us <= entry.elapsed_us
      /\ e \in EvidenceType /\ e.admissions = evidence.admissions + 1
      /\ e.adc_errors = evidence.adc_errors
      /\ e.last_admitted = entry.elapsed_us
      /\ AdmittedAt(e, update', Readings) /\ Exact(e, update')
  BY AdmissionStep
<1>2. SameAdmissions(e, evidence')
  OBVIOUS
<1> HIDE DEF e
<1>3. /\ evidence' \in EvidenceType /\ evidence'.admissions = evidence.admissions + 1
      /\ evidence'.missed = e.missed /\ evidence'.max_phase = e.max_phase
      /\ evidence'.last_admitted = entry.elapsed_us
  BY <1>1, <1>2 DEF SameAdmissions
<1>4. /\ evidence.admissions \in Nat /\ evidence.adc_errors \in Nat
      /\ evidence.adc_errors <= evidence.admissions /\ lost_ticks \in Nat
      /\ Readings \in Nat /\ Readings = 2 * evidence.admissions - evidence.adc_errors
  BY ReadingsType DEF TimingInv, EvidenceType, Readings
<1>5. Readings' = Readings + readings /\ readings \in {1, 2}
      /\ evidence'.adc_errors <= evidence'.admissions
  <2>1. Readings' = 2 * evidence'.admissions - evidence'.adc_errors
    BY DEF Readings
  <2> HIDE DEF entry
  <2> QED
    BY <1>3, <1>4, <2>1
<1>6. Keeps(timebase, Readings)'
  <2>1. Keeps(timebase', Readings')
    BY <1>5
  <2> QED
    BY <2>1 DEF Keeps, Reads
<1>7. timebase.elapsed_us <= timebase'.elapsed_us
  BY <1>1 DEF TimingInv, Timebases
<1>8. AdmissionInv'
  <2>1. evidence'.last_admitted # None /\ evidence'.last_admitted <= timebase'.elapsed_us
    BY <1>1, <1>3, NoneAssumption DEF Timebases
  <2>2. PICK n \in {Readings' - 1, Readings' - 2} : n = Readings
    BY <1>4, <1>5
  <2>3. AdmittedAt(evidence', update', n)
    BY <1>1, <1>3, <2>2 DEF AdmittedAt, Reads
  <2>4. AdmittedAt(evidence, update, n)'
    BY <2>3 DEF AdmittedAt, Reads
  <2> QED
    BY <2>1, <2>4 DEF AdmissionInv
<1>9. Exact(evidence, update)'
  BY <1>1, <1>3, <1>2 DEF Exact, Sharp, SameAdmissions
<1>10. lost_ticks' \in Nat
  BY <1>4
<1> QED
  BY <1>1, <1>3, <1>5, <1>6, <1>7, <1>8, <1>9, <1>10

(* What was stamped stays so while the timebase goes on.                   *)
LEMMA StampsLast ==
  ASSUME timebase \in Timebases, timebase' \in Timebases, UNCHANGED lost_ticks,
         timebase.elapsed_us <= timebase'.elapsed_us,
         Readings \in Nat, Readings' \in Nat, Readings <= Readings'
  PROVE  /\ Stamps(last_event, good) /\ UNCHANGED <<last_event, good>>
              => Stamps(last_event, good)'
         /\ Stamps(last_kick, success) /\ UNCHANGED <<last_kick, success>>
              => Stamps(last_kick, success)'
<1>1. ASSUME NEW us, NEW h, Stamp(us, h)
      PROVE  /\ us \in 0 .. timebase'.elapsed_us
             /\ h \in [at : Int, readings : Nat] /\ h.readings <= Readings'
             /\ \E rest \in 0 .. TicksPerUs - 1 : Reads(us, rest, h.readings - 1, h.at)
  BY <1>1 DEF Stamp, Timebases
<1>2. Stamps(last_event, good) /\ UNCHANGED <<last_event, good>>
        => Stamps(last_event, good)'
  BY <1>1 DEF Stamps, Stamp, Reads
<1>3. Stamps(last_kick, success) /\ UNCHANGED <<last_kick, success>>
        => Stamps(last_kick, success)'
  BY <1>1 DEF Stamps, Stamp, Reads
<1> QED
  BY <1>2, <1>3

(* A pass whose ADC read fails reads the timebase once, and leaves every   *)
(* verdict and stamp as it was.                                            *)
LEMMA AdcErrorInv ==
  ASSUME TimingInv, NEW acquire \in Nat, AdcError(acquire)
  PROVE  TimingInv'
<1> DEFINE entry == Now(timebase, AdmissionTime)
           e == Admitted(entry)
           d == [e EXCEPT !.adc_errors = @ + 1]
           elapsed == (entry.last + acquire) - AdmissionTime
<1>1. /\ TakeUpdate /\ timebase' = entry /\ evidence' = FinishCycle(d, elapsed)
      /\ loop_clock' = entry.last + acquire
      /\ UNCHANGED <<lost_ticks, last_event, last_kick, published, historyVars>>
  BY DEF AdcError
<1>2. /\ AdmissionTime \in Nat /\ entry \in Timebases /\ Keeps(entry, Readings + 1)
      /\ entry.last = AdmissionTime + lost_ticks
      /\ timebase.elapsed_us <= entry.elapsed_us
      /\ e \in EvidenceType /\ e.adc_errors = evidence.adc_errors
  BY <1>1, AdmissionStep
<1>3. SameAdmissions(e, d) /\ d.adc_errors = e.adc_errors + 1
  <2> HIDE DEF e
  <2> QED
    BY <1>2, CountersOfAPass
<1>4. SameAdmissions(d, FinishCycle(d, elapsed))
      /\ FinishCycle(d, elapsed).adc_errors = d.adc_errors
  <2>1. d \in EvidenceType
    BY <1>3 DEF SameAdmissions
  <2> HIDE DEF d, elapsed
  <2> QED
    BY <2>1, CountersOfAPass
<1> HIDE DEF d, elapsed
<1>5. /\ lost_ticks \in Nat /\ evidence.adc_errors \in Nat
      /\ Readings \in Nat /\ timebase \in Timebases
  BY ReadingsType DEF TimingInv, EvidenceType
<1>6. PassFrom(entry, 1)
  <2>1. SameAdmissions(e, evidence')
    BY <1>1, <1>3, <1>4 DEF SameAdmissions
  <2>2. evidence'.adc_errors = evidence.adc_errors + 1
    BY <1>1, <1>2, <1>3, <1>4
  <2>3. loop_clock' \in Nat /\ timebase'.last <= loop_clock'
    <3> HIDE DEF entry, e
    <3> QED
      BY <1>1, <1>2, <1>5
  <2>4. entry.elapsed_us <= timebase'.elapsed_us /\ timebase' \in Timebases
        /\ Keeps(timebase', Readings + 1)
    BY <1>1, <1>2 DEF Timebases
  <2>5. TakeUpdate /\ UNCHANGED lost_ticks /\ 1 = 2 + evidence.adc_errors - evidence'.adc_errors
    BY <1>1, <1>5, <2>2
  <2> QED
    BY <2>1, <2>2, <2>3, <2>4, <2>5 DEF PassFrom
<1> HIDE DEF e
<1>7. /\ Readings' = Readings + 1
      /\ timebase.elapsed_us <= timebase'.elapsed_us
      /\ loop_clock' \in Nat /\ update' \in Nat /\ lost_ticks' \in Nat
      /\ timebase' \in Timebases /\ timebase'.last <= loop_clock'
      /\ evidence' \in EvidenceType /\ evidence'.adc_errors <= evidence'.admissions
      /\ Keeps(timebase, Readings)'
      /\ AdmissionInv' /\ Exact(evidence, update)'
  BY <1>6, PassKeepsEvidence
<1> HIDE DEF entry
<1>8. Stamps(last_event, good)' /\ Stamps(last_kick, success)'
  <2>1. Readings' \in Nat /\ Readings <= Readings'
    BY <1>5, <1>7
  <2>2. Stamps(last_event, good) /\ Stamps(last_kick, success)
    BY DEF TimingInv
  <2>3. UNCHANGED <<last_event, good>> /\ UNCHANGED <<last_kick, success>> /\ UNCHANGED lost_ticks
    BY <1>1 DEF historyVars
  <2> QED
    BY <1>5, <1>7, <2>1, <2>2, <2>3, StampsLast
<1>9. HealthIsHonest'
  <2>1. HealthIsHonest
    BY DEF TimingInv
  <2>2. UNCHANGED <<published, sample_gap, step_gap, lost_ticks>>
    BY <1>1 DEF historyVars
  <2> QED
    BY <2>1, <2>2 DEF HealthIsHonest, AtLeast, AtMost
<1> QED
  BY <1>7, <1>8, <1>9 DEF TimingInv

(* A pass that samples reads it twice: its verdicts compare the second     *)
(* reading with the last stamps, and it leaves that reading as the next.   *)
LEMMA SamplePassInv ==
  ASSUME TimingInv, NEW acquire \in Nat, NEW step \in Nat, NEW background \in Nat,
         NEW succeeds \in BOOLEAN, SamplePass(acquire, step, background, succeeds)
  PROVE  TimingInv'
<1> DEFINE entry == Now(timebase, AdmissionTime)
           read_at == entry.last + acquire
           base == Now(entry, read_at)
           us == base.elapsed_us
           timing == OnEvent(SupervisorLimits, last_event, us)
           here == [at |-> read_at, readings |-> Readings + 2]
           e == Admitted(entry)
           d == [e EXCEPT !.runtime_errors = @ + IF succeeds THEN 0 ELSE 1]
           c == ObserveHealth(d, timing)
           elapsed == base.last + step - AdmissionTime
<1>1. /\ TakeUpdate /\ timebase' = base /\ evidence' = FinishCycle(c, elapsed)
      /\ last_event' = us
      /\ published' = [timing |-> timing,
                       watchdog |-> WatchdogVerdict(WatchdogAfter, last_kick, us)]
      /\ last_kick' = Kick(succeeds, us)
      /\ sample_gap' = Gap(good, here) /\ step_gap' = Gap(success, here)
      /\ good' = here /\ success' = (IF succeeds THEN here ELSE success)
      /\ loop_clock' = base.last + step + background
      /\ UNCHANGED lost_ticks
  BY DEF SamplePass
<1>2. /\ AdmissionTime \in Nat /\ entry \in Timebases /\ Keeps(entry, Readings + 1)
      /\ entry.last = AdmissionTime + lost_ticks
      /\ timebase.elapsed_us <= entry.elapsed_us
      /\ e \in EvidenceType /\ e.adc_errors = evidence.adc_errors
  BY <1>1, AdmissionStep
<1>3. SameAdmissions(e, d) /\ d.adc_errors = e.adc_errors
  <2> HIDE DEF e
  <2> QED
    BY <1>2, CountersOfAPass
<1>4. SameAdmissions(d, c) /\ c.adc_errors = d.adc_errors
  <2>1. d \in EvidenceType
    BY <1>3 DEF SameAdmissions
  <2> HIDE DEF d, timing
  <2> QED
    BY <2>1, CountersOfAPass
<1>5. SameAdmissions(c, FinishCycle(c, elapsed))
      /\ FinishCycle(c, elapsed).adc_errors = c.adc_errors
  <2>1. c \in EvidenceType
    BY <1>4 DEF SameAdmissions
  <2> HIDE DEF c, elapsed
  <2> QED
    BY <2>1, CountersOfAPass
<1>6. /\ lost_ticks \in Nat /\ evidence.adc_errors \in Nat
      /\ Readings \in Nat /\ timebase \in Timebases /\ timebase.elapsed_us \in Nat
  BY ReadingsType DEF TimingInv, EvidenceType, Timebases
<1> HIDE DEF c, d, e, elapsed, entry
<1>7. read_at \in Nat /\ entry.last <= read_at /\ Readings + 1 \in Nat
  BY <1>2, <1>6
<1> HIDE DEF read_at
<1>8. /\ base \in Timebases /\ Keeps(base, Readings + 2)
      /\ base.last = read_at + lost_ticks /\ entry.elapsed_us <= base.elapsed_us
      /\ Reads(us, base.remainder, Readings + 1, read_at)
  <2>1. Readings + 2 = (Readings + 1) + 1
    BY <1>6
  <2> QED
    BY <1>2, <1>6, <1>7, <2>1, NowReads
<1> HIDE DEF base
<1>9. PassFrom(entry, 2)
  <2>1. SameAdmissions(e, evidence') /\ evidence'.adc_errors = evidence.adc_errors
    <3>1. evidence'.adc_errors = evidence.adc_errors
      BY <1>1, <1>2, <1>3, <1>4, <1>5
    <3>2. SameAdmissions(e, evidence')
      BY <1>1, <1>3, <1>4, <1>5 DEF SameAdmissions
    <3> QED
      BY <3>1, <3>2
  <2>2. loop_clock' \in Nat /\ timebase'.last <= loop_clock'
    BY <1>1, <1>6, <1>7, <1>8
  <2>3. 2 = 2 + evidence.adc_errors - evidence'.adc_errors
    BY <1>6, <2>1
  <2>4. e = Admitted(entry)
    BY DEF e
  <2> QED
    BY <1>1, <1>8, <2>1, <2>2, <2>3, <2>4 DEF PassFrom
<1>10. /\ Readings' = Readings + 2
       /\ timebase.elapsed_us <= timebase'.elapsed_us
       /\ loop_clock' \in Nat /\ update' \in Nat /\ lost_ticks' \in Nat
       /\ timebase' \in Timebases /\ timebase'.last <= loop_clock'
       /\ evidence' \in EvidenceType /\ evidence'.adc_errors <= evidence'.admissions
       /\ Keeps(timebase, Readings)'
       /\ AdmissionInv' /\ Exact(evidence, update)'
  BY <1>9, PassKeepsEvidence DEF entry
<1>11. /\ here \in [at : Int, readings : Nat] /\ here.at = read_at
       /\ here.readings = Readings + 2
  BY <1>6, <1>7
<1> HIDE DEF here
<1>12. /\ us \in Nat /\ timebase.elapsed_us <= us /\ us = timebase'.elapsed_us
       /\ base.remainder \in 0 .. TicksPerUs - 1
       /\ Reads(us, base.remainder, here.readings - 1, here.at)
       /\ Readings <= here.readings /\ here.readings = Readings'
  <2>1. here.readings - 1 = Readings + 1
    BY <1>6, <1>11
  <2> QED
    BY <1>1, <1>6, <1>8, <1>10, <1>11, <2>1 DEF Timebases
<1> HIDE DEF us
<1>13. Stamps(last_event, good)' /\ Stamps(last_kick, success)'
  <2>1. us # None /\ here # None
    BY <1>11, <1>12, NoneAssumption, TimingAssumption
  <2>2. /\ us \in 0 .. timebase'.elapsed_us /\ here.readings <= Readings'
        /\ \E rest \in 0 .. TicksPerUs - 1 :
             us * TicksPerUs + rest + (here.readings - 1) * lost_ticks' = here.at
    BY <1>1, <1>6, <1>10, <1>12 DEF Reads
  <2>3. Stamps(last_event, good)'
    BY <1>1, <1>11, <2>1, <2>2 DEF Stamps, Stamp, Reads
  <2>4. CASE succeeds
    <3>1. last_kick' = us /\ success' = here
      BY <1>1, <2>4 DEF Kick
    <3> QED
      BY <1>11, <2>1, <2>2, <2>3, <3>1 DEF Stamps, Stamp, Reads
  <2>5. CASE ~succeeds
    <3>1. UNCHANGED <<last_kick, success>>
      BY <1>1, <2>5 DEF Kick
    <3>2. Readings' \in Nat /\ Readings <= Readings' /\ Stamps(last_kick, success)
      BY <1>6, <1>10 DEF TimingInv
    <3> QED
      BY <1>1, <1>6, <1>10, <2>3, <3>1, <3>2, StampsLast
  <2> QED
    BY <2>4, <2>5
<1>14. HealthIsHonest'
  <2> DEFINE watchdog == WatchdogVerdict(WatchdogAfter, last_kick, us)
  <2>1. Stamps(last_event, good) /\ Stamps(last_kick, success)
    BY DEF TimingInv
  <2>2. LET gap == Gap(good, here)
        IN  /\ (timing = "Startup") = (gap = None)
            /\ timing = "Healthy" => AtMost(gap, LateAfter)
            /\ timing = "Late" => AtLeast(gap, LateAfter) /\ AtMost(gap, TimeoutAfter)
            /\ timing = "Timeout" => AtLeast(gap, TimeoutAfter)
    BY <1>6, <1>11, <1>12, <2>1, VerdictsOfAGap
  <2>3. LET gap == Gap(success, here)
        IN  /\ (watchdog = "Disarmed") = (gap = None)
            /\ watchdog = "Healthy" => AtMost(gap, WatchdogAfter)
            /\ watchdog = "Expired" => AtLeast(gap, WatchdogAfter + 1)
    BY <1>6, <1>11, <1>12, <2>1, VerdictsOfAGap
  <2>4. published' = [timing |-> timing, watchdog |-> watchdog]
    BY <1>1
  <2> HIDE DEF timing, watchdog
  <2>5. published'.timing = timing /\ published'.watchdog = watchdog
    BY <2>4
  <2>6. sample_gap' = Gap(good, here) /\ step_gap' = Gap(success, here) /\ lost_ticks' = lost_ticks
    BY <1>1
  <2> QED
    BY <2>2, <2>3, <2>5, <2>6 DEF HealthIsHonest, AtLeast, AtMost
<1> QED
  BY <1>10, <1>13, <1>14 DEF TimingInv

(* The loop starts with nothing admitted, sampled or published.            *)
LEMMA TimingInitInv == TimingInit => TimingInv
<1> SUFFICES ASSUME TimingInit PROVE TimingInv
  OBVIOUS
<1> USE DEF TimingInit
<1>1. /\ TicksPerUs \in Nat \ {0} /\ 0 \in 0 .. TicksPerUs - 1
      /\ lost_ticks \in Nat /\ 0 * lost_ticks = 0 /\ 0 * TicksPerUs = 0
  BY TimingConstants, TimingAssumption
<1>2. timebase \in Timebases /\ timebase.last <= loop_clock /\ loop_clock \in Nat
  BY <1>1 DEF Timebases
<1>3. evidence \in EvidenceType /\ evidence.adc_errors <= evidence.admissions
  BY DEF EvidenceType
<1>4. Keeps(timebase, Readings)
  <2>1. Readings = 0
    BY DEF Readings
  <2> QED
    BY <1>1, <2>1 DEF Keeps, Reads
<1>5. AdmissionInv /\ Exact(evidence, update) /\ update \in Nat
  BY DEF AdmissionInv, Exact
<1>6. Stamps(last_event, good) /\ Stamps(last_kick, success) /\ HealthIsHonest
  BY DEF Stamps, HealthIsHonest
<1> QED
  BY <1>1, <1>2, <1>3, <1>4, <1>5, <1>6 DEF TimingInv

(* Every pass keeps it.                                                    *)
LEMMA TimingNextInv == TimingInv /\ [TimingNext]_timingVars => TimingInv'
<1> SUFFICES ASSUME TimingInv, [TimingNext]_timingVars PROVE TimingInv'
  OBVIOUS
<1>1. ASSUME NEW acquire \in AcquireTimes, AdcError(acquire) PROVE TimingInv'
  BY <1>1, AdcErrorInv, TimingAssumption
<1>2. ASSUME NEW acquire \in AcquireTimes, NEW step \in StepTimes,
             NEW background \in BackgroundTimes, NEW succeeds \in BOOLEAN,
             SamplePass(acquire, step, background, succeeds)
      PROVE  TimingInv'
  BY <1>2, SamplePassInv, TimingAssumption
<1>3. CASE UNCHANGED timingVars
  BY <1>3
     DEF timingVars, historyVars, TimingInv, Keeps, Reads, Readings, AdmissionInv, AdmittedAt,
         Stamps, Stamp, Exact, Sharp, HealthIsHonest, AtLeast, AtMost
<1> QED
  BY <1>1, <1>2, <1>3 DEF TimingNext

(* TimingInv is an invariant of the timing of the loop.                    *)
LEMMA TimingInvariance == TimingSpec => []TimingInv
BY TimingInitInv, TimingNextInv, PTL DEF TimingSpec

(* As long as every phase recorded stays under half a period, less the     *)
(* rounding and the ticks the timebase loses, the updates inferred as      *)
(* missed are those that were (recording/timing-evidence), whatever the    *)
(* durations, the period and the loss per reading.                         *)
THEOREM MissedUpdatesAreExact == TimingSpec => []MissedIsExact
<1>1. TimingInv => MissedIsExact
  BY DEF TimingInv, Exact, Sharp, MissedIsExact, EvidenceIsSharp
<1> QED
  BY <1>1, TimingInvariance, PTL

(* The published timing and watchdog verdicts are about the true time      *)
(* since the last sample and the last completed step, to the microsecond   *)
(* they are rounded by and the ticks lost, whatever failed in between.     *)
THEOREM VerdictsAreHonest == TimingSpec => []HealthIsHonest
<1>1. TimingInv => HealthIsHonest
  BY DEF TimingInv
<1> QED
  BY <1>1, TimingInvariance, PTL

=============================================================================
