------------------------- MODULE SitlScheduler_proofs -----------------------
(***************************************************************************)
(* The virtual-time scheduler, for every duration, every two periods and   *)
(* every set of dropped opportunities: it processes the schedule in causal *)
(* order, and its counters agree with what the scenario announces.         *)
(* FrontierInv and CountInv are stated of the steps, so that a module that *)
(* conjoins handlers to them can cite them.                                *)
(***************************************************************************)
EXTENDS SitlScheduler, FiniteSetTheorems, FunctionTheorems, TLAPS

---------------------------------------------------------------------------
(* The schedule as a set.                                                  *)

(* What schedule_scenario puts into the heap for this run.                 *)
Planned == Schedule(missed)

(* Every kind of event has its phase.                                      *)
LEMMA PhaseType == \A kind \in EventKinds : Phase[kind] \in 0..4
BY DEF Phase, EventKinds

(* Every event is of a known kind and of a time on the run's axis.         *)
LEMMA EventsAreTyped ==
  ASSUME NEW kinds \in SUBSET EventKinds, NEW times \in SUBSET (0..Duration)
  PROVE  Events(kinds, times) \subseteq [at : 0..Duration, kind : EventKinds]
BY DEF Events, Event

(* Every period falls on times of the run.                                 *)
LEMMA GridIsTimes == \A period \in Nat \ {0} : Grid(period) \subseteq 0..Duration
BY DEF Grid

(* Whatever is dropped, the schedule holds events of known kinds at such   *)
(* times.                                                                  *)
LEMMA ScheduleIsTyped ==
  ASSUME NEW drops
  PROVE  Schedule(drops) \subseteq [at : 0..Duration, kind : EventKinds]
<1> USE ScenarioAssumption
<1>1. {Event(0, "ScenarioStart")} \subseteq [at : 0..Duration, kind : EventKinds]
  BY DEF Event, EventKinds
<1>2. /\ {"SensorSample", "ObservationDelivery"} \in SUBSET EventKinds
      /\ {"RuntimeOpportunityMissed"} \in SUBSET EventKinds
      /\ {"ProductionRuntime", "ActuationCommit"} \in SUBSET EventKinds
  BY DEF EventKinds
<1>3. /\ Grid(SensorPeriod) \in SUBSET (0..Duration)
      /\ Grid(RuntimePeriod) \cap drops \in SUBSET (0..Duration)
      /\ Grid(RuntimePeriod) \ drops \in SUBSET (0..Duration)
  BY GridIsTimes
<1>4. /\ Events({"SensorSample", "ObservationDelivery"}, Grid(SensorPeriod))
           \subseteq [at : 0..Duration, kind : EventKinds]
      /\ Events({"RuntimeOpportunityMissed"}, Grid(RuntimePeriod) \cap drops)
           \subseteq [at : 0..Duration, kind : EventKinds]
      /\ Events({"ProductionRuntime", "ActuationCommit"}, Grid(RuntimePeriod) \ drops)
           \subseteq [at : 0..Duration, kind : EventKinds]
  BY <1>2, <1>3, EventsAreTyped
<1> QED
  BY <1>1, <1>4 DEF Schedule

(* The events of one kind are as many as their times.                      *)
LEMMA OneEventPerTime ==
  ASSUME NEW kind, NEW times, IsFiniteSet(times)
  PROVE  /\ IsFiniteSet(Events({kind}, times))
         /\ Cardinality(Events({kind}, times)) = Cardinality(times)
<1> DEFINE f == [at \in times |-> Event(at, kind)]
           E == Events({kind}, times)
<1>1. f \in [times -> E]
  BY DEF Events
<1>2. \A a, b \in times : f[a] = f[b] => a = b
  BY DEF Event
<1>3. \A e \in E : \E a \in times : f[a] = e
  BY DEF Events
<1> HIDE DEF f, E
<1>4. f \in Bijection(times, E)
  BY <1>1, <1>2, <1>3, Fun_IsBij
<1>5. ExistsBijection(times, E)
  BY <1>4 DEF ExistsBijection
<1>6. IsFiniteSet(E) /\ Cardinality(E) = Cardinality(times)
  BY <1>5, FS_Bijection
<1> QED
  BY <1>6 DEF E

(* A schedule is finite.                                                   *)
LEMMA TypedEventsAreFinite == IsFiniteSet([at : 0..Duration, kind : EventKinds])
<1> DEFINE R == [at : 0..Duration, kind : EventKinds]
           P == (0..Duration) \X EventKinds
           f == [p \in P |-> Event(p[1], p[2])]
<1>1. IsFiniteSet(0..Duration)
  BY ScenarioAssumption, FS_Interval
<1>2. IsFiniteSet(EventKinds)
  <2> DEFINE A == {"ScenarioStart"} \cup {"SensorSample"}
             B == A \cup {"ObservationDelivery"}
             C == B \cup {"ProductionRuntime"}
             D == C \cup {"RuntimeOpportunityMissed"}
  <2>1. IsFiniteSet({"ScenarioStart"})
    BY FS_Singleton
  <2>2. IsFiniteSet(A)
    BY <2>1, FS_AddElement
  <2> HIDE DEF A
  <2>3. IsFiniteSet(B)
    BY <2>2, FS_AddElement
  <2> HIDE DEF B
  <2>4. IsFiniteSet(C)
    BY <2>3, FS_AddElement
  <2> HIDE DEF C
  <2>5. IsFiniteSet(D)
    BY <2>4, FS_AddElement
  <2> HIDE DEF D
  <2>6. IsFiniteSet(D \cup {"ActuationCommit"})
    BY <2>5, FS_AddElement
  <2>7. EventKinds = D \cup {"ActuationCommit"}
    BY DEF A, B, C, D, EventKinds
  <2> QED
    BY <2>6, <2>7
<1>3. IsFiniteSet(P)
  BY <1>1, <1>2, FS_Product
<1>4. f \in [P -> R]
  BY DEF Event
<1>5. ASSUME NEW e \in R PROVE \E p \in P : f[p] = e
  <2>1. <<e.at, e.kind>> \in P
    OBVIOUS
  <2>2. f[<<e.at, e.kind>>] = e
    BY <2>1 DEF Event
  <2> QED
    BY <2>1, <2>2
<1> HIDE DEF f, P, R
<1>6. f \in Surjection(P, R)
  BY <1>4, <1>5, Fun_IsSurj
<1> QED
  BY <1>3, <1>6, FS_Surjection DEF R

(* The schedule of a run is finite, so counting it makes sense.            *)
LEMMA PlannedIsFinite ==
  /\ Planned \subseteq [at : 0..Duration, kind : EventKinds]
  /\ IsFiniteSet(Planned)
<1>1. Planned \in SUBSET [at : 0..Duration, kind : EventKinds]
  BY ScheduleIsTyped DEF Planned
<1> QED
  BY <1>1, TypedEventsAreFinite, FS_Subset
---------------------------------------------------------------------------
(* The order.  Once the first slice has begun, the heap holds exactly what *)
(* is later than now, and the slice is closed under later phases of now.   *)
Started == tally["TimeSlice"] # 0

FrontierInv ==
  /\ missed \in ValidMisses
  /\ now \in 0..Duration
  /\ tally \in [Counters -> Nat]
  /\ queue = {e \in Planned : Started => e.at > now}
  /\ slice \subseteq {e \in Planned : Started /\ e.at = now}
  /\ ~Started => now = 0
  /\ \A e \in slice, f \in Planned :
       f.at = now /\ Phase[e.kind] < Phase[f.kind] => f \in slice

(* Before the first slice all of the schedule lies ahead.                  *)
LEMMA FrontierInit == SchedulerInit => FrontierInv
<1> SUFFICES ASSUME SchedulerInit PROVE FrontierInv
  OBVIOUS
<1>1. tally \in [Counters -> Nat] /\ ~Started
  BY DEF SchedulerInit, Started, Counters
<1>2. now \in 0..Duration /\ now = 0 /\ slice = {} /\ queue = Planned
  BY ScenarioAssumption DEF SchedulerInit, Planned
<1> QED
  BY <1>1, <1>2 DEF SchedulerInit, FrontierInv

(* A new slice takes the earliest time, and all of that time.              *)
LEMMA NextSliceFrontier ==
  ASSUME FrontierInv, NextSlice
  PROVE  /\ FrontierInv'
         /\ Started'
         /\ slice' = {e \in Planned : e.at = now'}
         /\ slice = {} /\ UNCHANGED missed
         /\ Started => now < now'
         /\ \E e \in slice' : TRUE
<1>1. PICK first \in queue :
        /\ \A other \in queue : first.at <= other.at
        /\ now' = first.at
        /\ slice' = {e \in queue : e.at = first.at}
        /\ queue' = {e \in queue : e.at # first.at}
        /\ tally' = [tally EXCEPT !["TimeSlice"] = @ + 1,
                                  !["TimeAdvance"] =
                                    @ + IF first.at > now THEN 1 ELSE 0]
  BY DEF NextSlice
<1>2. UNCHANGED missed /\ slice = {} /\ Planned' = Planned
  BY DEF NextSlice, Planned
<1>3. \A e \in Planned : e.at \in 0..Duration
  BY PlannedIsFinite
<1>4. /\ now \in 0..Duration /\ tally \in [Counters -> Nat]
      /\ queue = {e \in Planned : Started => e.at > now}
  BY DEF FrontierInv
<1>5. tally' \in [Counters -> Nat] /\ tally'["TimeSlice"] = tally["TimeSlice"] + 1
  <2>1. "TimeSlice" \in Counters /\ "TimeAdvance" \in Counters
    BY DEF Counters
  <2>2. (IF first.at > now THEN 1 ELSE 0) \in Nat
    OBVIOUS
  <2> QED
    BY <1>1, <1>4, <2>1, <2>2
<1>6. Started'
  <2>1. tally["TimeSlice"] \in Nat
    BY <1>4 DEF Counters
  <2> QED
    BY <1>5, <2>1 DEF Started
<1>7. now' \in 0..Duration /\ (Started => now < now')
  BY <1>1, <1>3, <1>4
<1>8. \A e \in Planned : e.at >= now' <=> e \in queue
  BY <1>1, <1>3, <1>4
<1>9. /\ slice' = {e \in Planned : e.at = now'}
      /\ queue' = {e \in Planned : e.at > now'}
  BY <1>1, <1>3, <1>4, <1>8
<1>10. FrontierInv'
  BY <1>2, <1>5, <1>6, <1>7, <1>9 DEF FrontierInv
<1> QED
  BY <1>1, <1>2, <1>6, <1>7, <1>9, <1>10

(* An event leaves the slice in the order of the phases.                   *)
LEMMA ProcessFrontier ==
  ASSUME FrontierInv, NEW e \in slice, Process(e)
  PROVE  /\ FrontierInv'
         /\ Started /\ Started' /\ UNCHANGED <<missed, queue, now>>
         /\ e \in Planned /\ e.at = now
<1>1. /\ e \in Planned /\ e.at = now /\ e.kind \in EventKinds /\ Started
      /\ tally \in [Counters -> Nat]
  BY PlannedIsFinite DEF FrontierInv
<1>2. /\ slice' = slice \ {e} /\ UNCHANGED <<missed, queue, now>>
      /\ tally' = [tally EXCEPT ![e.kind] = @ + 1]
      /\ \A other \in slice : Phase[e.kind] <= Phase[other.kind]
  BY DEF Process
<1>3. tally' \in [Counters -> Nat] /\ tally'["TimeSlice"] = tally["TimeSlice"]
  BY <1>1, <1>2 DEF Counters, EventKinds
<1>4. Started' /\ Planned' = Planned
  BY <1>1, <1>2, <1>3 DEF Started, Planned
<1>5. ASSUME NEW d \in slice', NEW f \in Planned,
             f.at = now, Phase[d.kind] < Phase[f.kind]
      PROVE  f \in slice'
  <2>1. f \in slice /\ Phase[e.kind] <= Phase[d.kind]
    BY <1>2, <1>5 DEF FrontierInv
  <2>2. /\ Phase[e.kind] \in Int /\ Phase[d.kind] \in Int /\ Phase[f.kind] \in Int
    <3>1. {e, d, f} \subseteq Planned
      BY <1>2, <1>1 DEF FrontierInv
    <3> QED
      BY <3>1, PlannedIsFinite, PhaseType
  <2>3. f # e
    BY <1>5, <2>1, <2>2
  <2> QED
    BY <1>2, <2>1, <2>3
<1> QED
  BY <1>1, <1>2, <1>3, <1>4, <1>5 DEF FrontierInv

(* Everything processed precedes everything still to come.                 *)
LEMMA FrontierOrders == FrontierInv => CausalOrder
<1> SUFFICES ASSUME FrontierInv, NEW done \in Processed, NEW e \in queue \cup slice
             PROVE  \/ done.at < e.at
                    \/ done.at = e.at /\ Phase[done.kind] <= Phase[e.kind]
  BY DEF CausalOrder
<1>1. done \in Planned /\ done \notin queue /\ done \notin slice
  BY DEF Processed, Planned
<1>2. e \in Planned
  BY DEF FrontierInv
<1>3. /\ done.at \in 0..Duration /\ e.at \in 0..Duration /\ now \in 0..Duration
      /\ Phase[done.kind] \in 0..4 /\ Phase[e.kind] \in 0..4
  BY <1>1, <1>2, PlannedIsFinite, PhaseType DEF FrontierInv
<1>4. Started /\ done.at <= now
  BY <1>1, <1>3 DEF FrontierInv
<1>5. CASE e \in queue
  BY <1>3, <1>4, <1>5 DEF FrontierInv
<1>6. CASE e \in slice
  BY <1>1, <1>3, <1>4, <1>6 DEF FrontierInv
<1> QED
  BY <1>5, <1>6
---------------------------------------------------------------------------
(* The counters.  Each kind is counted as often as it was processed, and   *)
(* every slice but the first advances the time.                            *)
Of(kind) == {e \in Processed : e.kind = kind}

CountInv ==
  /\ \A kind \in EventKinds : tally[kind] = Cardinality(Of(kind))
  /\ tally["TimeAdvance"] = IF Started THEN tally["TimeSlice"] - 1 ELSE 0

(* The events of one kind are finitely many of the schedule.               *)
LEMMA OfIsFinite == \A kind : Of(kind) \subseteq Planned /\ IsFiniteSet(Of(kind))
<1> SUFFICES ASSUME NEW kind PROVE Of(kind) \subseteq Planned /\ IsFiniteSet(Of(kind))
  OBVIOUS
<1>1. Of(kind) \in SUBSET Planned
  BY DEF Of, Processed, Planned
<1> QED
  BY <1>1, PlannedIsFinite, FS_Subset

(* Before the first slice nothing is counted.                              *)
LEMMA CountInit == SchedulerInit => CountInv
<1> SUFFICES ASSUME SchedulerInit PROVE CountInv
  OBVIOUS
<1>1. tally = [c \in Counters |-> 0] /\ Processed = {}
  BY DEF SchedulerInit, Processed
<1>2. \A kind : Of(kind) = {}
  BY <1>1 DEF Of
<1> QED
  BY <1>1, <1>2, FS_EmptySet DEF CountInv, Started, Counters

(* A new slice processes nothing.                                          *)
LEMMA NextSliceCount ==
  ASSUME FrontierInv, CountInv, NextSlice
  PROVE  CountInv'
<1>1. PICK first \in queue :
        /\ \A other \in queue : first.at <= other.at
        /\ now' = first.at
        /\ slice' = {e \in queue : e.at = first.at}
        /\ queue' = {e \in queue : e.at # first.at}
        /\ tally' = [tally EXCEPT !["TimeSlice"] = @ + 1,
                                  !["TimeAdvance"] =
                                    @ + IF first.at > now THEN 1 ELSE 0]
  BY DEF NextSlice
<1>2. /\ slice = {} /\ UNCHANGED missed /\ Started' /\ (Started => now < now')
      /\ (~Started => now = 0) /\ tally \in [Counters -> Nat]
      /\ first \in Planned
  BY NextSliceFrontier DEF FrontierInv
<1>3. \A kind : Of(kind)' = Of(kind)
  <2>1. Processed' = Processed
    BY <1>1, <1>2 DEF Processed
  <2> QED
    BY <2>1 DEF Of
<1>4. \A kind \in EventKinds : tally'[kind] = tally[kind]
  BY <1>1, <1>2 DEF Counters, EventKinds
<1>5. /\ tally["TimeSlice"] \in Nat /\ tally["TimeAdvance"] \in Nat
      /\ tally'["TimeSlice"] = tally["TimeSlice"] + 1
      /\ tally'["TimeAdvance"]
           = tally["TimeAdvance"] + (IF first.at > now THEN 1 ELSE 0)
  BY <1>1, <1>2 DEF Counters
<1>6. tally'["TimeAdvance"] = tally'["TimeSlice"] - 1
  <2>1. CASE Started
    <3>1. first.at > now /\ tally["TimeAdvance"] = tally["TimeSlice"] - 1
      <4>1. now \in Int /\ first.at \in Int
        BY <1>2, PlannedIsFinite DEF FrontierInv
      <4> QED
        BY <1>1, <1>2, <2>1, <4>1 DEF CountInv
    <3> QED
      BY <1>5, <3>1
  <2>2. CASE ~Started
    <3>1. Event(0, "ScenarioStart") \in queue
      BY <2>2 DEF FrontierInv, Planned, Schedule
    <3>2. now' = 0 /\ now = 0
      <4>1. first.at <= 0
        BY <1>1, <3>1 DEF Event
      <4>2. first.at \in 0..Duration
        BY <1>2, PlannedIsFinite
      <4> QED
        BY <1>1, <1>2, <2>2, <4>1, <4>2
    <3>3. tally["TimeSlice"] = 0 /\ tally["TimeAdvance"] = 0
      BY <2>2 DEF Started, CountInv
    <3> QED
      BY <1>1, <1>5, <3>2, <3>3
  <2> QED
    BY <2>1, <2>2
<1> QED
  BY <1>2, <1>3, <1>4, <1>6 DEF CountInv

(* An event is processed once, and counted when it is.                     *)
LEMMA ProcessCount ==
  ASSUME FrontierInv, CountInv, NEW e \in slice, Process(e)
  PROVE  CountInv'
<1>1. /\ slice' = slice \ {e} /\ UNCHANGED <<missed, queue, now>>
      /\ tally' = [tally EXCEPT ![e.kind] = @ + 1]
  BY DEF Process
<1>2. /\ e \in Planned /\ e.at = now /\ Started /\ Started' /\ e.kind \in EventKinds
      /\ tally \in [Counters -> Nat] /\ e \notin queue
  <2>1. e \in Planned /\ e.at = now /\ Started /\ Started'
    BY ProcessFrontier
  <2>2. e.at \in Int /\ e.kind \in EventKinds
    BY <2>1, PlannedIsFinite
  <2>3. e \notin queue
    BY <2>1, <2>2 DEF FrontierInv
  <2> QED
    BY <2>1, <2>2, <2>3 DEF FrontierInv
<1>3. Processed' = Processed \cup {e} /\ e \notin Processed
  BY <1>1, <1>2 DEF Processed, Planned
<1>4. /\ Of(e.kind)' = Of(e.kind) \cup {e} /\ e \notin Of(e.kind)
      /\ \A kind : kind # e.kind => Of(kind)' = Of(kind)
  BY <1>3 DEF Of
<1>5. \A kind \in EventKinds : tally'[kind] = Cardinality(Of(kind)')
  <2> SUFFICES ASSUME NEW kind \in EventKinds
               PROVE  tally'[kind] = Cardinality(Of(kind)')
    OBVIOUS
  <2>1. EventKinds \subseteq Counters
    BY DEF Counters
  <2>2. CASE kind = e.kind
    <3>1. tally'[kind] = tally[kind] + 1
      BY <1>1, <1>2, <2>1, <2>2
    <3>2. Cardinality(Of(kind) \cup {e}) = Cardinality(Of(kind)) + 1
      BY <1>4, <2>2, OfIsFinite, FS_AddElement
    <3> QED
      BY <1>4, <2>2, <3>1, <3>2 DEF CountInv
  <2>3. CASE kind # e.kind
    <3>1. tally'[kind] = tally[kind]
      BY <1>1, <1>2, <2>1, <2>3
    <3> QED
      BY <1>4, <2>3, <3>1 DEF CountInv
  <2> QED
    BY <2>2, <2>3
<1>6. /\ tally'["TimeAdvance"] = tally["TimeAdvance"]
      /\ tally'["TimeSlice"] = tally["TimeSlice"]
  BY <1>1, <1>2 DEF Counters, EventKinds
<1> QED
  BY <1>2, <1>5, <1>6 DEF CountInv
---------------------------------------------------------------------------
(* The verdict.  A grid has as many times as periodic_count says.          *)

(* Quotients and products, for a divisor that is a parameter.              *)
LEMMA QuotientBounds ==
  ASSUME NEW a \in Nat, NEW b \in Nat \ {0}
  PROVE  /\ a \div b \in Nat
         /\ (a \div b) * b <= a
         /\ a < (a \div b) * b + b
BY SMT

(* A multiple is its quotient times the divisor.                           *)
LEMMA MultipleOfQuotient ==
  ASSUME NEW a \in Nat, NEW b \in Nat \ {0}, a % b = 0
  PROVE  a = (a \div b) * b
BY SMT

(* Dividing a multiple leaves no rest.                                     *)
LEMMA MultipleHasNoRest ==
  ASSUME NEW k \in Nat, NEW b \in Nat \ {0}
  PROVE  (k * b) % b = 0 /\ k * b \in Nat
BY SMT

(* Two multiples of a divisor are at least the divisor apart.              *)
LEMMA ProductsAreOrdered ==
  ASSUME NEW j \in Nat, NEW k \in Nat, NEW b \in Nat \ {0}, j < k
  PROVE  j * b + b <= k * b
<1>1. PICK d \in Nat : k = j + 1 + d
  <2>1. k - j - 1 \in Nat /\ k = j + 1 + (k - j - 1)
    OBVIOUS
  <2> QED
    BY <2>1
<1>2. (j + 1 + d) * b = j * b + b + d * b
  BY SMT
<1>3. d * b \in Nat /\ j * b \in Nat
  BY SMT
<1> QED
  BY <1>1, <1>2, <1>3

(* A period falls on as many times of the run as PeriodicCount says.       *)
LEMMA GridCount ==
  ASSUME NEW period \in Nat \ {0}
  PROVE  /\ IsFiniteSet(Grid(period))
         /\ Cardinality(Grid(period)) = PeriodicCount(period)
<1> DEFINE n == Duration \div period
           G == Grid(period)
           f == [k \in 0..n |-> k * period]
<1>1. n \in Nat /\ n * period <= Duration /\ Duration < n * period + period
  BY QuotientBounds, ScenarioAssumption
<1>2. \A j, k \in Nat : /\ j * period \in Nat
                        /\ j < k => j * period + period <= k * period
  BY ProductsAreOrdered, MultipleHasNoRest
<1> HIDE DEF n
<1>3. f \in [0..n -> G]
  <2> SUFFICES ASSUME NEW k \in 0..n PROVE k * period \in G
    OBVIOUS
  <2>1. k * period \in Nat /\ (k * period) % period = 0
    <3>1. k \in Nat
      BY <1>1
    <3> QED
      BY <3>1, MultipleHasNoRest
  <2>2. k * period <= Duration
    <3>1. k = n \/ k < n
      BY <1>1
    <3>2. k * period <= n * period
      BY <1>1, <1>2, <3>1
    <3> QED
      BY <1>1, <1>2, <2>1, <3>2, ScenarioAssumption
  <2> QED
    BY <2>1, <2>2, ScenarioAssumption DEF Grid
<1>4. \A j, k \in 0..n : f[j] = f[k] => j = k
  <2> SUFFICES ASSUME NEW j \in 0..n, NEW k \in 0..n, j * period = k * period
               PROVE  j = k
    OBVIOUS
  <2>1. j \in Nat /\ k \in Nat /\ j * period \in Nat /\ k * period \in Nat
    BY <1>1, <1>2
  <2>2. ~(j < k) /\ ~(k < j)
    BY <1>2, <2>1
  <2> QED
    BY <2>1, <2>2
<1>5. \A at \in G : \E k \in 0..n : f[k] = at
  <2> SUFFICES ASSUME NEW at \in G PROVE \E k \in 0..n : f[k] = at
    OBVIOUS
  <2> DEFINE k == at \div period
  <2>1. at \in Nat /\ at <= Duration /\ at % period = 0
    BY ScenarioAssumption DEF Grid
  <2>2. k \in Nat /\ at = k * period
    BY <2>1, MultipleOfQuotient, QuotientBounds
  <2> HIDE DEF k
  <2>3. k <= n
    <3>1. CASE n < k
      BY <1>1, <1>2, <2>1, <2>2, <3>1, ScenarioAssumption
    <3> QED
      BY <1>1, <2>2, <3>1
  <2> QED
    BY <1>1, <2>2, <2>3
<1> HIDE DEF f, G
<1>6. f \in Bijection(0..n, G)
  BY <1>3, <1>4, <1>5, Fun_IsBij
<1>7. IsFiniteSet(0..n) /\ Cardinality(0..n) = n + 1
  BY <1>1, FS_Interval
<1>8. IsFiniteSet(G) /\ Cardinality(G) = n + 1
  BY <1>6, <1>7, FS_Bijection DEF ExistsBijection
<1> QED
  BY <1>8 DEF G, n, PeriodicCount

(* When everything has been processed the counts are those of the grids.   *)
LEMMA FinishedPasses == FrontierInv /\ CountInv => CompletedRunPasses
<1> SUFFICES ASSUME FrontierInv, CountInv, Finished PROVE Pass
  BY DEF CompletedRunPasses
<1> DEFINE SG == Grid(SensorPeriod)
           RG == Grid(RuntimePeriod)
<1>1. Processed = Planned
  BY DEF Finished, Processed, Planned
<1>2. Started
  <2>1. Event(0, "ScenarioStart") \in Planned
    BY DEF Planned, Schedule
  <2> QED
    BY <2>1 DEF FrontierInv, Finished
<1>3. /\ Of("SensorSample") = Events({"SensorSample"}, SG)
      /\ Of("ObservationDelivery") = Events({"ObservationDelivery"}, SG)
      /\ Of("ProductionRuntime") = Events({"ProductionRuntime"}, RG \ missed)
      /\ Of("RuntimeOpportunityMissed")
           = Events({"RuntimeOpportunityMissed"}, RG \cap missed)
      /\ Of("ActuationCommit") = Events({"ActuationCommit"}, RG \ missed)
  <2> HIDE DEF SG, RG
  <2>1. Planned = {Event(0, "ScenarioStart")}
                    \cup Events({"SensorSample", "ObservationDelivery"}, SG)
                    \cup Events({"RuntimeOpportunityMissed"}, RG \cap missed)
                    \cup Events({"ProductionRuntime", "ActuationCommit"}, RG \ missed)
    BY DEF Planned, Schedule, SG, RG
  <2> QED
    BY <1>1, <2>1 DEF Of, Events, Event
<1>4. /\ IsFiniteSet(SG) /\ Cardinality(SG) = PeriodicCount(SensorPeriod)
      /\ IsFiniteSet(RG) /\ Cardinality(RG) = PeriodicCount(RuntimePeriod)
  BY GridCount, ScenarioAssumption
<1> HIDE DEF SG, RG
<1>5. /\ IsFiniteSet(RG \ missed) /\ IsFiniteSet(RG \cap missed)
      /\ Cardinality(RG \ missed) = Cardinality(RG) - Cardinality(RG \cap missed)
      /\ Cardinality(RG \cap missed) \in Nat /\ Cardinality(RG) \in Nat
  BY <1>4, FS_Difference, FS_Intersection, FS_CardinalityType
<1>6. /\ tally["SensorSample"] = Cardinality(SG)
      /\ tally["ObservationDelivery"] = Cardinality(SG)
      /\ tally["ProductionRuntime"] = Cardinality(RG \ missed)
      /\ tally["RuntimeOpportunityMissed"] = Cardinality(RG \cap missed)
      /\ tally["ActuationCommit"] = Cardinality(RG \ missed)
  <2>1. \A kind \in EventKinds : tally[kind] = Cardinality(Of(kind))
    BY DEF CountInv
  <2>2. \A kind : /\ Cardinality(Events({kind}, SG)) = Cardinality(SG)
                  /\ Cardinality(Events({kind}, RG \ missed)) = Cardinality(RG \ missed)
                  /\ Cardinality(Events({kind}, RG \cap missed))
                       = Cardinality(RG \cap missed)
    BY <1>4, <1>5, OneEventPerTime
  <2> QED
    BY <1>3, <2>1, <2>2 DEF EventKinds
<1>7. tally["TimeAdvance"] = tally["TimeSlice"] - 1
  BY <1>2 DEF CountInv
<1> QED
  BY <1>4, <1>5, <1>6, <1>7 DEF Pass

(* With any system the counts and the order survive every step of the      *)
(* loop.                                                                   *)
LEMMA SchedulerStep ==
  ASSUME FrontierInv, CountInv, NextSlice \/ \E e \in slice : Process(e)
  PROVE  FrontierInv' /\ CountInv'
<1>1. CASE NextSlice
  BY <1>1, NextSliceFrontier, NextSliceCount
<1>2. ASSUME NEW e \in slice, Process(e) PROVE FrontierInv' /\ CountInv'
  BY <1>2, ProcessFrontier, ProcessCount
<1> QED
  BY <1>1, <1>2

(* The invariants hold while the scheduler rests.                          *)
LEMMA SchedulerStutter ==
  ASSUME FrontierInv, CountInv, UNCHANGED schedulerVars
  PROVE  FrontierInv' /\ CountInv'
BY DEF schedulerVars, FrontierInv, CountInv, Started, Planned, Of, Processed

(* Both are invariants of a run whose handlers do nothing.                 *)
LEMMA NoopInvariance == NoopSpec => [](FrontierInv /\ CountInv)
<1>1. SchedulerInit => FrontierInv /\ CountInv
  BY FrontierInit, CountInit
<1>2. FrontierInv /\ CountInv /\ [NextSlice \/ \E e \in slice : Process(e)]_schedulerVars
        => (FrontierInv /\ CountInv)'
  BY SchedulerStep, SchedulerStutter
<1> QED
  BY <1>1, <1>2, PTL DEF NoopSpec

(* A run of the loop that empties the heap earns the verdict `pass`: the   *)
(* events counted by execute_with_system are those periodic_count expects. *)
THEOREM CompletedRunsPass == NoopSpec => []CompletedRunPasses
BY NoopInvariance, FinishedPasses, PTL

(* next_slice and the sort of a slice put every event after its causes.    *)
THEOREM OrderIsCausal == NoopSpec => []CausalOrder
BY NoopInvariance, FrontierOrders, PTL
=============================================================================
