--------------------------- MODULE SitlScheduler ---------------------------
(***************************************************************************)
(* tools/sitl: the virtual-time scheduler and the event loop of            *)
(* execute_with_system, for any system: Process(e) is what the loop itself *)
(* does for an event, the system's handler is conjoined by the module that *)
(* composes the two.  The heap is the set of scheduled events; insertion   *)
(* sequence numbers never decide an order, because no two events of one    *)
(* time share a phase.                                                     *)
(***************************************************************************)
EXTENDS Integers, FiniteSets

CONSTANTS Duration, SensorPeriod, RuntimePeriod

ASSUME ScenarioAssumption ==
  /\ Duration \in Nat
  /\ SensorPeriod \in Nat \ {0}
  /\ RuntimePeriod \in Nat \ {0}

VARIABLES
  missed,   \* runtime opportunities the scenario drops
  queue,    \* scheduled events not yet popped
  slice,    \* events of the current time slice not yet processed
  now,      \* virtual time
  tally     \* the counters of the run's summary

schedulerVars == <<missed, queue, slice, now, tally>>

EventKinds == {"ScenarioStart", "SensorSample", "ObservationDelivery",
               "ProductionRuntime", "RuntimeOpportunityMissed",
               "ActuationCommit"}

Phase ==
  [kind \in EventKinds |->
     CASE kind = "ScenarioStart" -> 0
       [] kind = "SensorSample" -> 1
       [] kind = "ObservationDelivery" -> 2
       [] kind \in {"ProductionRuntime", "RuntimeOpportunityMissed"} -> 3
       [] kind = "ActuationCommit" -> 4]

Counters == EventKinds \cup {"TimeSlice", "TimeAdvance"}

(* schedule_periodic: every multiple of the period, both ends included.    *)
Grid(period) == {at \in 0..Duration : at % period = 0}

(* Scenario::validate admits exactly the sets of on-grid opportunities.    *)
ValidMisses == SUBSET Grid(RuntimePeriod)

Event(at, kind) == [at |-> at, kind |-> kind]

Events(kinds, times) == {Event(at, kind) : at \in times, kind \in kinds}

(* Mutant: a commit is also scheduled for a missed opportunity.            *)
Schedule_CommitAlways(drops) ==
  {Event(0, "ScenarioStart")}
    \cup Events({"SensorSample", "ObservationDelivery"}, Grid(SensorPeriod))
    \cup Events({"RuntimeOpportunityMissed"}, Grid(RuntimePeriod) \cap drops)
    \cup Events({"ProductionRuntime"}, Grid(RuntimePeriod) \ drops)
    \cup Events({"ActuationCommit"}, Grid(RuntimePeriod))

Schedule(drops) ==
  {Event(0, "ScenarioStart")}
    \cup Events({"SensorSample", "ObservationDelivery"}, Grid(SensorPeriod))
    \cup Events({"RuntimeOpportunityMissed"}, Grid(RuntimePeriod) \cap drops)
    \cup Events({"ProductionRuntime", "ActuationCommit"},
                Grid(RuntimePeriod) \ drops)

SchedulerInit ==
  /\ missed \in ValidMisses
  /\ queue = Schedule(missed)
  /\ slice = {}
  /\ now = 0
  /\ tally = [c \in Counters |-> 0]

(* next_slice: virtual time jumps to the earliest event, and every event   *)
(* of that time leaves the heap.                                           *)
NextSlice ==
  /\ slice = {}
  /\ \E first \in queue :
       /\ \A other \in queue : first.at <= other.at
       /\ now' = first.at
       /\ slice' = {e \in queue : e.at = first.at}
       /\ queue' = {e \in queue : e.at # first.at}
       /\ tally' = [tally EXCEPT !["TimeSlice"] = @ + 1,
                                 !["TimeAdvance"] =
                                   @ + IF first.at > now THEN 1 ELSE 0]
  /\ UNCHANGED missed

(* Mutant: a slice is processed in the order of the queue, not by phase.   *)
Process_AnyOrder(e) ==
  /\ e \in slice
  /\ slice' = slice \ {e}
  /\ tally' = [tally EXCEPT ![e.kind] = @ + 1]
  /\ UNCHANGED <<missed, queue, now>>

Process(e) ==
  /\ e \in slice
  /\ \A other \in slice : Phase[e.kind] <= Phase[other.kind]
  /\ slice' = slice \ {e}
  /\ tally' = [tally EXCEPT ![e.kind] = @ + 1]
  /\ UNCHANGED <<missed, queue, now>>

Finished == queue = {} /\ slice = {}

(* periodic_count and the verdict of the run's summary.                    *)
PeriodicCount(period) == Duration \div period + 1

Pass ==
  /\ tally["SensorSample"] = PeriodicCount(SensorPeriod)
  /\ tally["ObservationDelivery"] = PeriodicCount(SensorPeriod)
  /\ tally["ProductionRuntime"] + tally["RuntimeOpportunityMissed"]
       = PeriodicCount(RuntimePeriod)
  /\ tally["ActuationCommit"] = tally["ProductionRuntime"]
  /\ tally["TimeAdvance"] = tally["TimeSlice"] - 1
---------------------------------------------------------------------------
(* The loop with NoopSitlSystem, whose handlers do nothing.                *)
NoopSpec ==
  /\ SchedulerInit
  /\ [][NextSlice \/ \E e \in slice : Process(e)]_schedulerVars

SchedulerTypeOK ==
  /\ missed \subseteq 0..Duration
  /\ queue \subseteq [at : 0..Duration, kind : EventKinds]
  /\ slice \subseteq [at : {now}, kind : EventKinds]
  /\ now \in 0..Duration
  /\ tally \in [Counters -> Nat]

(* A completed run always earns the verdict `pass` of its own summary      *)
(* (lib.rs 173-177), whatever the periods and the dropped opportunities:   *)
(* the counts made while running agree with those computed from the        *)
(* scenario.                                                               *)
CompletedRunPasses == Finished => Pass

(* Everything processed precedes everything still to come, in time and,    *)
(* within one time, in semantic phase: sample, delivery, runtime, commit.  *)
Processed == Schedule(missed) \ (queue \cup slice)

CausalOrder ==
  \A done \in Processed, e \in queue \cup slice :
    \/ done.at < e.at
    \/ done.at = e.at /\ Phase[done.kind] <= Phase[e.kind]
=============================================================================
