--------------------------- MODULE OpportunityClock ---------------------------
(***************************************************************************)
(* rp2350a/src/platform.cpp: the control opportunities of the main loop.   *)
(* Time is counted from scheduler_init().  One call of                     *)
(* wait_next_opportunity() is one action: it sleeps until the next         *)
(* opportunity if that is still to come, so it returns at any `actual` not *)
(* before it; the work of the cycle and a late wake-up both make it later. *)
(***************************************************************************)
EXTENDS Integers

CONSTANTS
  ControlPeriod,   \* config::kControlPeriodUs
  ClockHorizon     \* bound on time

ASSUME ClockAssumption ==
  /\ ControlPeriod \in Nat \ {0}
  /\ ClockHorizon \in Nat

VARIABLES
  clock,                  \* now_us() when the last call returned
  next_opportunity,       \* g_next_opportunity_us
  missed_opportunities, deadline_overruns,   \* SchedulerEvidence
  admitted,               \* history: calls that have returned
  earlier                 \* history: when the call before the last returned

clockVars ==
  <<clock, next_opportunity, missed_opportunities, deadline_overruns,
    admitted, earlier>>

ClockInit ==
  /\ clock = 0
  /\ next_opportunity = ControlPeriod
  /\ missed_opportunities = 0
  /\ deadline_overruns = 0
  /\ admitted = 0
  /\ earlier = 0

(* Late by more than a period: the missed opportunities are counted and    *)
(* the schedule starts again from the present.                             *)
(* Mutant: the schedule resumes where it was, to catch up.                 *)
Overrun_CatchUp(actual) ==
  /\ actual > next_opportunity + ControlPeriod
  /\ missed_opportunities' =
       missed_opportunities + (actual - next_opportunity) \div ControlPeriod
  /\ deadline_overruns' = deadline_overruns + 1
  /\ next_opportunity' = next_opportunity + ControlPeriod

(* Mutant: the period the late call stands for is counted as missed too.   *)
Overrun_CountsOwn(actual) ==
  /\ actual > next_opportunity + ControlPeriod
  /\ missed_opportunities' =
       missed_opportunities + (actual - next_opportunity) \div ControlPeriod + 1
  /\ deadline_overruns' = deadline_overruns + 1
  /\ next_opportunity' = actual + ControlPeriod

Overrun(actual) ==
  /\ actual > next_opportunity + ControlPeriod
  /\ missed_opportunities' =
       missed_opportunities + (actual - next_opportunity) \div ControlPeriod
  /\ deadline_overruns' = deadline_overruns + 1
  /\ next_opportunity' = actual + ControlPeriod

OnSchedule(actual) ==
  /\ actual <= next_opportunity + ControlPeriod
  /\ next_opportunity' = next_opportunity + ControlPeriod
  /\ UNCHANGED <<missed_opportunities, deadline_overruns>>

WaitNextOpportunity(actual) ==
  /\ actual >= clock
  /\ actual >= next_opportunity
  /\ Overrun(actual) \/ OnSchedule(actual)
  /\ clock' = actual
  /\ admitted' = admitted + 1
  /\ earlier' = clock

ClockNext == \E actual \in 0..ClockHorizon : WaitNextOpportunity(actual)

ClockSpec == ClockInit /\ [][ClockNext]_clockVars
---------------------------------------------------------------------------
ClockTypeOK ==
  /\ {clock, earlier, next_opportunity, missed_opportunities,
      deadline_overruns, admitted} \subseteq Nat

(* A late call may be followed at once by the opportunity that came due    *)
(* meanwhile, and by no more than that one: any three opportunities span   *)
(* at least a period, however late the calls return, so what was missed is *)
(* "coalesced rather than replayed as a burst" (platform.hpp).             *)
NoBurst ==
  [][clock' >= earlier + ControlPeriod]_clockVars

(* Every opportunity of the ideal schedule is either admitted or counted   *)
(* as missed, except for the fraction of a period by which each restart    *)
(* moves the schedule.                                                     *)
Restarts == next_opportunity - ControlPeriod * (admitted + missed_opportunities + 1)

OpportunitiesAccounted ==
  0 <= Restarts /\ Restarts <= (ControlPeriod - 1) * deadline_overruns
=============================================================================
