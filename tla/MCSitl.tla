-------------------------------- MODULE MCSitl --------------------------------
(***************************************************************************)
(* One run, three drivers, chosen in the initial state: the scheduler with *)
(* the no-op system on periods that divide nothing, the scheduler with the *)
(* rotary system, and the live loop with the rotary system.  In a live run *)
(* the scheduler's variables follow RotaryLive's refinement mapping, so    *)
(* every property of RotarySitl is asked of it too.                        *)
(***************************************************************************)
EXTENDS RotarySitl

VARIABLES driver, last_at, first, stage, plant_at, merged, emitted

VARIABLES noop_missed, noop_queue, noop_slice, noop_now, noop_tally

Noop == INSTANCE SitlScheduler WITH
  Duration <- 7, SensorPeriod <- 3, RuntimePeriod <- 2,
  missed <- noop_missed, queue <- noop_queue, slice <- noop_slice,
  now <- noop_now, tally <- noop_tally

Live == INSTANCE RotaryLive WITH at <- now

noopVars == <<noop_missed, noop_queue, noop_slice, noop_now, noop_tally>>
liveOnly == <<last_at, first, stage, plant_at, merged, emitted>>
mcVars == <<driver, vars, liveOnly, noopVars>>

MCCommands == {-1, 0, 1}

NoopNext == Noop!NextSlice \/ \E e \in noop_slice : Noop!Process(e)

(* A live run has no scheduler: these follow the mapping.                  *)
FollowsAtFirst ==
  missed = {} /\ queue = Live!Queue /\ slice = Live!Slice /\ tally = Live!Tally

Follows ==
  /\ UNCHANGED missed
  /\ queue' = Live!Queue'
  /\ slice' = Live!Slice'
  /\ tally' = Live!Tally'

(* A noop run keeps the rotary system where a live run begins, and the     *)
(* other way round.                                                        *)
MCInit ==
  /\ driver \in {"noop", "scheduled", "live"}
  /\ Live!LiveInit /\ SystemInit
  /\ IF driver = "scheduled" THEN SchedulerInit ELSE FollowsAtFirst
  /\ Noop!SchedulerInit
  /\ driver # "noop" => noop_missed = {}

MCNext ==
  /\ UNCHANGED driver
  /\ \/ driver = "noop" /\ NoopNext /\ UNCHANGED <<vars, liveOnly>>
     \/ driver = "scheduled" /\ Next /\ UNCHANGED <<liveOnly, noopVars>>
     \/ /\ driver = "live" /\ Live!Next /\ Follows
        /\ UNCHANGED noopVars

(* execute_with_system and the live loop run until they return.            *)
MCSpec == MCInit /\ [][MCNext]_mcVars /\ WF_mcVars(MCNext)

(* SitlScheduler's CompletedRunPasses, of both kinds of scheduled run, the *)
(* no-op one with periods that divide neither each other nor the duration. *)
EveryRunPasses ==
  /\ Noop!CompletedRunPasses
  /\ driver = "scheduled" => CompletedRunPasses

(* RotaryLive's properties, of the live runs.                              *)
SampleIsOneInstant == driver = "live" => Live!SampleIsOneInstant

LiveImplementsScheduler ==
  /\ driver = "live" => Live!Scheduled!Init
  /\ [][driver = "live" => Live!Scheduled!Next]_vars
=============================================================================
