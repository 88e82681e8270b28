------------------------------ MODULE JobBudget ------------------------------
(***************************************************************************)
(* How a live run shares run.parallel_jobs between fuzzing trials and      *)
(* snapshot measurement.                                                   *)
(*                                                                         *)
(* run/runner.py splits the budget once (_live_resource_plan): a pool of   *)
(* TrialWorkers threads runs the trials, and every tick gets Jobs jobs.    *)
(* When the last wave of trials has registered, the slots of trials that   *)
(* are over go to the ticks (scheduler.py:_tick_jobs). That number is read *)
(* once, when a tick starts, and used until it ends, minutes later, while  *)
(* trials start and stop around it.                                        *)
(***************************************************************************)
EXTENDS Integers, FiniteSets

CONSTANTS
  Trials,        \* the planned trials
  ParallelJobs,  \* run.parallel_jobs
  SnapshotJobs   \* run.snapshot.jobs, 0 to let the run split the budget

\* One job runs no scheduler; a reservation that leaves no trial job is refused
\* (run/runner.py:41-48).
ASSUME BudgetAssumption ==
  /\ IsFiniteSet(Trials)
  /\ ParallelJobs \in Nat /\ ParallelJobs >= 2
  /\ SnapshotJobs \in Nat /\ SnapshotJobs < ParallelJobs

\* _live_resource_plan: the snapshot side, and the rest.
Jobs ==
  IF SnapshotJobs # 0 THEN SnapshotJobs
  ELSE IF ParallelJobs = 2 THEN 1 ELSE ParallelJobs \div 3

TrialWorkers == ParallelJobs - Jobs

VARIABLES
  trial,      \* trial |-> state of its run_one_trial call
  campaign,   \* _campaign_trials: the trials that ever registered
  tick,       \* phase of the tick the worker processes, or "idle"
  granted,    \* the jobs read by _tick_jobs for that tick (the last one if idle)
  inUse       \* measurement jobs running now
vars == <<trial, campaign, tick, granted, inUse>>

TrialStates == {"queued", "preparing", "registered", "fuzzing", "stopped", "ended"}
InPool  == {t \in Trials : trial[t] \in {"preparing", "registered", "fuzzing", "stopped"}}
Active  == {t \in Trials : trial[t] \in {"registered", "fuzzing", "stopped"}}
Fuzzing == {t \in Trials : trial[t] = "fuzzing"}

Phases == {"collect", "batches", "merge", "crashes"}

Init ==
  /\ trial = [t \in Trials |-> "queued"]
  /\ campaign = {}
  /\ tick = "idle" /\ granted = Jobs /\ inUse = 0

-----------------------------------------------------------------------------
(* Trials: the steps of run_one_trial that matter to the budget.            *)

Goto(t, state) == trial' = [trial EXCEPT ![t] = state]
TickUnchanged == UNCHANGED <<tick, granted, inUse>>

\* A free pool thread takes the next trial and prepares its workspace.
Begin(t) ==
  /\ trial[t] = "queued"
  /\ Cardinality(InPool) < TrialWorkers
  /\ Goto(t, "preparing")
  /\ TickUnchanged /\ UNCHANGED campaign

Register(t) ==
  /\ trial[t] = "preparing"
  /\ Goto(t, "registered")
  /\ campaign' = campaign \cup {t}
  /\ TickUnchanged

Launch(t) ==
  /\ trial[t] = "registered"
  /\ Goto(t, "fuzzing")
  /\ TickUnchanged /\ UNCHANGED campaign

\* The container is killed and removed, or it exited.
StopContainer(t) ==
  /\ trial[t] = "fuzzing"
  /\ Goto(t, "stopped")
  /\ TickUnchanged /\ UNCHANGED campaign

\* unregister comes last, also for a trial that never started; a workspace that
\* cannot be prepared ends the call before it registers.
Unregister(t) ==
  /\ trial[t] \in {"preparing", "registered", "stopped"}
  /\ Goto(t, "ended")
  /\ TickUnchanged /\ UNCHANGED campaign

-----------------------------------------------------------------------------
(* Ticks.                                                                   *)

\* Seeded fault: slots are reclaimed although trials are still to come.
TickJobsEager ==
  LET spare == ParallelJobs - Cardinality(Active)
  IN  IF spare > Jobs THEN spare ELSE Jobs

\* _tick_jobs: the slots of finished trials, once no trial is left to register.
TickJobs ==
  LET spare == ParallelJobs - Cardinality(Active)
  IN  IF campaign = Trials /\ spare > Jobs THEN spare ELSE Jobs

TrialsUnchanged == UNCHANGED <<trial, campaign>>

StartTick ==
  /\ tick = "idle"
  /\ tick' = "collect"
  /\ granted' = TickJobs
  /\ TrialsUnchanged /\ UNCHANGED inUse

\* The widest pool of a phase: trial and campaign merges load the whole coverage
\* mapping and run one at a time.
Width == IF tick = "merge" THEN 1 ELSE granted

\* Seeded fault: a pool that is one job too wide.
StartJobTooWide ==
  /\ tick # "idle" /\ inUse <= Width
  /\ inUse' = inUse + 1
  /\ TrialsUnchanged /\ UNCHANGED <<tick, granted>>

StartJob ==
  /\ tick # "idle" /\ inUse < Width
  /\ inUse' = inUse + 1
  /\ TrialsUnchanged /\ UNCHANGED <<tick, granted>>

EndJob ==
  /\ inUse > 0
  /\ inUse' = inUse - 1
  /\ TrialsUnchanged /\ UNCHANGED <<tick, granted>>

After(phase) ==
  CASE phase = "collect" -> "batches"
    [] phase = "batches" -> "merge"
    [] phase = "merge"   -> "crashes"
    [] phase = "crashes" -> "idle"

\* A pool is left only when its futures are done; a failure ends the tick there.
EndPhase ==
  /\ tick # "idle" /\ inUse = 0
  /\ tick' \in {After(tick), "idle"}
  /\ TrialsUnchanged /\ UNCHANGED <<granted, inUse>>

Next ==
  \/ \E t \in Trials : Begin(t) \/ Register(t) \/ Launch(t) \/ StopContainer(t) \/ Unregister(t)
  \/ StartTick \/ StartJob \/ EndJob \/ EndPhase

Spec == Init /\ [][Next]_vars

-----------------------------------------------------------------------------
(* Properties.                                                              *)

\* Every variable has its type; a tick never counts more jobs than the budget.
TypeOK ==
  /\ trial \in [Trials -> TrialStates]
  /\ campaign \in SUBSET Trials
  /\ tick \in Phases \cup {"idle"}
  /\ granted \in Jobs..ParallelJobs
  /\ inUse \in 0..ParallelJobs

\* README.rst:221 "Total job budget shared by trials and snapshot workers":
\* fuzzing containers and measurement jobs together never exceed the budget,
\* although a tick keeps using the number it read when it started.
BudgetRespected == Cardinality(Fuzzing) + inUse <= ParallelJobs

\* The budgets of successive ticks never shrink: what one tick was granted the
\* next one gets as well, so late ticks are not slowed down by the reclaiming.
GrantsNeverShrink == [][granted' >= granted]_vars

\* The inductive invariant behind BudgetRespected: an enlarged grant is only made
\* when every trial has registered, and from then on _active can only shrink.
GrantIsBacked ==
  granted > Jobs => /\ campaign = Trials
                    /\ granted + Cardinality(Active) <= ParallelJobs

BudgetInv ==
  /\ TypeOK
  /\ Cardinality(InPool) <= TrialWorkers
  /\ \A t \in Trials : trial[t] \in {"queued", "preparing"} => t \notin campaign
  /\ GrantIsBacked
  /\ inUse <= Width
  /\ tick = "idle" => inUse = 0
=============================================================================
