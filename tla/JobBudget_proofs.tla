--------------------------- MODULE JobBudget_proofs ---------------------------
(***************************************************************************)
(* Proofs about JobBudget, for every set of trials and every budget: the   *)
(* job budget is respected at all times, and the grants of successive      *)
(* ticks never shrink. Both follow from the inductive invariant BudgetInv. *)
(***************************************************************************)
EXTENDS JobBudget, FiniteSetTheorems, TLAPS

\* What _live_resource_plan returns: at least one job on either side, and no
\* job counted on both.
LEMMA PlanSplitsBudget ==
  /\ Jobs \in Nat /\ Jobs >= 1 /\ Jobs < ParallelJobs
  /\ TrialWorkers \in Nat /\ TrialWorkers >= 1
  /\ TrialWorkers + Jobs = ParallelJobs
<1>1. Jobs \in Nat /\ Jobs >= 1 /\ Jobs < ParallelJobs
  <2>1. CASE SnapshotJobs # 0
    BY <2>1, BudgetAssumption DEF Jobs
  <2>2. CASE SnapshotJobs = 0 /\ ParallelJobs = 2
    BY <2>2, BudgetAssumption DEF Jobs
  <2>3. CASE SnapshotJobs = 0 /\ ParallelJobs # 2
    <3>1. ParallelJobs \in Nat /\ ParallelJobs >= 3
      BY <2>3, BudgetAssumption
    <3>2. /\ ParallelJobs \div 3 \in Nat /\ ParallelJobs \div 3 >= 1
          /\ ParallelJobs \div 3 < ParallelJobs
      BY <3>1
    <3> QED
      BY <2>3, <3>2 DEF Jobs
  <2> QED
    BY <2>1, <2>2, <2>3
<1> QED
  BY <1>1, BudgetAssumption DEF TrialWorkers

\* Sets of trials are finite and their sizes are ordered by inclusion.
LEMMA TrialSets ==
  ASSUME NEW Q \in SUBSET Trials, NEW P \in SUBSET Q
  PROVE  /\ IsFiniteSet(P) /\ IsFiniteSet(Q)
         /\ Cardinality(P) \in Nat /\ Cardinality(Q) \in Nat
         /\ Cardinality(P) <= Cardinality(Q)
<1>1. IsFiniteSet(Q)
  BY BudgetAssumption, FS_Subset
<1>2. IsFiniteSet(P) /\ Cardinality(P) <= Cardinality(Q)
  BY <1>1, FS_Subset
<1> QED
  BY <1>1, <1>2, FS_CardinalityType

\* The three sets of trials the budget counts are nested and finite.
LEMMA PoolSizes ==
  /\ IsFiniteSet(InPool) /\ IsFiniteSet(Active)
  /\ Cardinality(InPool) \in Nat /\ Cardinality(Active) \in Nat
  /\ Cardinality(Fuzzing) \in Nat
  /\ Cardinality(Active) <= Cardinality(InPool)
  /\ Cardinality(Fuzzing) <= Cardinality(Active)
<1>1. InPool \in SUBSET Trials /\ Active \in SUBSET InPool
  BY DEF InPool, Active
<1>2. Active \in SUBSET Trials /\ Fuzzing \in SUBSET Active
  BY DEF Active, Fuzzing
<1> QED
  BY <1>1, <1>2, TrialSets

LEMMA InitInv == Init => BudgetInv
<1> SUFFICES ASSUME Init PROVE BudgetInv
  OBVIOUS
<1>1. TypeOK
  BY PlanSplitsBudget, BudgetAssumption DEF Init, TypeOK, TrialStates
<1>2. InPool = {} /\ Cardinality(InPool) = 0
  BY FS_EmptySet DEF Init, InPool
<1>3. Cardinality(InPool) <= TrialWorkers
  BY <1>2, PlanSplitsBudget
<1>4. GrantIsBacked
  BY PlanSplitsBudget DEF Init, GrantIsBacked
<1>5. inUse <= Width
  BY PlanSplitsBudget DEF Init, Width
<1> QED
  BY <1>1, <1>3, <1>4, <1>5 DEF Init, BudgetInv

\* A tick that starts is granted at least its reserved share and at least what
\* the tick before it had, and what it is granted is backed by idle slots.
LEMMA TickJobsBounds ==
  ASSUME BudgetInv
  PROVE  /\ TickJobs \in Jobs..ParallelJobs
         /\ TickJobs >= granted
         /\ TickJobs > Jobs => /\ campaign = Trials
                               /\ TickJobs + Cardinality(Active) <= ParallelJobs
<1>1. granted \in Jobs..ParallelJobs /\ GrantIsBacked
  BY DEF BudgetInv, TypeOK
<1>2. ParallelJobs \in Nat
  BY BudgetAssumption
<1> DEFINE spare == ParallelJobs - Cardinality(Active)
<1>3. TickJobs = IF campaign = Trials /\ spare > Jobs THEN spare ELSE Jobs
  BY DEF TickJobs
<1>4. granted > Jobs => campaign = Trials /\ spare >= granted
  BY <1>1, <1>2, PlanSplitsBudget, PoolSizes DEF GrantIsBacked
<1>5. spare \in Int /\ spare <= ParallelJobs
  BY <1>2, PoolSizes
<1> HIDE DEF spare
<1>6. CASE campaign = Trials /\ spare > Jobs
  <2>1. TickJobs = spare
    BY <1>3, <1>6
  <2>2. spare \in Jobs..ParallelJobs /\ spare >= granted
    BY <1>1, <1>2, <1>4, <1>5, <1>6, PlanSplitsBudget
  <2>3. spare + Cardinality(Active) <= ParallelJobs
    BY <1>2, PoolSizes DEF spare
  <2> QED
    BY <1>6, <2>1, <2>2, <2>3
<1>7. CASE ~(campaign = Trials /\ spare > Jobs)
  <2>1. TickJobs = Jobs
    BY <1>3, <1>7
  <2>2. ~(granted > Jobs)
    BY <1>1, <1>4, <1>5, <1>7, PlanSplitsBudget
  <2> QED
    BY <1>1, <1>2, <2>1, <2>2, PlanSplitsBudget
<1> QED
  BY <1>6, <1>7

-----------------------------------------------------------------------------
(* Steps of a trial. They leave the tick alone, so only the conjuncts about *)
(* the pool, the campaign and the backing of the grant are at stake.        *)

LEMMA BeginInv ==
  ASSUME BudgetInv, NEW t \in Trials, Begin(t)
  PROVE  BudgetInv'
<1> USE DEF Begin, Goto, TickUnchanged
<1>1. TypeOK'
  BY DEF BudgetInv, TypeOK, TrialStates
<1>2. InPool' = InPool \cup {t} /\ t \notin InPool
  BY DEF BudgetInv, TypeOK, InPool
<1>3. Cardinality(InPool') <= TrialWorkers
  <2>1. Cardinality(InPool \cup {t}) = Cardinality(InPool) + 1
    BY <1>2, PoolSizes, FS_AddElement
  <2>2. Cardinality(InPool) < TrialWorkers
    OBVIOUS
  <2> QED
    BY <1>2, <2>1, <2>2, PoolSizes, PlanSplitsBudget
<1>4. Active' = Active
  BY DEF BudgetInv, TypeOK, Active
<1>5. \A s \in Trials : trial'[s] \in {"queued", "preparing"} => s \notin campaign'
  BY DEF BudgetInv, TypeOK
<1> QED
  BY <1>1, <1>3, <1>4, <1>5 DEF BudgetInv, GrantIsBacked, Width

\* The trial is in no registered set yet, so the campaign is not complete and
\* the tick in flight holds no slot but its own.
LEMMA RegisterInv ==
  ASSUME BudgetInv, NEW t \in Trials, Register(t)
  PROVE  BudgetInv'
<1> USE DEF Register, Goto, TickUnchanged
<1>1. TypeOK'
  BY DEF BudgetInv, TypeOK, TrialStates
<1>2. InPool' = InPool
  BY DEF BudgetInv, TypeOK, InPool
<1>3. campaign # Trials
  BY DEF BudgetInv
<1>4. ~(granted > Jobs)
  BY <1>3 DEF BudgetInv, GrantIsBacked
<1>5. \A s \in Trials : trial'[s] \in {"queued", "preparing"} => s \notin campaign'
  BY DEF BudgetInv, TypeOK
<1> QED
  BY <1>1, <1>2, <1>4, <1>5 DEF BudgetInv, GrantIsBacked, Width

LEMMA LaunchInv ==
  ASSUME BudgetInv, NEW t \in Trials, Launch(t) \/ StopContainer(t)
  PROVE  BudgetInv'
<1> USE DEF Launch, StopContainer, Goto, TickUnchanged
<1>1. TypeOK'
  BY DEF BudgetInv, TypeOK, TrialStates
<1>2. InPool' = InPool
  BY DEF BudgetInv, TypeOK, InPool
<1>3. Active' = Active
  BY DEF BudgetInv, TypeOK, Active
<1>4. \A s \in Trials : trial'[s] \in {"queued", "preparing"} => s \notin campaign'
  BY DEF BudgetInv, TypeOK
<1> QED
  BY <1>1, <1>2, <1>3, <1>4 DEF BudgetInv, GrantIsBacked, Width

LEMMA UnregisterInv ==
  ASSUME BudgetInv, NEW t \in Trials, Unregister(t)
  PROVE  BudgetInv'
<1> USE DEF Unregister, Goto, TickUnchanged
<1>1. TypeOK'
  BY DEF BudgetInv, TypeOK, TrialStates
<1>2. InPool' \in SUBSET InPool
  BY DEF BudgetInv, TypeOK, InPool
<1>3. Active' \in SUBSET Active
  BY DEF BudgetInv, TypeOK, Active
<1>4. InPool \in SUBSET Trials /\ Active \in SUBSET Trials
  BY DEF InPool, Active
<1>5. /\ Cardinality(InPool') \in Nat /\ Cardinality(Active') \in Nat
      /\ Cardinality(InPool') <= Cardinality(InPool)
      /\ Cardinality(Active') <= Cardinality(Active)
  BY <1>2, <1>3, <1>4, TrialSets
<1>6. Cardinality(InPool') <= TrialWorkers
  BY <1>5, PoolSizes, PlanSplitsBudget DEF BudgetInv
<1>7. GrantIsBacked'
  <2>1. granted \in Nat /\ ParallelJobs \in Nat
    BY PlanSplitsBudget, BudgetAssumption DEF BudgetInv, TypeOK
  <2>2. GrantIsBacked
    BY DEF BudgetInv
  <2> QED
    BY <1>5, <2>1, <2>2, PoolSizes DEF GrantIsBacked
<1>8. \A s \in Trials : trial'[s] \in {"queued", "preparing"} => s \notin campaign'
  BY DEF BudgetInv, TypeOK
<1> QED
  BY <1>1, <1>6, <1>7, <1>8 DEF BudgetInv, Width

-----------------------------------------------------------------------------
(* Steps of the tick. They leave the trials alone.                          *)

LEMMA TickStepInv ==
  ASSUME BudgetInv, StartTick \/ StartJob \/ EndJob \/ EndPhase
  PROVE  BudgetInv'
<1> USE DEF TrialsUnchanged
<1>1. /\ trial' = trial /\ campaign' = campaign
      /\ InPool' = InPool /\ Active' = Active
  BY DEF StartTick, StartJob, EndJob, EndPhase, InPool, Active
<1>2. \A t \in Trials : trial'[t] \in {"queued", "preparing"} => t \notin campaign'
  BY <1>1 DEF BudgetInv
<1>3. /\ granted \in Nat /\ granted >= 1 /\ granted <= ParallelJobs
      /\ inUse \in Nat /\ inUse <= Width /\ ParallelJobs \in Nat
  BY PlanSplitsBudget, BudgetAssumption DEF BudgetInv, TypeOK
<1>4. CASE StartTick
  <2>1. GrantIsBacked' /\ granted' \in Jobs..ParallelJobs
    BY <1>1, <1>4, TickJobsBounds DEF StartTick, GrantIsBacked
  <2>2. inUse' = 0
    BY <1>4 DEF StartTick, BudgetInv
  <2>3. inUse' <= Width'
    BY <1>4, <2>1, <2>2, PlanSplitsBudget, BudgetAssumption DEF StartTick, Width
  <2>4. TypeOK'
    BY <1>1, <1>4, <2>1, <2>2, BudgetAssumption DEF StartTick, TypeOK, BudgetInv, Phases
  <2> QED
    BY <1>1, <1>2, <1>4, <2>1, <2>2, <2>3, <2>4 DEF BudgetInv
<1>5. CASE StartJob
  <2>1. /\ tick # "idle" /\ tick' = tick /\ granted' = granted
        /\ inUse < Width /\ inUse' = inUse + 1
    BY <1>5 DEF StartJob
  <2>2. Width \in Nat /\ Width <= ParallelJobs /\ Width' = Width
    BY <1>3, <2>1, PlanSplitsBudget DEF Width
  <2>3. inUse' \in 0..ParallelJobs /\ inUse' <= Width'
    BY <1>3, <2>1, <2>2
  <2>4. TypeOK'
    BY <1>1, <2>1, <2>3 DEF TypeOK, BudgetInv
  <2> QED
    BY <1>1, <1>2, <2>1, <2>3, <2>4 DEF BudgetInv, GrantIsBacked
<1>6. CASE EndJob
  <2>1. tick' = tick /\ granted' = granted /\ inUse > 0 /\ inUse' = inUse - 1
    BY <1>6 DEF EndJob
  <2>2. Width \in Nat /\ Width' = Width
    BY <1>3, <2>1 DEF Width
  <2>3. inUse <= ParallelJobs /\ inUse # 0
    BY <1>3, <2>1 DEF BudgetInv, TypeOK
  <2>4. inUse' \in 0..ParallelJobs /\ inUse' <= Width'
    BY <1>3, <2>1, <2>2, <2>3
  <2>5. tick # "idle"
    BY <2>3 DEF BudgetInv
  <2>6. TypeOK'
    BY <1>1, <2>1, <2>4 DEF TypeOK, BudgetInv
  <2> QED
    BY <1>1, <1>2, <2>1, <2>4, <2>5, <2>6 DEF BudgetInv, GrantIsBacked
<1>7. CASE EndPhase
  <2>1. granted' = granted /\ inUse' = 0 /\ inUse = 0
    BY <1>7 DEF EndPhase
  <2>2. tick' \in Phases \cup {"idle"}
    BY <1>7 DEF EndPhase, After, BudgetInv, TypeOK, Phases
  <2>3. inUse' <= Width'
    BY <1>3, <2>1 DEF Width
  <2>4. TypeOK'
    BY <1>1, <1>3, <2>1, <2>2 DEF TypeOK, BudgetInv
  <2> QED
    BY <1>1, <1>2, <2>1, <2>3, <2>4 DEF BudgetInv, GrantIsBacked
<1> QED
  BY <1>4, <1>5, <1>6, <1>7

LEMMA NextInv == BudgetInv /\ [Next]_vars => BudgetInv'
<1> SUFFICES ASSUME BudgetInv, [Next]_vars PROVE BudgetInv'
  OBVIOUS
<1>1. ASSUME NEW t \in Trials,
             Begin(t) \/ Register(t) \/ Launch(t) \/ StopContainer(t) \/ Unregister(t)
      PROVE  BudgetInv'
  BY <1>1, BeginInv, RegisterInv, LaunchInv, UnregisterInv
<1>2. CASE StartTick \/ StartJob \/ EndJob \/ EndPhase
  BY <1>2, TickStepInv
<1>3. CASE UNCHANGED vars
  BY <1>3 DEF vars, BudgetInv, TypeOK, InPool, Active, GrantIsBacked, Width
<1> QED
  BY <1>1, <1>2, <1>3 DEF Next

-----------------------------------------------------------------------------

\* The inductive invariant holds in every reachable state of the split budget
\* (scheduler.py:_tick_jobs, run/runner.py:_live_resource_plan).
THEOREM InvHolds == Spec => []BudgetInv
  BY InitInv, NextInv, PTL DEF Spec

\* Every variable keeps its type; in particular a tick is granted at least the
\* reserved jobs and never more than the whole budget.
THEOREM TypeCorrect == Spec => []TypeOK
<1>1. BudgetInv => TypeOK
  BY DEF BudgetInv
<1> QED
  BY <1>1, InvHolds, PTL

\* Fuzzing containers and measurement jobs together never exceed
\* run.parallel_jobs, although the grant of a tick is read once when it starts.
THEOREM BudgetHolds == Spec => []BudgetRespected
<1>1. ASSUME BudgetInv PROVE BudgetRespected
  <2>1. /\ granted \in Nat /\ granted >= Jobs /\ inUse \in Nat /\ inUse <= granted
        /\ ParallelJobs \in Nat
    BY <1>1, PlanSplitsBudget, BudgetAssumption DEF BudgetInv, TypeOK, Width
  <2>2. CASE granted > Jobs
    <3>1. granted + Cardinality(Active) <= ParallelJobs
      BY <1>1, <2>2 DEF BudgetInv, GrantIsBacked
    <3> QED
      BY <2>1, <3>1, PoolSizes DEF BudgetRespected
  <2>3. CASE ~(granted > Jobs)
    <3>1. Cardinality(InPool) <= TrialWorkers
      BY <1>1 DEF BudgetInv
    <3> QED
      BY <2>1, <2>3, <3>1, PlanSplitsBudget, PoolSizes DEF BudgetRespected
  <2> QED
    BY <2>2, <2>3
<1> QED
  BY <1>1, InvHolds, PTL

\* No tick is granted fewer jobs than the tick before it.
THEOREM GrantsOnlyGrow == Spec => GrantsNeverShrink
<1>1. ASSUME BudgetInv, [Next]_vars PROVE [granted' >= granted]_vars
  <2>1. granted \in Int
    BY <1>1, PlanSplitsBudget DEF BudgetInv, TypeOK
  <2>2. CASE StartTick
    BY <1>1, <2>2, TickJobsBounds DEF StartTick
  <2>3. CASE granted' = granted
    BY <2>1, <2>3
  <2>4. Next => StartTick \/ granted' = granted
    BY DEF Next, Begin, Register, Launch, StopContainer, Unregister, TickUnchanged,
           StartJob, EndJob, EndPhase
  <2> QED
    BY <1>1, <2>2, <2>3, <2>4
<1> QED
  BY <1>1, InvHolds, PTL DEF Spec, GrantsNeverShrink
=============================================================================
