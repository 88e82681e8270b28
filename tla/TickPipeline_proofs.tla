-------------------------- MODULE TickPipeline_proofs --------------------------
(***************************************************************************)
(* Proofs about TickPipeline, for any trials, pool size, cadence and       *)
(* campaign, with signals and database outages: a run has at most one      *)
(* failed tick, no tick interrupted by a sweep is reported as failed, and  *)
(* a recorded outcome is final. All rest on the inductive invariant RowInv.*)
(* Without outages, a row is lost by no thread, a normal return means that *)
(* everything was measured, and a failure ends measuring: these rest on    *)
(* CalmInv and EndInv.                                                     *)
(* The second part is about the order of the rows: a trial's snapshots are *)
(* its grid points, none skipped, and they are taken and measured oldest   *)
(* first. It rests on GridInv and OrderInv, which strengthen RowInv.       *)
(***************************************************************************)
EXTENDS TickPipeline, SequenceTheorems, FiniteSetTheorems, TLAPS

-----------------------------------------------------------------------------
(* What the operations on rows and queue do.                                *)

LEMMA TickIdxType ==
  ASSUME TypeOK
  PROVE  /\ Len(ticks) \in Nat /\ TickIdx \subseteq Nat \ {None}
         /\ Len(ticks) + 1 \notin TickIdx /\ Len(ticks) + 1 # None
         /\ Len(queue) \in Nat /\ DOMAIN queue = 1..Len(queue)
         /\ \A k \in DOMAIN queue : queue[k] \in TickIdx \cup {None}
         /\ DOMAIN status = TickIdx
<1>1. Len(ticks) \in Nat /\ Len(queue) \in Nat /\ DOMAIN queue = 1..Len(queue)
  BY LenProperties DEF TypeOK
<1>2. \A k \in DOMAIN queue : queue[k] \in TickIdx \cup {None}
  BY <1>1, ElementOfSeq DEF TypeOK
<1>3. DOMAIN status = TickIdx
  BY LenProperties DEF TypeOK, TickIdx
<1> QED
  BY <1>1, <1>2, <1>3 DEF TickIdx, None

LEMMA InsertFacts ==
  ASSUME TypeOK, NEW ts \in Nat, NEW trials \in SUBSET Trials, InsertTick(ts, trials)
  PROVE  /\ ticks' \in Seq(Due) /\ status' \in Seq(Statuses) /\ Len(status') = Len(ticks')
         /\ TickIdx' = TickIdx \cup {Len(ticks) + 1}
         /\ queue' = queue /\ queue' \in Seq((TickIdx \cup {None})')
         /\ status'[Len(ticks) + 1] = "pending"
         /\ \A i \in TickIdx : status'[i] = status[i]
<1>1. [ts |-> ts, trials |-> trials] \in Due /\ "pending" \in Statuses
  BY DEF Due, Statuses
<1>2. ticks' \in Seq(Due) /\ Len(ticks') = Len(ticks) + 1
  BY <1>1, AppendProperties DEF InsertTick, TypeOK
<1>3. /\ status' \in Seq(Statuses) /\ Len(status') = Len(status) + 1
      /\ \A i \in 1..Len(status) : status'[i] = status[i]
      /\ status'[Len(status) + 1] = "pending"
  BY <1>1, AppendProperties DEF InsertTick, TypeOK
<1>4. TickIdx' = TickIdx \cup {Len(ticks) + 1}
  BY <1>2, TickIdxType DEF TickIdx
<1>5. queue' = queue /\ queue' \in Seq((TickIdx \cup {None})')
  BY <1>4, SeqMonotonic DEF InsertTick, TypeOK
<1> QED
  BY <1>2, <1>3, <1>4, <1>5 DEF TypeOK, TickIdx

LEMMA EnqueueFacts ==
  ASSUME TypeOK, NEW item \in TickIdx \cup {None}, Enqueue(item)
  PROVE  /\ ticks' = ticks /\ status' = status /\ TickIdx' = TickIdx
         /\ queue' \in Seq(TickIdx \cup {None})
         /\ Len(queue') = Len(queue) + 1 /\ DOMAIN queue' = 1..Len(queue) + 1
         /\ \A k \in DOMAIN queue : queue'[k] = queue[k]
         /\ queue'[Len(queue) + 1] = item
         /\ Queued' = Queued \cup {item}
<1>1. ticks' = ticks /\ status' = status /\ TickIdx' = TickIdx
  BY DEF Enqueue, TickIdx
<1>2. /\ queue' \in Seq(TickIdx \cup {None}) /\ Len(queue') = Len(queue) + 1
      /\ \A k \in 1..Len(queue) : queue'[k] = queue[k]
      /\ queue'[Len(queue) + 1] = item
  BY AppendProperties DEF Enqueue, TypeOK
<1>3. DOMAIN queue' = 1..Len(queue) + 1
  BY <1>2, LenProperties
<1>4. Queued' = Queued \cup {item}
  BY <1>2, <1>3, TickIdxType DEF Queued
<1> QED
  BY <1>1, <1>2, <1>3, <1>4, TickIdxType

LEMMA DequeueFacts ==
  ASSUME TypeOK, queue # <<>>, queue' = Tail(queue)
  PROVE  /\ Head(queue) \in TickIdx \cup {None}
         /\ Head(queue) \in Queued /\ 1 \in DOMAIN queue /\ Head(queue) = queue[1]
         /\ queue' \in Seq(TickIdx \cup {None})
         /\ \A k \in DOMAIN queue' : k + 1 \in DOMAIN queue /\ queue'[k] = queue[k + 1]
                                     /\ k \in Nat \ {0}
         /\ Queued' \subseteq Queued
<1>1. /\ Head(queue) \in TickIdx \cup {None} /\ queue' \in Seq(TickIdx \cup {None})
      /\ Len(queue') = Len(queue) - 1
      /\ \A k \in 1..Len(queue') : queue'[k] = queue[k + 1]
  BY HeadTailProperties DEF TypeOK
<1>2. DOMAIN queue' = 1..Len(queue')
  BY <1>1, LenProperties
<1>3. Len(queue) \in Nat \ {0} /\ DOMAIN queue = 1..Len(queue)
  BY EmptySeq, LenProperties DEF TypeOK
<1>4. Head(queue) = queue[1] /\ 1 \in DOMAIN queue
  BY <1>3
<1>5. \A k \in DOMAIN queue' : k + 1 \in DOMAIN queue /\ queue'[k] = queue[k + 1]
                               /\ k \in Nat \ {0}
  BY <1>1, <1>2, <1>3
<1> QED
  BY <1>1, <1>4, <1>5 DEF Queued

LEMMA MarkFacts ==
  ASSUME TypeOK, NEW idx \in TickIdx, NEW outcome \in Statuses, Mark(idx, outcome)
  PROVE  /\ status' \in Seq(Statuses) /\ Len(status') = Len(status)
         /\ status'[idx] = outcome
         /\ \A i \in TickIdx \ {idx} : status'[i] = status[i]
  BY ExceptSeq DEF TypeOK, TickIdx, Mark

\* The first tick of the queue is taken out: nobody else holds it any more.
LEMMA TakeFacts ==
  ASSUME RowInv, queue # <<>>, queue' = Tail(queue)
  PROVE  /\ \A k, l \in DOMAIN queue' : queue'[k] = queue'[l] => k = l \/ queue'[k] = None
         /\ Head(queue) # None =>
              /\ Head(queue) \in TickIdx \ {cur, emitting, ToPut}
              /\ Head(queue) \notin Queued'
              /\ status[Head(queue)] = "pending"
<1>1. TypeOK /\ RowsAreHeldOnce
  BY DEF RowInv
<1>2. /\ Head(queue) \in TickIdx \cup {None}
      /\ Head(queue) \in Queued /\ 1 \in DOMAIN queue /\ Head(queue) = queue[1]
      /\ \A k \in DOMAIN queue' : k + 1 \in DOMAIN queue /\ queue'[k] = queue[k + 1]
                                  /\ k \in Nat \ {0}
  BY <1>1, DequeueFacts
<1>3. \A k, l \in DOMAIN queue' : queue'[k] = queue'[l] => k = l \/ queue'[k] = None
  BY <1>1, <1>2 DEF RowsAreHeldOnce
<1>4. ASSUME Head(queue) # None, Head(queue) \in Queued' PROVE FALSE
  <2>1. PICK k \in DOMAIN queue' : queue'[k] = Head(queue)
    BY <1>4 DEF Queued
  <2>2. k + 1 \in DOMAIN queue /\ queue[k + 1] = queue[1] /\ k \in Nat \ {0}
    BY <1>2, <2>1
  <2>3. k + 1 = 1
    BY <1>1, <1>2, <1>4, <2>2 DEF RowsAreHeldOnce
  <2> QED
    BY <2>2, <2>3
<1> QED
  BY <1>1, <1>2, <1>3, <1>4 DEF RowsAreHeldOnce

-----------------------------------------------------------------------------
(* Steps that touch no row, no queue and nobody's hold of a tick.           *)

LEMMA QuietRows ==
  ASSUME RowInv, UNCHANGED <<ticks, status, queue, cur, emitting>>,
         ToPut' \in {ToPut, None}, worker' = "measure" <=> worker = "measure"
  PROVE  RowsAreHeldOnce' /\ AtMostOneFailure' /\ TickIdx' = TickIdx
<1>1. TickIdx' = TickIdx /\ Queued' = Queued
  BY DEF TickIdx, Queued
<1>2. AtMostOneFailure'
  BY <1>1 DEF RowInv, AtMostOneFailure
<1> QED
  BY <1>1, <1>2 DEF RowInv, RowsAreHeldOnce

LEMMA ProductType == ASSUME NEW a \in Nat, NEW b \in Nat PROVE a * b \in Nat
  OBVIOUS

\* What run_loop computes from the due table is well typed.
LEMMA DueTypes ==
  ASSUME TypeOK, NEW t \in Trials
  PROVE  DueTimes(t) \subseteq Nat /\ DueAfter(t) \in Nat /\ FirstDue(t) \in Nat
<1>1. now \in Nat /\ nextDue[t] \in Nat /\ startTs[t] \in Nat /\ Every \in Nat \ {0}
      /\ Campaign \in Nat
  BY PipelineAssumption DEF TypeOK
<1>2. DueTimes(t) \subseteq Nat
  BY <1>1 DEF DueTimes
<1>3. ASSUME ~(nextDue[t] > now)
      PROVE  nextDue[t] + ((now - nextDue[t]) \div Every + 1) * Every \in Nat
  <2>1. now - nextDue[t] \in Nat
    BY <1>1, <1>3
  <2>2. (now - nextDue[t]) \div Every + 1 \in Nat
    BY <1>1, <2>1
  <2>3. ((now - nextDue[t]) \div Every + 1) * Every \in Nat
    BY <1>1, <2>2, ProductType
  <2> QED
    BY <1>1, <2>3
<1>4. DueAfter(t) \in Nat
  BY <1>1, <1>3 DEF DueAfter, NoDue
<1>5. FirstDue(t) \in Nat
  BY <1>1 DEF FirstDue, NoDue
<1> QED
  BY <1>2, <1>4, <1>5

\* Time and the trial threads.
LEMMA TrialInv ==
  ASSUME RowInv, Tick \/ \E t \in Trials : TrialStep(t) \/ TrialCrash(t)
  PROVE  RowInv'
<1>1. UNCHANGED <<tickVars, schedVars, workerVars, mainVars, flagVars, swept>>
  BY DEF Tick, TrialStep, TrialBegin, TrialRegister, TrialLaunch, TrialRefused, TrialEnd,
         TrialCrash, Unregister, TrialFrame
<1>2. /\ UNCHANGED <<ticks, status, queue, batch, sched, emitting, worker, cur, main,
                     finalTick, signalled, stopFlag, stopEvent, fatal, swept>>
      /\ ToPut' = ToPut /\ TickIdx' = TickIdx
  BY <1>1 DEF tickVars, schedVars, workerVars, mainVars, flagVars, ToPut, TickIdx
<1>3. now' \in Nat /\ trial' \in [Trials -> TrialStates]
      /\ startTs' \in [Trials -> Nat] /\ nextDue' \in [Trials -> Nat]
  <2>1. TypeOK
    BY DEF RowInv
  <2>2. CASE Tick
    BY <2>1, <2>2 DEF Tick, TypeOK, trialVars
  <2>3. ASSUME NEW t \in Trials, TrialRegister(t)
        PROVE  now' \in Nat /\ trial' \in [Trials -> TrialStates]
               /\ startTs' \in [Trials -> Nat] /\ nextDue' \in [Trials -> Nat]
    BY <2>1, <2>3, DueTypes DEF TrialRegister, TypeOK, TrialStates, TrialFrame
  <2>4. ASSUME NEW t \in Trials, TrialBegin(t) \/ TrialLaunch(t)
        PROVE  now' \in Nat /\ trial' \in [Trials -> TrialStates]
               /\ startTs' \in [Trials -> Nat] /\ nextDue' \in [Trials -> Nat]
    BY <2>1, <2>4 DEF TrialBegin, TrialLaunch, TypeOK, TrialStates, TrialFrame
  <2>5. ASSUME NEW t \in Trials, TrialRefused(t) \/ TrialEnd(t) \/ TrialCrash(t)
        PROVE  now' \in Nat /\ trial' \in [Trials -> TrialStates]
               /\ startTs' \in [Trials -> Nat] /\ nextDue' \in [Trials -> Nat]
    <3>1. PICK result \in {"done", "failed"} : Unregister(t, result)
      BY <2>5 DEF TrialRefused, TrialEnd, TrialCrash
    <3> QED
      BY <2>1, <3>1 DEF Unregister, NoDue, TypeOK, TrialStates, TrialFrame
  <2> QED
    BY <2>2, <2>3, <2>4, <2>5 DEF TrialStep
<1>4. TypeOK'
  BY <1>2, <1>3 DEF RowInv, TypeOK
<1>5. RowsAreHeldOnce' /\ AtMostOneFailure'
  BY <1>2, QuietRows
<1>6. FailureStops' /\ SweptNotFailed'
  BY <1>2 DEF RowInv, FailureStops, SweptNotFailed
<1> QED
  BY <1>4, <1>5, <1>6 DEF RowInv

\* The scheduler thread between two ticks.
LEMMA SchedQuietInv ==
  ASSUME RowInv, SchedCollectDue \/ SchedNext \/ SchedFail \/ SchedFatal \/ SchedJoin
  PROVE  RowInv'
<1> USE DEF SchedCollectDue, SchedNext, SchedFail, SchedFatal, SchedJoin, SchedFrame,
            trialVars, tickVars, workerVars, mainVars, flagVars
<1>1. /\ UNCHANGED <<now, trial, startTs, ticks, status, queue, emitting, worker, cur,
                     main, finalTick, signalled, swept>>
      /\ ToPut' = ToPut /\ TickIdx' = TickIdx
  BY DEF ToPut, TickIdx
<1>2. TypeOK
  BY DEF RowInv
<1>3. nextDue' \in [Trials -> Nat] /\ batch' \in SUBSET Due
  <2>1. CASE SchedCollectDue
    BY <1>2, <2>1, DueTypes DEF Due
  <2>2. CASE nextDue' = nextDue /\ batch' = batch
    BY <1>2, <2>2 DEF TypeOK
  <2> QED
    BY <2>1, <2>2
<1>4. /\ sched' \in {"loop", "emit", "telemetry", "fatal", "finish", "join", "drain", "done"}
      /\ stopFlag' \in BOOLEAN /\ stopEvent' \in BOOLEAN /\ fatal' \in BOOLEAN
  BY <1>2 DEF TypeOK
<1>5. TypeOK'
  BY <1>1, <1>2, <1>3, <1>4 DEF TypeOK
<1>6. RowsAreHeldOnce' /\ AtMostOneFailure'
  BY <1>1, QuietRows
<1>7. FailureStops' /\ SweptNotFailed'
  BY <1>1, <1>2 DEF RowInv, FailureStops, SweptNotFailed, TypeOK
<1> QED
  BY <1>5, <1>6, <1>7 DEF RowInv

\* The tick worker after a measurement failed.
LEMMA WorkerQuietInv ==
  ASSUME RowInv, WorkerCheckStop \/ WorkerFatal
  PROVE  RowInv'
<1> USE DEF WorkerCheckStop, WorkerFatal, WorkerFrame, trialVars, tickVars, schedVars,
            mainVars
<1>1. /\ UNCHANGED <<now, trial, startTs, nextDue, ticks, status, queue, batch, sched,
                     emitting, cur, main, finalTick, signalled, swept>>
      /\ ToPut' = ToPut /\ TickIdx' = TickIdx
      /\ worker # "measure" /\ worker' # "measure"
  BY DEF ToPut, TickIdx
<1>2. TypeOK
  BY DEF RowInv
<1>3. TypeOK'
  BY <1>1, <1>2 DEF TypeOK
<1>4. RowsAreHeldOnce' /\ AtMostOneFailure'
  BY <1>1, QuietRows
<1>5. FailureStops' /\ SweptNotFailed'
  BY <1>1, <1>2 DEF RowInv, FailureStops, SweptNotFailed, TypeOK
<1> QED
  BY <1>3, <1>4, <1>5 DEF RowInv

\* The main thread and its signal handler, sweeps aside.
LEMMA MainQuietInv ==
  ASSUME RowInv,
         \/ MainTrialsDone \/ MainTrialFailed \/ MainCheckRaises \/ MainStop \/ MainJoin
         \/ MainFlags \/ MainShutdownPool \/ MainJoinInterrupted \/ Signal
  PROVE  RowInv'
<1> USE DEF MainTrialsDone, MainTrialFailed, MainCheckRaises, MainStop, MainJoin, MainFlags,
            MainShutdownPool, MainJoinInterrupted, Signal, MainGoto, MainFrame,
            trialVars, tickVars, schedVars, workerVars, flagVars
<1>1. /\ UNCHANGED <<now, startTs, nextDue, ticks, status, queue, batch, sched, emitting,
                     worker, cur, finalTick, fatal, swept>>
      /\ main' # "put"
  OBVIOUS
<1>2. ToPut' = None /\ TickIdx' = TickIdx
  BY <1>1 DEF ToPut, TickIdx
<1>3. TypeOK
  BY DEF RowInv
<1>4. trial' \in [Trials -> TrialStates]
  <2>1. trial' = trial \/ CancelQueued
    OBVIOUS
  <2> QED
    BY <1>3, <2>1 DEF CancelQueued, TypeOK, TrialStates
<1>5. /\ main' \in MainPhases /\ signalled' \in BOOLEAN
      /\ stopFlag' \in BOOLEAN /\ stopEvent' \in BOOLEAN
  BY <1>3 DEF TypeOK, MainPhases
<1>6. TypeOK'
  BY <1>1, <1>2, <1>3, <1>4, <1>5 DEF TypeOK
<1>7. RowsAreHeldOnce' /\ AtMostOneFailure'
  BY <1>1, <1>2, QuietRows
<1>8. (stopEvent => stopEvent') /\ (main' \in SweepPhases => stopEvent')
  <2>1. CASE MainJoin
    BY <2>1 DEF SweepPhases, RowInv, FailureStops
  <2>2. CASE ~MainJoin
    BY <2>2 DEF SweepPhases, RowInv, FailureStops
  <2> QED
    BY <2>1, <2>2
<1>9. FailureStops' /\ SweptNotFailed'
  BY <1>1, <1>2, <1>3, <1>5, <1>8 DEF RowInv, FailureStops, SweptNotFailed, TypeOK
<1> QED
  BY <1>6, <1>7, <1>9 DEF RowInv

\* A sweep: the stop event is set, and the tick in hand is pending.
LEMMA SweepInv ==
  ASSUME RowInv, MainSweep \/ MainExit \/ SignalSweep
  PROVE  RowInv'
<1> USE DEF MainSweep, MainExit, SignalSweep, MainGoto, MainFrame, trialVars, tickVars,
            schedVars, workerVars, flagVars
<1>1. /\ UNCHANGED <<now, startTs, nextDue, ticks, status, queue, batch, sched, emitting,
                     worker, cur, finalTick, signalled, stopFlag, stopEvent, fatal>>
      /\ main' # "put" /\ main \in SweepPhases /\ Sweep
  BY DEF SweepPhases
<1>2. ToPut' = None /\ TickIdx' = TickIdx
  BY <1>1 DEF ToPut, TickIdx
<1>3. TypeOK /\ stopEvent
  BY <1>1 DEF RowInv, FailureStops
<1>4. trial' \in [Trials -> TrialStates] /\ main' \in MainPhases
  <2>1. trial' = trial \/ CancelQueued
    OBVIOUS
  <2> QED
    BY <1>3, <2>1 DEF CancelQueued, TypeOK, TrialStates, MainPhases
<1>5. swept' \in SUBSET TickIdx /\ SweptNotFailed'
  <2>1. worker = "measure" => cur \in TickIdx /\ status[cur] = "pending"
    BY <1>3 DEF RowInv, RowsAreHeldOnce, TypeOK
  <2> QED
    BY <1>1, <1>3, <2>1 DEF Sweep, RowInv, SweptNotFailed, TypeOK
<1>6. TypeOK'
  BY <1>1, <1>2, <1>3, <1>4, <1>5 DEF TypeOK
<1>7. RowsAreHeldOnce' /\ AtMostOneFailure'
  BY <1>1, <1>2, QuietRows
<1>8. FailureStops'
  BY <1>1, <1>2, <1>3 DEF RowInv, FailureStops
<1> QED
  BY <1>5, <1>6, <1>7, <1>8 DEF RowInv

-----------------------------------------------------------------------------
(* A row is inserted, and held by whoever inserted it.                      *)

LEMMA InsertRows ==
  ASSUME RowInv, NEW ts \in Nat, NEW trials \in SUBSET Trials, InsertTick(ts, trials),
         UNCHANGED <<worker, cur, stopEvent, fatal, swept>>,
         \/ emitting' = Len(ticks) + 1 /\ ToPut' = ToPut
         \/ emitting' = emitting /\ ToPut' = Len(ticks) + 1,
         main' \in SweepPhases => main \in SweepPhases,
         (sched \in {"drain", "done", "fatal"} \/ sched' \in {"drain", "done", "fatal"})
           => sched' = sched
  PROVE  RowsAreHeldOnce' /\ FailureStops' /\ AtMostOneFailure' /\ SweptNotFailed'
<1> DEFINE new == Len(ticks) + 1
<1>1. TypeOK /\ RowsAreHeldOnce /\ FailureStops
  BY DEF RowInv
<1>2. /\ TickIdx' = TickIdx \cup {new} /\ queue' = queue /\ Queued' = Queued
      /\ status'[new] = "pending" /\ \A i \in TickIdx : status'[i] = status[i]
  BY <1>1, InsertFacts DEF Queued
<1>3. new \notin TickIdx /\ new # None
  BY <1>1, TickIdxType
<1> HIDE DEF new
<1>4. Queued \subseteq TickIdx \cup {None} /\ ToPut \in TickIdx \cup {None}
  BY <1>1, TickIdxType DEF Queued, ToPut, TypeOK
<1>5. /\ cur \in TickIdx \cup {None} /\ emitting \in TickIdx \cup {None}
      /\ swept \subseteq TickIdx
  BY <1>1 DEF TypeOK
<1>6. new \notin Queued /\ new # cur /\ new # emitting /\ new # ToPut
  BY <1>3, <1>4, <1>5
<1>7. /\ \A i \in {cur, emitting, ToPut}' \ {None} : i \notin Queued'
      /\ cur' # None => cur' # emitting' /\ cur' # ToPut'
      /\ emitting' # None => emitting' # ToPut'
  BY <1>1, <1>2, <1>6 DEF RowsAreHeldOnce, new
<1>8. \A i \in (Queued \cup {cur, emitting, ToPut})' \ {None} : status'[i] = "pending"
  BY <1>1, <1>2, <1>4, <1>5 DEF RowsAreHeldOnce, new
<1>9. RowsAreHeldOnce'
  BY <1>1, <1>2, <1>7, <1>8 DEF RowsAreHeldOnce
<1>10. \A i \in TickIdx' : status'[i] = "failed" => i \in TickIdx /\ status[i] = "failed"
  BY <1>2
<1>11. AtMostOneFailure'
  BY <1>10 DEF RowInv, AtMostOneFailure
<1>12. FailureStops' /\ SweptNotFailed'
  BY <1>1, <1>2, <1>5, <1>10 DEF FailureStops, SweptNotFailed, RowInv
<1> QED
  BY <1>9, <1>11, <1>12

LEMMA InsertInv ==
  ASSUME RowInv, SchedInsert \/ MainFinalTick
  PROVE  RowInv'
<1> USE DEF trialVars, schedVars, workerVars, mainVars, flagVars
<1>1. TypeOK
  BY DEF RowInv
<1>2. CASE SchedInsert
  <2>1. PICK due \in batch : InsertTick(due.ts, due.trials) /\ batch' = batch \ {due}
    BY <1>2 DEF SchedInsert
  <2>2. due.ts \in Nat /\ due.trials \in SUBSET Trials
    BY <1>1, <2>1 DEF TypeOK, Due
  <2>3. /\ UNCHANGED <<now, trial, startTs, nextDue, worker, cur, main, finalTick,
                       signalled, stopFlag, stopEvent, fatal, swept>>
        /\ emitting' = Len(ticks) + 1 /\ ToPut' = ToPut
        /\ sched = "emit" /\ sched' = "telemetry"
    BY <1>2 DEF SchedInsert, SchedFrame, ToPut
  <2>4. /\ ticks' \in Seq(Due) /\ status' \in Seq(Statuses) /\ Len(status') = Len(ticks')
        /\ TickIdx' = TickIdx \cup {Len(ticks) + 1}
        /\ queue' \in Seq((TickIdx \cup {None})')
    BY <1>1, <2>1, <2>2, InsertFacts
  <2>5. TypeOK'
    BY <1>1, <2>1, <2>3, <2>4 DEF TypeOK
  <2>6. RowsAreHeldOnce' /\ FailureStops' /\ AtMostOneFailure' /\ SweptNotFailed'
    BY <2>1, <2>2, <2>3, InsertRows
  <2> QED
    BY <2>5, <2>6 DEF RowInv
<1>3. CASE MainFinalTick
  <2>1. InsertTick(now, CampaignTrials) /\ now \in Nat /\ CampaignTrials \in SUBSET Trials
    BY <1>1, <1>3 DEF MainFinalTick, TypeOK, CampaignTrials
  <2>2. /\ UNCHANGED <<now, trial, startTs, nextDue, batch, sched, emitting, worker, cur,
                       signalled, stopFlag, stopEvent, fatal, swept>>
        /\ finalTick' = Len(ticks) + 1 /\ main' = "put"
        /\ emitting' = emitting /\ ToPut' = Len(ticks) + 1
    BY <1>3 DEF MainFinalTick, MainFrame, ToPut
  <2>3. /\ ticks' \in Seq(Due) /\ status' \in Seq(Statuses) /\ Len(status') = Len(ticks')
        /\ TickIdx' = TickIdx \cup {Len(ticks) + 1}
        /\ queue' \in Seq((TickIdx \cup {None})')
    BY <1>1, <2>1, InsertFacts
  <2>4. TypeOK'
    BY <1>1, <2>2, <2>3 DEF TypeOK, MainPhases
  <2>5. main' \notin SweepPhases
    BY <2>2 DEF SweepPhases
  <2>6. RowsAreHeldOnce' /\ FailureStops' /\ AtMostOneFailure' /\ SweptNotFailed'
    BY <2>1, <2>2, <2>5, InsertRows
  <2> QED
    BY <2>4, <2>6 DEF RowInv
<1> QED
  BY <1>2, <1>3

-----------------------------------------------------------------------------
(* A row, or the sentinel, is put on the queue by whoever held it.          *)

LEMMA EnqueueRows ==
  ASSUME RowInv, NEW item \in {emitting, ToPut, None}, Enqueue(item),
         cur' = cur, worker' = worker,
         emitting' \in {emitting, None}, ToPut' \in {ToPut, None},
         item # None => emitting' # item /\ ToPut' # item
  PROVE  /\ RowsAreHeldOnce' /\ AtMostOneFailure'
         /\ ticks' = ticks /\ status' = status /\ TickIdx' = TickIdx
         /\ queue' \in Seq(TickIdx \cup {None})
<1>1. TypeOK /\ RowsAreHeldOnce
  BY DEF RowInv
<1>2. item \in TickIdx \cup {None}
  BY <1>1 DEF TypeOK, ToPut
<1>3. /\ ticks' = ticks /\ status' = status /\ TickIdx' = TickIdx
      /\ queue' \in Seq(TickIdx \cup {None})
      /\ DOMAIN queue' = 1..Len(queue) + 1
      /\ \A k \in DOMAIN queue : queue'[k] = queue[k]
      /\ queue'[Len(queue) + 1] = item
      /\ Queued' = Queued \cup {item}
  BY <1>1, <1>2, EnqueueFacts
<1>4. item # None => item \notin Queued /\ item # cur
  BY <1>1 DEF RowsAreHeldOnce
<1>5. Len(queue) \in Nat /\ DOMAIN queue = 1..Len(queue)
  BY <1>1, TickIdxType
<1>6. \A k \in DOMAIN queue' : k \in DOMAIN queue \/ k = Len(queue) + 1
  BY <1>3, <1>5
<1>7. \A k \in DOMAIN queue : queue[k] = item => item = None
  BY <1>4 DEF Queued
<1>8. \A k, l \in DOMAIN queue' : queue'[k] = queue'[l] => k = l \/ queue'[k] = None
  BY <1>1, <1>3, <1>6, <1>7 DEF RowsAreHeldOnce
<1>9. \A i \in {cur, emitting, ToPut}' \ {None} : i \notin Queued'
  BY <1>1, <1>3, <1>4 DEF RowsAreHeldOnce
<1>10. \A i \in (Queued \cup {cur, emitting, ToPut})' \ {None} : status'[i] = "pending"
  BY <1>1, <1>3 DEF RowsAreHeldOnce
<1>11. RowsAreHeldOnce'
  BY <1>1, <1>8, <1>9, <1>10 DEF RowsAreHeldOnce
<1>12. AtMostOneFailure'
  BY <1>3 DEF RowInv, AtMostOneFailure
<1> QED
  BY <1>3, <1>11, <1>12

LEMMA EnqueueInv ==
  ASSUME RowInv, SchedEnqueue \/ SchedSentinel \/ MainPutFinal
  PROVE  RowInv'
<1> USE DEF trialVars, schedVars, workerVars, mainVars, flagVars
<1>1. TypeOK
  BY DEF RowInv
<1>2. UNCHANGED <<now, trial, startTs, nextDue, batch, worker, cur, finalTick, signalled,
                  stopFlag, stopEvent, fatal, swept>>
  BY DEF SchedEnqueue, SchedSentinel, MainPutFinal, SchedFrame, MainFrame, MainGoto
<1>3. /\ RowsAreHeldOnce' /\ AtMostOneFailure'
      /\ ticks' = ticks /\ status' = status /\ TickIdx' = TickIdx
      /\ queue' \in Seq(TickIdx \cup {None})
  <2>1. CASE SchedEnqueue
    <3>1. emitting' = None /\ ToPut' = ToPut /\ Enqueue(emitting)
      BY <2>1 DEF SchedEnqueue, SchedFrame, ToPut
    <3>2. emitting # None => ToPut # emitting
      BY DEF RowInv, RowsAreHeldOnce
    <3> QED
      BY <1>2, <3>1, <3>2, EnqueueRows
  <2>2. CASE SchedSentinel
    <3>1. emitting' = emitting /\ ToPut' = ToPut /\ Enqueue(None)
      BY <2>2 DEF SchedSentinel, SchedFrame, ToPut
    <3> QED
      BY <1>2, <3>1, EnqueueRows
  <2>3. CASE MainPutFinal
    <3>1. emitting' = emitting /\ ToPut' = None /\ ToPut = finalTick /\ Enqueue(finalTick)
      BY <2>3 DEF MainPutFinal, MainGoto, MainFrame, ToPut
    <3>2. finalTick # None => emitting # finalTick
      BY <3>1 DEF RowInv, RowsAreHeldOnce
    <3> QED
      BY <1>2, <3>1, <3>2, EnqueueRows
  <2> QED
    BY <2>1, <2>2, <2>3
<1>4. /\ emitting' \in {emitting, None}
      /\ sched' = sched \/ (sched' \in {"emit", "join"} /\ sched \notin {"fatal", "drain", "done"})
      /\ main' = main \/ main' = "stop"
  BY DEF SchedEnqueue, SchedSentinel, MainPutFinal, SchedFrame, MainFrame, MainGoto
<1>5. TypeOK'
  BY <1>1, <1>2, <1>3, <1>4 DEF TypeOK, MainPhases
<1>6. FailureStops' /\ SweptNotFailed'
  BY <1>2, <1>3, <1>4 DEF RowInv, FailureStops, SweptNotFailed, SweepPhases
<1> QED
  BY <1>3, <1>5, <1>6 DEF RowInv

-----------------------------------------------------------------------------
(* A tick is taken from the queue, and rows are settled.                    *)

LEMMA TakeRows ==
  ASSUME RowInv, UNCHANGED <<ticks, emitting, ToPut>>,
         \/ queue' = queue /\ cur' \in {cur, None}
         \/ /\ queue # <<>> /\ queue' = Tail(queue)
            /\ cur' \in {cur, None} \/ (cur = None /\ cur' = Head(queue)),
         worker' = "measure" <=> cur' # None,
         \A i \in (Queued \cup {cur, emitting, ToPut})' \ {None} : status'[i] = status[i]
  PROVE  /\ RowsAreHeldOnce' /\ TickIdx' = TickIdx
         /\ queue' \in Seq(TickIdx \cup {None}) /\ cur' \in TickIdx \cup {None}
<1>1. TypeOK /\ RowsAreHeldOnce
  BY DEF RowInv
<1>2. TickIdx' = TickIdx
  BY DEF TickIdx
<1>3. CASE queue' = queue /\ cur' \in {cur, None}
  <2>1. Queued' = Queued
    BY <1>3 DEF Queued
  <2> QED
    BY <1>1, <1>2, <1>3, <2>1 DEF RowsAreHeldOnce, TypeOK
<1>4. CASE /\ queue # <<>> /\ queue' = Tail(queue)
           /\ cur' \in {cur, None} \/ (cur = None /\ cur' = Head(queue))
  <2>1. /\ Head(queue) \in TickIdx \cup {None} /\ Head(queue) \in Queued
        /\ queue' \in Seq(TickIdx \cup {None}) /\ Queued' \subseteq Queued
    BY <1>1, <1>4, DequeueFacts
  <2>2. /\ \A k, l \in DOMAIN queue' : queue'[k] = queue'[l] => k = l \/ queue'[k] = None
        /\ Head(queue) # None => /\ Head(queue) \notin {cur, emitting, ToPut}
                                 /\ Head(queue) \notin Queued'
    BY <1>4, TakeFacts
  <2>3. \A i \in {cur, emitting, ToPut}' \ {None} : i \notin Queued'
    BY <1>1, <1>4, <2>1, <2>2 DEF RowsAreHeldOnce
  <2>4. /\ cur' # None => cur' # emitting' /\ cur' # ToPut'
        /\ emitting' # None => emitting' # ToPut'
    BY <1>1, <1>4, <2>2 DEF RowsAreHeldOnce
  <2>5. \A i \in (Queued \cup {cur, emitting, ToPut})' \ {None} : status[i] = "pending"
    BY <1>1, <1>4, <2>1 DEF RowsAreHeldOnce
  <2>6. RowsAreHeldOnce'
    BY <2>2, <2>3, <2>4, <2>5 DEF RowsAreHeldOnce
  <2> QED
    BY <1>1, <1>2, <1>4, <2>1, <2>6 DEF TypeOK
<1> QED
  BY <1>3, <1>4

\* The worker takes the next tick; or a thread lets go of one without a word.
LEMMA TakeInv ==
  ASSUME RowInv,
         \/ WorkerGet \/ WorkerDies \/ WorkerDrainFail \/ SchedDrainFail
         \/ (WorkerDrain \/ SchedDrain) /\ AbortPendingReturns
  PROVE  RowInv'
<1> USE DEF WorkerGet, WorkerDies, WorkerDrainFail, SchedDrainFail, WorkerDrain, SchedDrain,
            AbortPendingReturns, WorkerFrame, SchedFrame, trialVars, tickVars, schedVars,
            workerVars, mainVars, flagVars
<1>1. /\ UNCHANGED <<now, trial, startTs, nextDue, ticks, batch, emitting, main, finalTick,
                     signalled, stopFlag, stopEvent, fatal, swept>>
      /\ ToPut' = ToPut
  BY DEF ToPut
<1>2. TypeOK /\ RowsAreHeldOnce
  BY DEF RowInv
<1>3. status' = status
  <2>1. CASE (WorkerDrain \/ SchedDrain) /\ AbortPendingReturns
    BY <2>1
  <2>2. CASE WorkerGet \/ WorkerDies \/ WorkerDrainFail \/ SchedDrainFail
    BY <2>2
  <2> QED
    BY <2>1, <2>2
<1>4. /\ \/ queue' = queue /\ cur' \in {cur, None}
         \/ /\ queue # <<>> /\ queue' = Tail(queue)
            /\ cur' \in {cur, None} \/ (cur = None /\ cur' = Head(queue))
      /\ worker' = "measure" <=> cur' # None
      /\ worker' = worker \/ (worker' \in {"measure", "done"} /\ worker \in {"get", "measure", "drain"})
      /\ worker' = "measure" => worker \in {"get", "measure"}
      /\ sched' = sched \/ (sched = "drain" /\ sched' = "done" /\ worker' = worker)
  <2>1. worker = "measure" <=> cur # None
    BY <1>2 DEF RowsAreHeldOnce
  <2>2. CASE WorkerGet
    BY <2>1, <2>2
  <2>3. CASE WorkerDies
    BY <2>1, <2>3
  <2>4. CASE WorkerDrainFail \/ (WorkerDrain /\ AbortPendingReturns)
    BY <2>1, <2>4, <1>3
  <2>5. CASE SchedDrainFail \/ (SchedDrain /\ AbortPendingReturns)
    BY <2>1, <2>5, <1>3
  <2> QED
    BY <2>2, <2>3, <2>4, <2>5
<1>5. /\ RowsAreHeldOnce' /\ TickIdx' = TickIdx
      /\ queue' \in Seq(TickIdx \cup {None}) /\ cur' \in TickIdx \cup {None}
  BY <1>1, <1>3, <1>4, TakeRows
<1>6. TypeOK'
  BY <1>1, <1>2, <1>3, <1>4, <1>5 DEF TypeOK
<1>7. AtMostOneFailure' /\ SweptNotFailed'
  BY <1>1, <1>3, <1>5 DEF RowInv, AtMostOneFailure, SweptNotFailed
<1>8. FailureStops'
  BY <1>1, <1>3, <1>4, <1>5 DEF RowInv, FailureStops
<1> QED
  BY <1>5, <1>6, <1>7, <1>8 DEF RowInv

\* Whoever settles a row held it alone and let go of it, so nobody else is affected.
LEMMA SettleRows ==
  ASSUME RowInv, UNCHANGED <<ticks, emitting, ToPut>>,
         NEW idx \in TickIdx, NEW outcome \in Statuses, Mark(idx, outcome),
         \/ queue' = queue /\ idx = cur /\ cur' = None
         \/ queue # <<>> /\ queue' = Tail(queue) /\ idx = Head(queue) /\ cur' = cur,
         worker' = "measure" <=> cur' # None
  PROVE  /\ RowsAreHeldOnce' /\ TickIdx' = TickIdx /\ status[idx] = "pending"
         /\ queue' \in Seq(TickIdx \cup {None}) /\ cur' \in TickIdx \cup {None}
         /\ status' \in Seq(Statuses) /\ Len(status') = Len(status)
         /\ status'[idx] = outcome
         /\ \A i \in TickIdx \ {idx} : status'[i] = status[i]
<1>1. TypeOK /\ RowsAreHeldOnce
  BY DEF RowInv
<1>2. idx # None
  BY <1>1, TickIdxType
<1>3. /\ status' \in Seq(Statuses) /\ Len(status') = Len(status)
      /\ status'[idx] = outcome
      /\ \A i \in TickIdx \ {idx} : status'[i] = status[i]
  BY <1>1, MarkFacts
<1>4. status[idx] = "pending" /\ idx \notin (Queued \cup {cur, emitting, ToPut})'
  <2>1. CASE queue' = queue /\ idx = cur /\ cur' = None
    <3>1. Queued' = Queued
      BY <2>1 DEF Queued
    <3> QED
      BY <1>1, <1>2, <2>1, <3>1 DEF RowsAreHeldOnce
  <2>2. CASE queue # <<>> /\ queue' = Tail(queue) /\ idx = Head(queue) /\ cur' = cur
    BY <1>2, <2>2, TakeFacts
  <2> QED
    BY <2>1, <2>2
<1>5. (Queued \cup {cur, emitting, ToPut})' \subseteq TickIdx \cup {None}
  <2>1. Queued' \subseteq Queued
    <3>1. CASE queue' = queue
      BY <3>1 DEF Queued
    <3>2. CASE queue # <<>> /\ queue' = Tail(queue)
      BY <1>1, <3>2, DequeueFacts
    <3> QED
      BY <3>1, <3>2
  <2>2. Queued \subseteq TickIdx \cup {None}
    BY <1>1, TickIdxType DEF Queued
  <2>3. {cur, emitting, ToPut}' \subseteq TickIdx \cup {None}
    <3>1. ToPut \in TickIdx \cup {None}
      BY <1>1 DEF TypeOK, ToPut
    <3> QED
      BY <1>1, <3>1 DEF TypeOK
  <2> QED
    BY <2>1, <2>2, <2>3
<1>6. \A i \in (Queued \cup {cur, emitting, ToPut})' \ {None} : status'[i] = status[i]
  BY <1>3, <1>4, <1>5
<1>7. /\ RowsAreHeldOnce' /\ TickIdx' = TickIdx
      /\ queue' \in Seq(TickIdx \cup {None}) /\ cur' \in TickIdx \cup {None}
  BY <1>6, TakeRows
<1> QED
  BY <1>3, <1>4, <1>7

\* _process_tick ends, one way or the other.
LEMMA MeasureInv ==
  ASSUME RowInv, WorkerComplete \/ WorkerError
  PROVE  /\ RowInv'
         /\ \A i \in TickIdx : status[i] # "pending" => status'[i] = status[i]
<1> USE DEF WorkerComplete, WorkerError, WorkerFrame, trialVars, schedVars, mainVars, flagVars
<1>1. /\ UNCHANGED <<now, trial, startTs, nextDue, ticks, queue, batch, sched, emitting, main,
                     finalTick, signalled, stopFlag, stopEvent, fatal, swept>>
      /\ ToPut' = ToPut /\ worker = "measure" /\ worker' \in {"get", "recorded"} /\ cur' = None
  BY DEF ToPut
<1>2. TypeOK /\ RowsAreHeldOnce /\ FailureStops
  BY DEF RowInv
<1>3. cur \in TickIdx
  BY <1>1, <1>2 DEF TypeOK, RowsAreHeldOnce
<1>4. PICK outcome \in {"completed", "aborted", "failed"} :
        /\ Mark(cur, outcome)
        /\ outcome = "failed" => ~stopEvent /\ worker' = "recorded"
  BY DEF ErrorStatus
<1>5. outcome \in Statuses /\ (worker' = "measure" <=> cur' # None)
  BY <1>1 DEF Statuses
<1>6. /\ RowsAreHeldOnce' /\ TickIdx' = TickIdx /\ status[cur] = "pending"
      /\ queue' \in Seq(TickIdx \cup {None}) /\ cur' \in TickIdx \cup {None}
      /\ status' \in Seq(Statuses) /\ Len(status') = Len(status)
      /\ status'[cur] = outcome
      /\ \A i \in TickIdx \ {cur} : status'[i] = status[i]
  BY <1>1, <1>3, <1>4, <1>5, SettleRows
<1>7. TypeOK'
  BY <1>1, <1>2, <1>6 DEF TypeOK
<1>8. ~stopEvent => \A i \in TickIdx : status[i] # "failed"
  BY <1>1, <1>2 DEF FailureStops
<1>9. AtMostOneFailure'
  BY <1>3, <1>4, <1>6, <1>8 DEF RowInv, AtMostOneFailure
<1>10. SweptNotFailed'
  BY <1>1, <1>2, <1>3, <1>4, <1>6 DEF RowInv, SweptNotFailed, FailureStops, TypeOK
<1>11. FailureStops'
  BY <1>1, <1>2, <1>3, <1>4, <1>6, <1>8 DEF FailureStops
<1> QED
  BY <1>6, <1>7, <1>9, <1>10, <1>11 DEF RowInv

\* A drain aborts the next tick of the queue.
LEMMA AbortInv ==
  ASSUME RowInv, (WorkerDrain \/ SchedDrain) /\ AbortPending /\ UNCHANGED <<worker, sched>>
  PROVE  /\ RowInv'
         /\ \A i \in TickIdx : status[i] # "pending" => status'[i] = status[i]
<1> USE DEF WorkerDrain, SchedDrain, AbortPending, WorkerFrame, SchedFrame, trialVars,
            schedVars, workerVars, mainVars, flagVars
<1>1. /\ UNCHANGED <<now, trial, startTs, nextDue, ticks, batch, sched, emitting, worker, cur,
                     main, finalTick, signalled, stopFlag, stopEvent, fatal, swept>>
      /\ ToPut' = ToPut
      /\ queue # <<>> /\ queue' = Tail(queue) /\ Mark(Head(queue), "aborted")
  BY DEF ToPut
<1>2. TypeOK /\ RowsAreHeldOnce /\ FailureStops
  BY DEF RowInv
<1>3. Head(queue) \in TickIdx /\ "aborted" \in Statuses
  BY TakeFacts DEF Statuses
<1>4. worker' = "measure" <=> cur' # None
  BY <1>1, <1>2 DEF RowsAreHeldOnce
<1>5. /\ RowsAreHeldOnce' /\ TickIdx' = TickIdx /\ status[Head(queue)] = "pending"
      /\ queue' \in Seq(TickIdx \cup {None}) /\ cur' \in TickIdx \cup {None}
      /\ status' \in Seq(Statuses) /\ Len(status') = Len(status)
      /\ status'[Head(queue)] = "aborted"
      /\ \A i \in TickIdx \ {Head(queue)} : status'[i] = status[i]
  BY <1>1, <1>3, <1>4, SettleRows
<1>6. TypeOK'
  BY <1>1, <1>2, <1>5 DEF TypeOK
<1>7. \A i \in TickIdx : status'[i] = "failed" => status[i] = "failed"
  BY <1>5
<1>8. AtMostOneFailure' /\ SweptNotFailed'
  BY <1>1, <1>2, <1>5, <1>7 DEF RowInv, AtMostOneFailure, SweptNotFailed, TypeOK
<1>9. FailureStops'
  BY <1>1, <1>2, <1>5, <1>7 DEF FailureStops
<1> QED
  BY <1>5, <1>6, <1>8, <1>9 DEF RowInv

-----------------------------------------------------------------------------

LEMMA InitInv == Init => RowInv
<1> SUFFICES ASSUME Init PROVE RowInv
  OBVIOUS
<1>1. TickIdx = {} /\ Queued = {}
  BY EmptySeq DEF Init, TickIdx, Queued
<1>2. TypeOK
  <2>1. ticks \in Seq(Due) /\ status \in Seq(Statuses) /\ queue \in Seq(TickIdx \cup {None})
    BY EmptySeq DEF Init
  <2>2. /\ trial \in [Trials -> TrialStates] /\ startTs \in [Trials -> Nat]
        /\ nextDue \in [Trials -> Nat]
    BY DEF Init, TrialStates, NoDue
  <2> QED
    BY <2>1, <2>2 DEF Init, TypeOK, MainPhases
<1>3. RowsAreHeldOnce
  BY <1>1 DEF Init, RowsAreHeldOnce, ToPut
<1>4. FailureStops /\ AtMostOneFailure /\ SweptNotFailed
  BY <1>1 DEF Init, FailureStops, AtMostOneFailure, SweptNotFailed, SweepPhases
<1> QED
  BY <1>2, <1>3, <1>4 DEF RowInv

LEMMA DrainCases ==
  ASSUME WorkerDrain \/ SchedDrain
  PROVE  \/ (WorkerDrain \/ SchedDrain) /\ AbortPending /\ UNCHANGED <<worker, sched>>
         \/ (WorkerDrain \/ SchedDrain) /\ AbortPendingReturns
  BY DEF WorkerDrain, SchedDrain, WorkerFrame, SchedFrame, schedVars, workerVars

LEMMA NextInv == RowInv /\ [Next]_vars => RowInv'
<1> SUFFICES ASSUME RowInv, [Next]_vars PROVE RowInv'
  OBVIOUS
<1>1. CASE Tick \/ \E t \in Trials : TrialStep(t) \/ TrialCrash(t)
  BY <1>1, TrialInv
<1>2. CASE SchedStep \/ SchedFail \/ SchedDrainFail
  BY <1>2, SchedQuietInv, InsertInv, EnqueueInv, TakeInv, AbortInv, DrainCases DEF SchedStep
<1>3. CASE WorkerStep \/ WorkerDies \/ WorkerDrainFail
  BY <1>3, WorkerQuietInv, TakeInv, MeasureInv, AbortInv, DrainCases DEF WorkerStep
<1>4. CASE MainStep \/ Signal
  BY <1>4, MainQuietInv, SweepInv, InsertInv, EnqueueInv DEF MainStep
<1>5. CASE UNCHANGED vars
  BY <1>5 DEF vars, trialVars, tickVars, schedVars, workerVars, mainVars, flagVars, RowInv,
     TypeOK, TickIdx, RowsAreHeldOnce, Queued, ToPut, FailureStops, AtMostOneFailure,
     SweptNotFailed
<1> QED
  BY <1>1, <1>2, <1>3, <1>4, <1>5 DEF Next, Disturbance, Terminating

\* The inductive invariant holds in every reachable state of a live run
\* (snapshot/scheduler.py, run/runner.py:_run_live_experiment).
THEOREM RowInvHolds == Spec => []RowInv
  BY InitInv, NextInv, PTL DEF Spec

\* Every variable keeps its type; each row has one status.
THEOREM TypeCorrect == Spec => []TypeOK
<1>1. RowInv => TypeOK
  BY DEF RowInv
<1> QED
  BY <1>1, RowInvHolds, PTL

\* At most one tick of a run is recorded as failed, whatever fails, is interrupted
\* or loses its database (_record_tick_error, _set_fatal_error).
THEOREM OneFailure == Spec => []AtMostOneFailure
<1>1. RowInv => AtMostOneFailure
  BY DEF RowInv
<1> QED
  BY <1>1, RowInvHolds, PTL

\* A tick whose containers an interrupt removed is never recorded as failed.
THEOREM InterruptIsNoFailure == Spec => []SweptNotFailed
<1>1. RowInv => SweptNotFailed
  BY DEF RowInv
<1> QED
  BY <1>1, RowInvHolds, PTL

\* Both together: a failed tick is the first failure of the run and was not swept.
THEOREM FailuresGenuine == Spec => []FailuresAreGenuine
<1>1. RowInv => FailuresAreGenuine
  BY DEF RowInv, FailuresAreGenuine
<1> QED
  BY <1>1, RowInvHolds, PTL

\* The steps that write an outcome or a row.
LEMMA StatusSteps ==
  ASSUME [Next]_vars
  PROVE  \/ status' = status \/ SchedInsert \/ MainFinalTick \/ WorkerDrain \/ SchedDrain
         \/ (worker = "measure" /\ (WorkerComplete \/ WorkerError))
<1>1. Tick \/ (\E t \in Trials : TrialStep(t) \/ TrialCrash(t)) \/ UNCHANGED vars => status' = status
  BY DEF Tick, TrialStep, TrialBegin, TrialRegister, TrialLaunch, TrialRefused, TrialEnd,
     TrialCrash, Unregister, TrialFrame, tickVars, vars
<1>2. SchedStep \/ SchedFail \/ SchedDrainFail => status' = status \/ SchedInsert \/ SchedDrain
  BY DEF SchedStep, SchedFail, SchedDrainFail, SchedCollectDue, SchedEnqueue, SchedNext,
     SchedFatal, SchedSentinel, SchedJoin, Enqueue, tickVars
<1>3. WorkerStep \/ WorkerDies \/ WorkerDrainFail =>
        status' = status \/ WorkerComplete \/ WorkerError \/ WorkerDrain
  BY DEF WorkerStep, WorkerDies, WorkerDrainFail, WorkerGet, WorkerCheckStop, WorkerFatal,
     tickVars
<1>4. MainStep \/ Signal => status' = status \/ MainFinalTick
  BY DEF MainStep, Signal, MainTrialsDone, MainTrialFailed, MainCheckRaises, MainPutFinal,
     MainStop, MainJoin, MainFlags, MainSweep, MainShutdownPool, MainJoinInterrupted,
     MainExit, SignalSweep, Enqueue, tickVars
<1>5. WorkerComplete \/ WorkerError => worker = "measure"
  BY DEF WorkerComplete, WorkerError
<1> QED
  BY <1>1, <1>2, <1>3, <1>4, <1>5 DEF Next, Disturbance, Terminating

\* The outcome of a tick, once recorded, is never overwritten, although three
\* threads write outcomes and their UPDATEs are unconditional.
THEOREM OutcomesAreFinal == Spec => OutcomeIsFinal
<1> DEFINE Kept == \A i \in TickIdx : status[i] # "pending" => status'[i] = status[i]
<1>1. ASSUME RowInv, [Next]_vars PROVE [Kept]_vars
  <2>1. TypeOK
    BY <1>1 DEF RowInv
  <2>2. ASSUME SchedInsert \/ MainFinalTick PROVE Kept
    <3>1. PICK ts \in Nat, trials \in SUBSET Trials : InsertTick(ts, trials)
      BY <2>1, <2>2 DEF SchedInsert, MainFinalTick, TypeOK, Due, CampaignTrials
    <3> QED
      BY <2>1, <3>1, InsertFacts
  <2>3. ASSUME WorkerComplete \/ WorkerError PROVE Kept
    BY <1>1, <2>3, MeasureInv
  <2>4. ASSUME WorkerDrain \/ SchedDrain PROVE Kept
    <3>1. CASE (WorkerDrain \/ SchedDrain) /\ AbortPending /\ UNCHANGED <<worker, sched>>
      BY <1>1, <3>1, AbortInv
    <3>2. CASE AbortPendingReturns
      BY <3>2 DEF AbortPendingReturns
    <3> QED
      BY <2>4, <3>1, <3>2, DrainCases
  <2>5. ASSUME status' = status PROVE Kept
    BY <2>5
  <2>6. \/ status' = status \/ SchedInsert \/ MainFinalTick \/ WorkerDrain \/ SchedDrain
        \/ WorkerComplete \/ WorkerError
    BY <1>1, StatusSteps
  <2> HIDE DEF Kept
  <2> QED
    BY <2>2, <2>3, <2>4, <2>5, <2>6
<1> QED
  BY <1>1, RowInvHolds, PTL DEF Spec, OutcomeIsFinal

-----------------------------------------------------------------------------
(* Nothing is lost, and a normal return means that all was measured.        *)

\* What the queue holds after its head was taken.
LEMMA TailFacts ==
  ASSUME TypeOK, queue # <<>>, queue' = Tail(queue)
  PROVE  /\ 1 \in DOMAIN queue /\ Head(queue) = queue[1]
         /\ Len(queue) = 1 => queue' = <<>>
         /\ Len(queue') = Len(queue) - 1
         /\ \A k \in DOMAIN queue' : k + 1 \in DOMAIN queue /\ queue'[k] = queue[k + 1]
         /\ Queued = Queued' \cup {Head(queue)}
<1>1. /\ queue' \in Seq(TickIdx \cup {None}) /\ Len(queue') = Len(queue) - 1
      /\ \A k \in 1..Len(queue') : queue'[k] = queue[k + 1]
  BY HeadTailProperties DEF TypeOK
<1>2. DOMAIN queue' = 1..Len(queue')
  BY <1>1, LenProperties
<1>3. Len(queue) \in Nat \ {0} /\ DOMAIN queue = 1..Len(queue)
  BY EmptySeq, LenProperties DEF TypeOK
<1>4. 1 \in DOMAIN queue /\ Head(queue) = queue[1]
  BY <1>3
<1>5. Len(queue) = 1 => queue' = <<>>
  BY <1>1, EmptySeq
<1>6. \A k \in DOMAIN queue' : k + 1 \in DOMAIN queue /\ queue'[k] = queue[k + 1]
  BY <1>1, <1>2, <1>3
<1>7. \A k \in DOMAIN queue \ {1} : k - 1 \in DOMAIN queue' /\ queue'[k - 1] = queue[k]
  BY <1>1, <1>2, <1>3
<1>8. Queued = Queued' \cup {Head(queue)}
  <2>1. Queued \subseteq Queued' \cup {Head(queue)}
    BY <1>4, <1>7 DEF Queued
  <2>2. Queued' \cup {Head(queue)} \subseteq Queued
    BY <1>4, <1>6 DEF Queued
  <2> QED
    BY <2>1, <2>2
<1> QED
  BY <1>1, <1>4, <1>5, <1>6, <1>8

\* A step that touches no row and no queue. A signal takes the final tick from the
\* main thread's hands.
LEMMA QuietHolds ==
  ASSUME NothingIsLost, UNCHANGED <<ticks, status, queue, cur, emitting, finalTick>>,
         ToPut' = ToPut \/ (main = "put" /\ signalled'), signalled => signalled'
  PROVE  /\ \A i \in TickIdx' :
              status'[i] = "pending" => Held(i)' \/ (signalled' /\ i = finalTick')
         /\ Queued' = Queued /\ TickIdx' = TickIdx
<1>1. TickIdx' = TickIdx /\ Queued' = Queued
  BY DEF TickIdx, Queued
<1> QED
  BY <1>1 DEF NothingIsLost, Held, ToPut

LEMMA TrialCalm ==
  ASSUME CalmInv, Tick \/ (\E t \in Trials : TrialStep(t) \/ TrialCrash(t)) \/ UNCHANGED vars
  PROVE  NothingIsLost' /\ SentinelIsLast'
<1>1. /\ UNCHANGED <<ticks, status, queue, batch, sched, emitting, worker, cur, main,
                     finalTick, signalled, stopFlag, stopEvent, fatal>>
      /\ ToPut' = ToPut
  BY DEF Tick, TrialStep, TrialBegin, TrialRegister, TrialLaunch, TrialRefused, TrialEnd,
         TrialCrash, Unregister, TrialFrame, tickVars, schedVars, workerVars, mainVars, flagVars,
         vars, ToPut
<1>2. /\ \A i \in TickIdx' : status'[i] = "pending" => Held(i)' \/ (signalled' /\ i = finalTick')
      /\ Queued' = Queued /\ TickIdx' = TickIdx
  BY <1>1, QuietHolds DEF CalmInv
<1> QED
  BY <1>1, <1>2 DEF CalmInv, NothingIsLost, SentinelIsLast

\* The scheduler thread between two ticks.
LEMMA SchedQuietCalm ==
  ASSUME CalmInv, ~DbOutage, SchedCollectDue \/ SchedNext \/ SchedFatal \/ SchedJoin
  PROVE  NothingIsLost' /\ SentinelIsLast'
<1> USE DEF SchedCollectDue, SchedNext, SchedFatal, SchedJoin, SchedFrame,
            trialVars, tickVars, workerVars, mainVars, flagVars
<1>1. /\ UNCHANGED <<ticks, status, queue, emitting, worker, cur, main, finalTick, signalled, fatal>>
      /\ ToPut' = ToPut
  BY DEF ToPut
<1>2. /\ \A i \in TickIdx' : status'[i] = "pending" => Held(i)' \/ (signalled' /\ i = finalTick')
      /\ Queued' = Queued /\ TickIdx' = TickIdx
  BY <1>1, QuietHolds DEF CalmInv
<1>3. NothingIsLost /\ SentinelIsLast
  BY DEF CalmInv
<1>4. NothingIsLost'
  BY <1>1, <1>2, <1>3 DEF NothingIsLost
<1>5. SentinelIsLast'
  BY <1>1, <1>2, <1>3 DEF SentinelIsLast, NothingIsLost
<1> QED
  BY <1>4, <1>5

\* A row is inserted, by the scheduler or by the main thread.
LEMMA InsertCalm ==
  ASSUME CalmInv, SchedInsert \/ MainFinalTick
  PROVE  NothingIsLost' /\ SentinelIsLast'
<1> USE DEF trialVars, schedVars, workerVars, mainVars, flagVars
<1>1. TypeOK /\ RowsAreHeldOnce /\ NothingIsLost /\ SentinelIsLast
  BY DEF CalmInv, RowInv
<1>2. PICK ts \in Nat, trials \in SUBSET Trials : InsertTick(ts, trials)
  BY <1>1 DEF SchedInsert, MainFinalTick, TypeOK, Due, CampaignTrials
<1>3. /\ TickIdx' = TickIdx \cup {Len(ticks) + 1} /\ queue' = queue /\ Queued' = Queued
      /\ status'[Len(ticks) + 1] = "pending"
      /\ \A i \in TickIdx : status'[i] = status[i]
      /\ Len(ticks) + 1 # None
  BY <1>1, <1>2, InsertFacts, TickIdxType DEF Queued
<1>4. UNCHANGED <<worker, cur, stopFlag, stopEvent, fatal, signalled>>
  BY DEF SchedInsert, MainFinalTick, SchedFrame, MainFrame
<1>5. CASE SchedInsert
  <2>1. /\ sched = "emit" /\ sched' = "telemetry" /\ emitting' = Len(ticks) + 1 /\ emitting = None
        /\ UNCHANGED <<main, finalTick>> /\ ToPut' = ToPut
    BY <1>1, <1>5 DEF SchedInsert, SchedFrame, ToPut, NothingIsLost
  <2>2. \A i \in TickIdx' : status'[i] = "pending" => Held(i)' \/ (signalled' /\ i = finalTick')
    <3> SUFFICES ASSUME NEW i \in TickIdx', status'[i] = "pending"
                 PROVE  Held(i)' \/ (signalled' /\ i = finalTick')
      OBVIOUS
    <3>1. CASE i = Len(ticks) + 1
      BY <2>1, <3>1 DEF Held
    <3>2. CASE i \in TickIdx
      <4>1. i \in Queued \cup {cur, None, ToPut} \/ (signalled /\ i = finalTick)
        BY <1>1, <1>3, <2>1, <3>2 DEF NothingIsLost, Held
      <4>2. i # None
        BY <1>1, <3>2, TickIdxType
      <4> QED
        BY <1>3, <1>4, <2>1, <4>1, <4>2 DEF Held
    <3> QED
      BY <1>3, <3>1, <3>2
  <2> QED
    BY <1>1, <1>3, <1>4, <2>1, <2>2 DEF NothingIsLost, SentinelIsLast
<1>6. CASE MainFinalTick
  <2>1. /\ main = "check" /\ main' = "put" /\ ToPut' = Len(ticks) + 1 /\ ToPut = None
        /\ UNCHANGED <<sched, emitting>>
    BY <1>6 DEF MainFinalTick, MainFrame, ToPut
  <2>2. ~signalled
    BY <1>1, <2>1 DEF NothingIsLost, Undisturbed
  <2>3. \A i \in TickIdx' : status'[i] = "pending" => Held(i)'
    <3> SUFFICES ASSUME NEW i \in TickIdx', status'[i] = "pending" PROVE Held(i)'
      OBVIOUS
    <3>1. CASE i = Len(ticks) + 1
      BY <2>1, <3>1 DEF Held
    <3>2. CASE i \in TickIdx
      <4>1. i \in Queued \cup {cur, emitting, None}
        BY <1>1, <1>3, <2>1, <2>2, <3>2 DEF NothingIsLost, Held
      <4>2. i # None
        BY <1>1, <3>2, TickIdxType
      <4> QED
        BY <1>3, <1>4, <2>1, <4>1, <4>2 DEF Held
    <3> QED
      BY <1>3, <3>1, <3>2
  <2> QED
    BY <1>1, <1>3, <1>4, <2>1, <2>3 DEF NothingIsLost, SentinelIsLast, Undisturbed
<1> QED
  BY <1>5, <1>6

\* A row, or the sentinel, is put on the queue.
LEMMA EnqueueCalm ==
  ASSUME CalmInv, SchedEnqueue \/ SchedSentinel \/ MainPutFinal
  PROVE  NothingIsLost' /\ SentinelIsLast'
<1> USE DEF trialVars, schedVars, workerVars, mainVars, flagVars
<1>1. TypeOK /\ RowsAreHeldOnce /\ NothingIsLost /\ SentinelIsLast
  BY DEF CalmInv, RowInv
<1>2. PICK item \in TickIdx \cup {None} :
        /\ Enqueue(item)
        /\ \/ SchedEnqueue /\ item = emitting
           \/ SchedSentinel /\ item = None
           \/ MainPutFinal /\ item = finalTick
  BY <1>1 DEF SchedEnqueue, SchedSentinel, MainPutFinal, TypeOK
<1>3. /\ status' = status /\ TickIdx' = TickIdx /\ Queued' = Queued \cup {item}
      /\ Len(queue) \in Nat /\ Len(queue') = Len(queue) + 1 /\ DOMAIN queue' = 1..Len(queue) + 1
      /\ DOMAIN queue = 1..Len(queue)
      /\ \A k \in DOMAIN queue : queue'[k] = queue[k]
      /\ queue'[Len(queue) + 1] = item
  BY <1>1, <1>2, EnqueueFacts, TickIdxType
<1>4. /\ UNCHANGED <<worker, cur, finalTick, signalled, stopFlag, stopEvent, fatal>>
  BY DEF SchedEnqueue, SchedSentinel, MainPutFinal, SchedFrame, MainFrame, MainGoto
<1>5. /\ Queued \cup {cur, emitting, ToPut} \subseteq (Queued \cup {cur, emitting, ToPut})' \cup {None}
      /\ sched' = "telemetry" <=> emitting' # None
      /\ sched' \in {"fatal", "drain"} => sched \in {"fatal", "drain"}
      /\ main' \in Undisturbed => main \in Undisturbed
  <2>1. CASE SchedEnqueue /\ item = emitting
    BY <1>1, <1>3, <1>4, <2>1 DEF SchedEnqueue, SchedFrame, ToPut, NothingIsLost
  <2>2. CASE SchedSentinel /\ item = None
    BY <1>1, <1>3, <1>4, <2>2 DEF SchedSentinel, SchedFrame, ToPut, NothingIsLost
  <2>3. CASE MainPutFinal /\ item = finalTick
    BY <1>1, <1>3, <1>4, <2>3 DEF MainPutFinal, MainFrame, MainGoto, ToPut, NothingIsLost, Undisturbed
  <2> QED
    BY <1>2, <2>1, <2>2, <2>3
<1>6. \A i \in TickIdx' : status'[i] = "pending" => Held(i)' \/ (signalled' /\ i = finalTick')
  BY <1>1, <1>3, <1>4, <1>5, TickIdxType DEF NothingIsLost, Held
<1>7. NothingIsLost'
  BY <1>1, <1>4, <1>5, <1>6 DEF NothingIsLost
<1>8. SentinelIsLast'
  <2> SUFFICES ASSUME ~fatal, ~stopEvent
               PROVE  /\ \A i \in TickIdx' : status'[i] \in {"failed", "aborted"} => worker' = "recorded"
                      /\ stopFlag' => main' \in {"join", "returned"}
                      /\ sched' \in {"finish", "join", "done"} => stopFlag'
                      /\ None \in Queued' \/ worker' = "done" => sched' \in {"join", "done"}
                      /\ \A k \in DOMAIN queue' : queue'[k] = None => k = Len(queue')
                      /\ worker' = "done" => queue' = <<>>
    BY <1>4 DEF SentinelIsLast
  <2>1. CASE SchedSentinel /\ item = None
    <3>1. sched = "finish" /\ sched' = "join" /\ main' = main
      BY <2>1 DEF SchedSentinel, SchedFrame
    <3>2. None \notin Queued /\ worker # "done" /\ stopFlag
      BY <1>1, <3>1 DEF SentinelIsLast
    <3>3. \A k \in DOMAIN queue : queue[k] # None
      BY <3>2 DEF Queued
    <3> QED
      BY <1>1, <1>3, <1>4, <3>1, <3>2, <3>3 DEF SentinelIsLast
  <2>2. CASE SchedEnqueue /\ item = emitting
    <3>1. sched = "telemetry" /\ sched' = "emit" /\ main' = main
      BY <2>2 DEF SchedEnqueue, SchedFrame
    <3>2. None \notin Queued /\ worker # "done" /\ item # None
      BY <1>1, <2>2, <3>1 DEF SentinelIsLast, NothingIsLost
    <3>3. \A k \in DOMAIN queue : queue[k] # None
      BY <3>2 DEF Queued
    <3> QED
      BY <1>1, <1>3, <1>4, <3>1, <3>2, <3>3 DEF SentinelIsLast
  <2>3. CASE MainPutFinal /\ item = finalTick
    <3>1. main = "put" /\ main' = "stop" /\ sched' = sched
      BY <2>3 DEF MainPutFinal, MainFrame, MainGoto
    <3>2. None \notin Queued /\ worker # "done" /\ ~stopFlag
      BY <1>1, <3>1 DEF SentinelIsLast
    <3>3. item # None
      BY <1>1, <2>3, <3>1, TickIdxType DEF CalmInv, FinalCoversAll
    <3>4. \A k \in DOMAIN queue : queue[k] # None
      BY <3>2 DEF Queued
    <3> QED
      BY <1>1, <1>3, <1>4, <3>1, <3>2, <3>3, <3>4 DEF SentinelIsLast
  <2> QED
    BY <1>2, <2>1, <2>2, <2>3
<1> QED
  BY <1>7, <1>8

\* A drain takes the queue apart: there was a fatal error.
LEMMA DrainCalm ==
  ASSUME CalmInv, WorkerDrain \/ SchedDrain
  PROVE  NothingIsLost' /\ SentinelIsLast'
<1> USE DEF WorkerDrain, SchedDrain, WorkerFrame, SchedFrame, trialVars,
            schedVars, workerVars, mainVars, flagVars
<1>1. /\ UNCHANGED <<ticks, emitting, cur, main, finalTick, signalled, stopFlag, stopEvent, fatal>>
      /\ ToPut' = ToPut /\ TickIdx' = TickIdx
      /\ sched' = sched \/ (sched = "drain" /\ sched' = "done")
      /\ worker' = worker \/ (worker = "drain" /\ worker' = "done")
  BY DEF ToPut, TickIdx, AbortPending, AbortPendingReturns
<1>2. TypeOK /\ RowsAreHeldOnce /\ NothingIsLost /\ fatal
  BY DEF CalmInv, RowInv, NothingIsLost
<1>3. \A i \in TickIdx : status'[i] = "pending" => status[i] = "pending" /\ (i \in Queued => i \in Queued')
  <2>1. CASE AbortPending
    <3>1. Queued = Queued' \cup {Head(queue)} /\ Head(queue) \in TickIdx
      BY <1>2, <2>1, TailFacts, DequeueFacts DEF AbortPending
    <3>2. status'[Head(queue)] = "aborted" /\ \A i \in TickIdx \ {Head(queue)} : status'[i] = status[i]
      BY <1>2, <2>1, <3>1, MarkFacts DEF AbortPending, Statuses
    <3> QED
      BY <3>1, <3>2
  <2>2. CASE AbortPendingReturns
    <3>1. status' = status /\ Queued \subseteq Queued' \cup {None}
      BY <1>2, <2>2, TailFacts DEF AbortPendingReturns, Queued
    <3> QED
      BY <1>2, <3>1, TickIdxType
  <2> QED
    BY <2>1, <2>2
<1>4. \A i \in TickIdx' : status'[i] = "pending" => Held(i)' \/ (signalled' /\ i = finalTick')
  BY <1>1, <1>2, <1>3 DEF NothingIsLost, Held
<1>5. NothingIsLost'
  BY <1>1, <1>2, <1>4 DEF NothingIsLost
<1> QED
  BY <1>1, <1>2, <1>5 DEF SentinelIsLast

\* The worker takes a tick, or the sentinel that ends it.
LEMMA GetCalm ==
  ASSUME CalmInv, WorkerGet
  PROVE  NothingIsLost' /\ SentinelIsLast'
<1> USE DEF trialVars, schedVars, workerVars, mainVars, flagVars
<1>1. TypeOK /\ RowsAreHeldOnce /\ NothingIsLost /\ SentinelIsLast
  BY DEF CalmInv, RowInv
<1>2. /\ queue # <<>> /\ queue' = Tail(queue) /\ worker = "get" /\ cur' = Head(queue)
      /\ worker' = IF Head(queue) = None THEN "done" ELSE "measure"
      /\ UNCHANGED <<ticks, status, sched, emitting, main, finalTick, signalled,
                     stopFlag, stopEvent, fatal>>
      /\ ToPut' = ToPut /\ TickIdx' = TickIdx
  BY DEF WorkerGet, WorkerFrame, ToPut, TickIdx
<1>3. /\ 1 \in DOMAIN queue /\ Head(queue) = queue[1] /\ Head(queue) \in Queued
      /\ Len(queue) = 1 => queue' = <<>>
      /\ Len(queue') = Len(queue) - 1 /\ Len(queue) \in Nat
      /\ DOMAIN queue' \subseteq Nat
      /\ \A k \in DOMAIN queue' : k + 1 \in DOMAIN queue /\ queue'[k] = queue[k + 1]
      /\ Queued = Queued' \cup {Head(queue)}
  BY <1>1, <1>2, TailFacts, DequeueFacts, TickIdxType
<1>4. cur = None
  BY <1>1, <1>2 DEF RowsAreHeldOnce
<1>5. \A i \in TickIdx : Held(i) => Held(i)'
  BY <1>1, <1>2, <1>3, <1>4, TickIdxType DEF Held
<1>6. NothingIsLost'
  BY <1>1, <1>2, <1>5 DEF NothingIsLost
<1>7. SentinelIsLast'
  <2> SUFFICES ASSUME ~fatal, ~stopEvent
               PROVE  /\ \A i \in TickIdx : status[i] \notin {"failed", "aborted"}
                      /\ stopFlag => main \in {"join", "returned"}
                      /\ sched \in {"finish", "join", "done"} => stopFlag
                      /\ None \in Queued' \/ worker' = "done" => sched \in {"join", "done"}
                      /\ \A k \in DOMAIN queue' : queue'[k] = None => k = Len(queue')
                      /\ worker' = "done" => queue' = <<>>
    BY <1>2 DEF SentinelIsLast
  <2>1. \A i \in TickIdx : status[i] \notin {"failed", "aborted"}
    BY <1>1, <1>2 DEF SentinelIsLast
  <2>2. None \in Queued' \/ worker' = "done" => sched \in {"join", "done"}
    BY <1>1, <1>2, <1>3 DEF SentinelIsLast
  <2>3. \A k \in DOMAIN queue' : queue'[k] = None => k = Len(queue')
    BY <1>1, <1>3 DEF SentinelIsLast
  <2>4. worker' = "done" => queue' = <<>>
    BY <1>1, <1>2, <1>3 DEF SentinelIsLast
  <2> QED
    BY <1>1, <2>1, <2>2, <2>3, <2>4 DEF SentinelIsLast
<1> QED
  BY <1>6, <1>7

\* The worker records an outcome.
LEMMA RecordCalm ==
  ASSUME CalmInv, WorkerComplete \/ WorkerError
  PROVE  NothingIsLost' /\ SentinelIsLast'
<1> USE DEF trialVars, schedVars, workerVars, mainVars, flagVars
<1>1. TypeOK /\ RowsAreHeldOnce /\ NothingIsLost /\ SentinelIsLast
  BY DEF CalmInv, RowInv
<1>2. /\ worker = "measure" /\ cur' = None
      /\ \/ worker' = "get" /\ Mark(cur, "completed")
         \/ worker' = "recorded" /\ Mark(cur, ErrorStatus)
      /\ UNCHANGED <<ticks, queue, sched, emitting, main, finalTick, signalled,
                     stopFlag, stopEvent, fatal>>
      /\ ToPut' = ToPut /\ TickIdx' = TickIdx /\ Queued' = Queued
  BY DEF WorkerComplete, WorkerError, WorkerFrame, ToPut, TickIdx, Queued
<1>3. cur \in TickIdx /\ "completed" \in Statuses /\ ErrorStatus \in Statuses \ {"pending"}
  BY <1>1, <1>2 DEF TypeOK, RowsAreHeldOnce, ErrorStatus, Statuses
<1>4. /\ \A i \in TickIdx \ {cur} : status'[i] = status[i]
      /\ status'[cur] \in {"completed", "failed", "aborted"}
      /\ worker' = "get" => status'[cur] = "completed"
  BY <1>1, <1>2, <1>3, MarkFacts DEF Statuses
<1>5. \A i \in TickIdx' : status'[i] = "pending" => Held(i)' \/ (signalled' /\ i = finalTick')
  BY <1>1, <1>2, <1>4 DEF NothingIsLost, Held
<1>6. NothingIsLost'
  BY <1>1, <1>2, <1>5 DEF NothingIsLost
<1>7. SentinelIsLast'
  <2> SUFFICES ASSUME ~fatal, ~stopEvent
               PROVE  /\ \A i \in TickIdx : status'[i] \in {"failed", "aborted"} => worker' = "recorded"
                      /\ stopFlag => main \in {"join", "returned"}
                      /\ sched \in {"finish", "join", "done"} => stopFlag
                      /\ None \in Queued => sched \in {"join", "done"}
                      /\ \A k \in DOMAIN queue : queue[k] = None => k = Len(queue)
    BY <1>2 DEF SentinelIsLast
  <2>1. \A i \in TickIdx : status[i] \notin {"failed", "aborted"}
    BY <1>1, <1>2 DEF SentinelIsLast
  <2>2. \A i \in TickIdx : status'[i] \in {"failed", "aborted"} => worker' = "recorded"
    BY <1>2, <1>4, <2>1
  <2> QED
    BY <1>1, <2>2 DEF SentinelIsLast
<1> QED
  BY <1>6, <1>7

\* A recorded failure becomes fatal, unless the run is stopping already.
LEMMA WorkerQuietCalm ==
  ASSUME CalmInv, WorkerCheckStop \/ WorkerFatal
  PROVE  NothingIsLost' /\ SentinelIsLast'
<1> USE DEF WorkerCheckStop, WorkerFatal, WorkerFrame, trialVars, tickVars, schedVars, mainVars
<1>1. /\ UNCHANGED <<ticks, status, queue, sched, emitting, cur, main, finalTick, signalled>>
      /\ ToPut' = ToPut
  BY DEF ToPut
<1>2. /\ \A i \in TickIdx' : status'[i] = "pending" => Held(i)' \/ (signalled' /\ i = finalTick')
      /\ Queued' = Queued /\ TickIdx' = TickIdx
  BY <1>1, QuietHolds DEF CalmInv
<1>3. NothingIsLost /\ SentinelIsLast
  BY DEF CalmInv
<1>4. NothingIsLost'
  BY <1>1, <1>2, <1>3 DEF NothingIsLost
<1>5. fatal' \/ stopEvent'
  <2>1. CASE stopEvent
    BY <2>1
  <2>2. CASE ~stopEvent
    BY <2>2
  <2> QED
    BY <2>1, <2>2
<1> QED
  BY <1>4, <1>5 DEF SentinelIsLast

\* The main thread and its signal handler, the final tick aside.
LEMMA MainCalm ==
  ASSUME CalmInv, ~DbOutage,
         \/ MainTrialsDone \/ MainTrialFailed \/ MainCheckRaises \/ MainStop \/ MainJoin
         \/ MainFlags \/ MainShutdownPool \/ MainJoinInterrupted \/ Signal
         \/ MainSweep \/ MainExit \/ SignalSweep
  PROVE  NothingIsLost' /\ SentinelIsLast'
<1> USE DEF MainTrialsDone, MainTrialFailed, MainCheckRaises, MainStop, MainJoin, MainFlags,
            MainShutdownPool, MainJoinInterrupted, Signal, MainSweep, MainExit, SignalSweep,
            MainGoto, MainFrame, trialVars, tickVars, schedVars, workerVars, flagVars
<1>1. /\ UNCHANGED <<ticks, status, queue, sched, emitting, worker, cur, finalTick, fatal>>
      /\ main' # "put" /\ (signalled => signalled') /\ (stopEvent => stopEvent')
      /\ main = "put" => signalled'
  OBVIOUS
<1>2. ToPut' = ToPut \/ (main = "put" /\ signalled')
  BY <1>1 DEF ToPut
<1>3. NothingIsLost /\ SentinelIsLast /\ (main \in SweepPhases => stopEvent)
  BY DEF CalmInv, RowInv, FailureStops
<1>4. /\ \A i \in TickIdx' : status'[i] = "pending" => Held(i)' \/ (signalled' /\ i = finalTick)
      /\ Queued' = Queued /\ TickIdx' = TickIdx
  BY <1>1, <1>2, <1>3, QuietHolds
<1>5. main' \in Undisturbed => main \in Undisturbed /\ UNCHANGED <<signalled, stopEvent>>
  BY DEF Undisturbed
<1>6. NothingIsLost'
  BY <1>1, <1>3, <1>4, <1>5 DEF NothingIsLost
<1>7. ~fatal /\ ~stopEvent' => (stopFlag' => main' \in {"join", "returned"}) /\ (stopFlag => stopFlag')
  BY <1>1, <1>3 DEF SentinelIsLast, SweepPhases
<1>8. SentinelIsLast'
  BY <1>1, <1>3, <1>4, <1>7 DEF SentinelIsLast
<1> QED
  BY <1>6, <1>8

-----------------------------------------------------------------------------
(* The final tick covers every trial, and a run that returned stays calm.   *)

LEMMA KeptRows ==
  ASSUME CalmInv, [Next]_vars
  PROVE  \A i \in TickIdx : i \in TickIdx' /\ ticks'[i] = ticks[i]
<1>1. TypeOK
  BY DEF CalmInv, RowInv
<1>2. ASSUME ticks' = ticks PROVE \A i \in TickIdx : i \in TickIdx' /\ ticks'[i] = ticks[i]
  BY <1>2 DEF TickIdx
<1>3. ASSUME SchedInsert \/ MainFinalTick
      PROVE  \A i \in TickIdx : i \in TickIdx' /\ ticks'[i] = ticks[i]
  <2>1. PICK ts \in Nat, trials \in SUBSET Trials : InsertTick(ts, trials)
    BY <1>1, <1>3 DEF SchedInsert, MainFinalTick, TypeOK, Due, CampaignTrials
  <2>2. [ts |-> ts, trials |-> trials] \in Due
    BY DEF Due
  <2> QED
    BY <1>1, <2>1, <2>2, InsertFacts, AppendProperties DEF InsertTick, TypeOK, TickIdx
<1>4. Tick \/ (\E t \in Trials : TrialStep(t) \/ TrialCrash(t)) \/ UNCHANGED vars => ticks' = ticks
  BY DEF Tick, TrialStep, TrialBegin, TrialRegister, TrialLaunch, TrialRefused, TrialEnd,
     TrialCrash, Unregister, TrialFrame, tickVars, vars
<1>5. SchedStep \/ SchedFail \/ SchedDrainFail => ticks' = ticks \/ SchedInsert
  BY DEF SchedStep, SchedFail, SchedDrainFail, SchedCollectDue, SchedEnqueue, SchedNext,
     SchedFatal, SchedSentinel, SchedJoin, SchedDrain, AbortPending, AbortPendingReturns,
     Enqueue, tickVars
<1>6. WorkerStep \/ WorkerDies \/ WorkerDrainFail => ticks' = ticks
  BY DEF WorkerStep, WorkerDies, WorkerDrainFail, WorkerGet, WorkerComplete, WorkerError,
     WorkerCheckStop, WorkerFatal, WorkerDrain, AbortPending, AbortPendingReturns, tickVars
<1>7. MainStep \/ Signal => ticks' = ticks \/ MainFinalTick
  BY DEF MainStep, Signal, MainTrialsDone, MainTrialFailed, MainCheckRaises, MainPutFinal,
     MainStop, MainJoin, MainFlags, MainSweep, MainShutdownPool, MainJoinInterrupted,
     MainExit, SignalSweep, Enqueue, tickVars
<1> QED
  BY <1>2, <1>3, <1>4, <1>5, <1>6, <1>7 DEF Next, Disturbance, Terminating

LEMMA FinalCalm ==
  ASSUME CalmInv, ~DbOutage, [Next]_vars
  PROVE  FinalCoversAll'
<1>1. TypeOK /\ FailureStops /\ NothingIsLost /\ FinalCoversAll
  BY DEF CalmInv, RowInv
<1>2. \A i \in TickIdx : i \in TickIdx' /\ ticks'[i] = ticks[i]
  BY KeptRows
<1>3. ASSUME UNCHANGED <<main, finalTick>>,
             \A t \in Trials : trial[t] = "done" => trial'[t] = "done",
             sched = "done" /\ worker = "done" /\ ~fatal => sched' = "done" /\ ~fatal'
      PROVE  FinalCoversAll'
  BY <1>1, <1>2, <1>3 DEF FinalCoversAll, FailureStops
<1>4. CASE Tick \/ UNCHANGED vars
  BY <1>3, <1>4 DEF Tick, vars, trialVars, schedVars, mainVars, flagVars
<1>5. ASSUME NEW t \in Trials, TrialStep(t) \/ TrialCrash(t) PROVE FinalCoversAll'
  <2>1. UNCHANGED <<main, finalTick, sched, fatal>>
    BY <1>5 DEF TrialStep, TrialBegin, TrialRegister, TrialLaunch, TrialRefused, TrialEnd,
       TrialCrash, Unregister, TrialFrame, schedVars, mainVars, flagVars
  <2>2. trial[t] # "done" /\ \A u \in Trials \ {t} : trial'[u] = trial[u]
    BY <1>1, <1>5 DEF TrialStep, TrialBegin, TrialRegister, TrialLaunch, TrialRefused, TrialEnd,
       TrialCrash, Unregister, Running, ActiveStates, TypeOK
  <2> QED
    BY <1>3, <2>1, <2>2
<1>6. CASE SchedStep
  <2>1. UNCHANGED <<trial, main, finalTick>>
    BY <1>6 DEF SchedStep, SchedCollectDue, SchedInsert, SchedEnqueue, SchedNext, SchedFatal,
       SchedSentinel, SchedJoin, SchedDrain, SchedFrame, trialVars, mainVars
  <2>2. sched # "done"
    BY <1>6 DEF SchedStep, SchedCollectDue, SchedInsert, SchedEnqueue, SchedNext, SchedFatal,
       SchedSentinel, SchedJoin, SchedDrain
  <2> QED
    BY <1>3, <2>1, <2>2
<1>7. CASE WorkerStep
  <2>1. UNCHANGED <<trial, main, finalTick, sched>>
    BY <1>7 DEF WorkerStep, WorkerGet, WorkerComplete, WorkerError, WorkerCheckStop, WorkerFatal,
       WorkerDrain, WorkerFrame, trialVars, schedVars, mainVars
  <2>2. worker # "done"
    BY <1>7 DEF WorkerStep, WorkerGet, WorkerComplete, WorkerError, WorkerCheckStop, WorkerFatal,
       WorkerDrain
  <2> QED
    BY <1>3, <2>1, <2>2
<1>8. CASE MainFinalTick
  <2>1. main = "check" /\ main' = "put" /\ finalTick' = Len(ticks) + 1 /\ CampaignTrials = Trials
    BY <1>1, <1>8 DEF MainFinalTick, FinalCoversAll, CampaignTrials
  <2>2. InsertTick(now, Trials)
    BY <1>8, <2>1 DEF MainFinalTick
  <2>3. [ts |-> now, trials |-> Trials] \in Due
    BY <1>1 DEF Due, TypeOK
  <2>4. finalTick' \in TickIdx' /\ ticks'[finalTick'] = [ts |-> now, trials |-> Trials]
    <3>1. TickIdx' = TickIdx \cup {Len(ticks) + 1}
      BY <1>1, <2>2, InsertFacts DEF TypeOK
    <3>2. ticks'[Len(ticks) + 1] = [ts |-> now, trials |-> Trials]
      BY <1>1, <2>2, <2>3, AppendProperties DEF InsertTick, TypeOK
    <3> QED
      BY <2>1, <3>1, <3>2
  <2> QED
    BY <2>1, <2>4 DEF FinalCoversAll
<1>9. CASE (MainStep /\ ~MainFinalTick) \/ Signal
  <2> USE DEF MainStep, Signal, MainTrialsDone, MainTrialFailed, MainCheckRaises, MainPutFinal,
              MainStop, MainJoin, MainFlags, MainSweep, MainShutdownPool, MainJoinInterrupted,
              MainExit, SignalSweep, MainGoto, MainFrame, trialVars, schedVars, flagVars
  <2>1. finalTick' = finalTick /\ UNCHANGED <<sched, fatal>>
    BY <1>9
  <2>2. main' # "check" \/ MainTrialsDone
    BY <1>9
  <2>3. MainTrialsDone => trial' = trial /\ \A t \in Trials : trial[t] = "done"
    OBVIOUS
  <2>4. main' \in {"put", "stop", "join", "returned"} => main \in {"put", "stop", "join", "returned"}
    BY <1>9
  <2>5. main' = "returned" => sched = "done" /\ ~fatal
    BY <1>9
  <2> HIDE DEF MainStep, Signal, MainTrialsDone
  <2> QED
    BY <1>1, <1>2, <2>1, <2>2, <2>3, <2>4, <2>5 DEF FinalCoversAll
<1> QED
  BY <1>4, <1>5, <1>6, <1>7, <1>8, <1>9
     DEF Next, Disturbance, Terminating, SchedFail, SchedDrainFail, WorkerDies, WorkerDrainFail

LEMMA CalmInit == Init => CalmInv
<1> SUFFICES ASSUME Init PROVE CalmInv
  OBVIOUS
<1>1. TickIdx = {} /\ Queued = {} /\ DOMAIN queue = {}
  BY EmptySeq DEF Init, TickIdx, Queued
<1> QED
  BY <1>1, InitInv DEF Init, CalmInv, NothingIsLost, SentinelIsLast, FinalCoversAll

LEMMA CalmNext == CalmInv /\ ~DbOutage /\ [Next]_vars => CalmInv'
<1> SUFFICES ASSUME CalmInv, ~DbOutage, [Next]_vars PROVE CalmInv'
  OBVIOUS
<1>1. RowInv' /\ FinalCoversAll'
  BY NextInv, FinalCalm DEF CalmInv
<1>2. ASSUME Tick \/ (\E t \in Trials : TrialStep(t) \/ TrialCrash(t)) \/ UNCHANGED vars
      PROVE  NothingIsLost' /\ SentinelIsLast'
  BY <1>2, TrialCalm
<1>3. ASSUME SchedStep PROVE NothingIsLost' /\ SentinelIsLast'
  BY <1>3, SchedQuietCalm, InsertCalm, EnqueueCalm, DrainCalm DEF SchedStep
<1>4. ASSUME WorkerStep PROVE NothingIsLost' /\ SentinelIsLast'
  BY <1>4, GetCalm, RecordCalm, WorkerQuietCalm, DrainCalm DEF WorkerStep
<1>5. ASSUME MainStep \/ Signal PROVE NothingIsLost' /\ SentinelIsLast'
  BY <1>5, MainCalm, InsertCalm, EnqueueCalm DEF MainStep
<1>6. NothingIsLost' /\ SentinelIsLast'
  BY <1>2, <1>3, <1>4, <1>5
     DEF Next, Disturbance, Terminating, SchedFail, SchedDrainFail, WorkerDies, WorkerDrainFail
<1> QED
  BY <1>1, <1>6 DEF CalmInv

\* Without database outages the stronger invariant holds throughout: no row leaves
\* the hands of the threads unmeasured, and the sentinel is put last.
THEOREM CalmInvHolds == ~DbOutage /\ Spec => []CalmInv
<1> SUFFICES ASSUME ~DbOutage PROVE Spec => []CalmInv
  OBVIOUS
<1>1. CalmInv /\ [Next]_vars => CalmInv'
  BY CalmNext
<1> QED
  BY <1>1, CalmInit, PTL DEF Spec

LEMMA ReturnedMeasured ==
  ASSUME CalmInv, main = "returned"
  PROVE  /\ \A i \in TickIdx : status[i] = "completed"
         /\ finalTick # None /\ ticks[finalTick].trials = Trials
<1>1. TypeOK /\ RowsAreHeldOnce /\ NothingIsLost /\ SentinelIsLast /\ FinalCoversAll /\ FailureStops
  BY DEF CalmInv, RowInv
<1>2. sched = "done" /\ worker = "done" /\ ~fatal /\ ~stopEvent /\ ~signalled
  BY <1>1 DEF FinalCoversAll, FailureStops, NothingIsLost, Undisturbed
<1>3. Queued = {} /\ cur = None /\ emitting = None /\ ToPut = None
  <2>1. Queued = {}
    BY <1>1, <1>2, EmptySeq DEF SentinelIsLast, Queued
  <2> QED
    BY <1>1, <1>2, <2>1 DEF RowsAreHeldOnce, NothingIsLost, ToPut
<1>4. \A i \in TickIdx : status[i] # "pending"
  BY <1>1, <1>2, <1>3, TickIdxType DEF NothingIsLost, Held
<1>5. \A i \in TickIdx : status[i] \in Statuses
  BY <1>1, TickIdxType, ElementOfSeq, LenProperties DEF TypeOK, TickIdx
<1>6. \A i \in TickIdx : status[i] = "completed"
  BY <1>1, <1>2, <1>4, <1>5 DEF SentinelIsLast, Statuses
<1> QED
  BY <1>1, <1>6, TickIdxType DEF FinalCoversAll

\* A run that returns normally measured every tick, and its final tick covers every
\* trial (_run_live_experiment, stop, run_loop).
THEOREM NormalReturn == ~DbOutage /\ Spec => []SuccessMeansMeasured
<1>1. CalmInv => SuccessMeansMeasured
  BY ReturnedMeasured DEF SuccessMeansMeasured
<1> QED
  BY <1>1, CalmInvHolds, PTL

\* A pending tick is in exactly one thread's hands, once: none is measured twice and
\* none is forgotten, except a final tick that a signal caught before its put.
THEOREM NothingLost == ~DbOutage /\ Spec => []SingleOwner
<1>1. ASSUME CalmInv, NEW i \in TickIdx
      PROVE  /\ Cardinality(InHands(i)) <= 1
             /\ Cardinality({k \in DOMAIN queue : queue[k] = i}) <= 1
             /\ InHands(i) # {} => status[i] = "pending"
             /\ status[i] = "pending" /\ InHands(i) = {} => signalled /\ i = finalTick
  <2>1. TypeOK /\ RowsAreHeldOnce /\ NothingIsLost
    BY <1>1 DEF CalmInv, RowInv
  <2>2. i # None
    BY <2>1, TickIdxType
  <2>3. ASSUME NEW S, \A x, y \in S : x = y PROVE Cardinality(S) <= 1
    <3>1. CASE S = {}
      BY <3>1, FS_EmptySet
    <3>2. CASE S # {}
      <4>1. PICK x \in S : TRUE
        BY <3>2
      <4>2. S = {x}
        BY <2>3, <4>1
      <4> QED
        BY <4>2, FS_Singleton
    <3> QED
      BY <3>1, <3>2
  <2>4. \A h, g \in InHands(i) : h = g
    BY <2>1, <2>2 DEF InHands, RowsAreHeldOnce, ToPut
  <2>5. \A k, l \in {m \in DOMAIN queue : queue[m] = i} : k = l
    BY <2>1, <2>2 DEF RowsAreHeldOnce
  <2>6. InHands(i) # {} => status[i] = "pending"
    BY <2>1, <2>2 DEF InHands, RowsAreHeldOnce, ToPut
  <2>7. Held(i) => InHands(i) # {}
    BY <2>2 DEF InHands, Held, ToPut
  <2> QED
    BY <2>1, <2>3, <2>4, <2>5, <2>6, <2>7 DEF NothingIsLost
<1>2. CalmInv => SingleOwner
  BY <1>1 DEF SingleOwner
<1> QED
  BY <1>2, CalmInvHolds, PTL

-----------------------------------------------------------------------------
(* Nothing but the final tick is put after the sentinel.                    *)

\* A step that leaves the queue and the final tick alone.
LEMMA SameQueueEnds ==
  ASSUME OnlyFinalFollows, UNCHANGED <<queue, finalTick>>,
         fatal => fatal', signalled => signalled',
         sched \in {"join", "drain", "done"} <=> sched' \in {"join", "drain", "done"},
         sched' = "done" => sched = "done" \/ SentinelGone,
         worker' = "done" => worker = "done",
         main' \in {"wait", "check"} => main \in {"wait", "check"},
         main \in {"put", "stop", "join", "returned"} =>
           fatal' \/ signalled' \/ main' \in {"put", "stop", "join", "returned"}
  PROVE  OnlyFinalFollows'
<1>1. Queued' = Queued
  BY DEF Queued
<1>2. SentinelGone' <=> SentinelGone
  BY <1>1 DEF SentinelGone
<1> QED
  BY <1>1, <1>2 DEF OnlyFinalFollows

LEMMA TrialEnds ==
  ASSUME EndInv, Tick \/ (\E t \in Trials : TrialStep(t) \/ TrialCrash(t)) \/ UNCHANGED vars
  PROVE  OnlyFinalFollows'
<1>1. UNCHANGED <<queue, finalTick, fatal, signalled, sched, worker, main>>
  BY DEF Tick, TrialStep, TrialBegin, TrialRegister, TrialLaunch, TrialRefused, TrialEnd,
         TrialCrash, Unregister, TrialFrame, tickVars, schedVars, workerVars, mainVars, flagVars,
         vars
<1> QED
  BY <1>1, SameQueueEnds DEF EndInv

LEMMA SchedEnds ==
  ASSUME EndInv, SchedCollectDue \/ SchedInsert \/ SchedNext \/ SchedFatal \/ SchedJoin
  PROVE  OnlyFinalFollows'
<1>1. /\ UNCHANGED <<queue, finalTick, signalled, fatal, worker, main>>
      /\ sched \in {"join", "drain", "done"} <=> sched' \in {"join", "drain", "done"}
      /\ sched' = "done" => sched = "join" /\ worker = "done" /\ ~fatal
  BY DEF SchedCollectDue, SchedInsert, InsertTick, SchedNext, SchedFatal, SchedJoin, SchedFrame,
         tickVars, workerVars, mainVars, flagVars
<1>2. sched' = "done" => SentinelGone
  BY <1>1 DEF EndInv, OnlyFinalFollows
<1> QED
  BY <1>1, <1>2, SameQueueEnds DEF EndInv

LEMMA WorkerEnds ==
  ASSUME EndInv, WorkerComplete \/ WorkerError \/ WorkerCheckStop \/ WorkerFatal
  PROVE  OnlyFinalFollows'
<1>1. /\ UNCHANGED <<queue, finalTick, signalled, sched, main>>
      /\ fatal' = fatal \/ fatal' = (fatal \/ ~stopEvent)
      /\ worker' # "done"
  BY DEF WorkerComplete, WorkerError, WorkerCheckStop, WorkerFatal, WorkerFrame,
         tickVars, schedVars, mainVars, flagVars
<1>2. fatal => fatal'
  BY <1>1
<1> QED
  BY <1>1, <1>2, SameQueueEnds DEF EndInv

LEMMA MainEnds ==
  ASSUME EndInv,
         \/ MainTrialsDone \/ MainTrialFailed \/ MainCheckRaises \/ MainStop \/ MainJoin
         \/ MainFlags \/ MainShutdownPool \/ MainJoinInterrupted \/ Signal
         \/ MainSweep \/ MainExit \/ SignalSweep
  PROVE  OnlyFinalFollows'
<1>1. /\ UNCHANGED <<queue, finalTick, fatal, sched, worker>>
      /\ signalled => signalled'
      /\ main' \in {"wait", "check"} => main \in {"wait", "check"}
      /\ main \in {"put", "stop", "join", "returned"} =>
           fatal' \/ signalled' \/ main' \in {"put", "stop", "join", "returned"}
  BY DEF MainTrialsDone, MainTrialFailed, MainCheckRaises, MainStop, MainJoin, MainFlags,
         MainShutdownPool, MainJoinInterrupted, Signal, MainSweep, MainExit, SignalSweep,
         MainGoto, MainFrame, tickVars, schedVars, workerVars, flagVars
<1> QED
  BY <1>1, SameQueueEnds DEF EndInv

\* Before the main thread inserts the final tick, nothing follows the sentinel.
LEMMA FinalTickEnds ==
  ASSUME EndInv, MainFinalTick
  PROVE  OnlyFinalFollows'
<1>1. TypeOK /\ OnlyFinalFollows
  BY DEF EndInv, CalmInv, RowInv
<1>2. /\ main = "check" /\ main' = "put"
      /\ UNCHANGED <<queue, fatal, signalled, sched, worker>>
  BY DEF MainFinalTick, InsertTick, MainFrame, schedVars, workerVars, flagVars
<1>3. finalTick = None /\ Queued' = Queued
  BY <1>1, <1>2 DEF OnlyFinalFollows, Queued
<1>4. SentinelGone' <=> SentinelGone
  BY <1>2, <1>3 DEF SentinelGone
<1>5. SentinelGone => Queued = {}
  BY <1>1, <1>3 DEF OnlyFinalFollows, SentinelGone
<1> QED
  BY <1>1, <1>2, <1>3, <1>4, <1>5 DEF OnlyFinalFollows

\* The scheduler thread puts a tick or the sentinel while no sentinel is queued, and
\* the main thread puts the final tick.
LEMMA PutEnds ==
  ASSUME EndInv, SchedEnqueue \/ SchedSentinel \/ MainPutFinal
  PROVE  OnlyFinalFollows'
<1>1. TypeOK /\ NothingIsLost /\ FinalCoversAll /\ OnlyFinalFollows
  BY DEF EndInv, CalmInv, RowInv
<1>2. PICK item \in TickIdx \cup {None} :
        /\ Enqueue(item)
        /\ \/ SchedEnqueue /\ item = emitting
           \/ SchedSentinel /\ item = None
           \/ MainPutFinal /\ item = finalTick
  BY <1>1 DEF SchedEnqueue, SchedSentinel, MainPutFinal, TypeOK
<1>3. /\ Queued' = Queued \cup {item}
      /\ Len(queue) \in Nat /\ DOMAIN queue = 1..Len(queue) /\ DOMAIN queue' = 1..Len(queue) + 1
      /\ \A k \in DOMAIN queue : queue'[k] = queue[k]
      /\ queue'[Len(queue) + 1] = item
  BY <1>1, <1>2, EnqueueFacts, TickIdxType
<1>4. UNCHANGED <<worker, finalTick, signalled, fatal>>
  BY DEF SchedEnqueue, SchedSentinel, MainPutFinal, SchedFrame, MainFrame, MainGoto,
         workerVars, mainVars, flagVars
<1>5. CASE (SchedEnqueue /\ item = emitting) \/ (SchedSentinel /\ item = None)
  <2>1. /\ sched \in {"telemetry", "finish"} /\ main' = main
        /\ IF item = None THEN sched' = "join" ELSE sched' = "emit"
    BY <1>1, <1>5 DEF SchedEnqueue, SchedSentinel, SchedFrame, NothingIsLost, mainVars
  <2>2. None \notin Queued /\ ~SentinelGone
    BY <1>1, <2>1 DEF OnlyFinalFollows, SentinelGone
  <2>3. \A k \in DOMAIN queue : queue[k] # None
    BY <2>2 DEF Queued
  <2>4. \A k, l \in DOMAIN queue' : k < l => queue'[k] # None
    BY <1>3, <2>3
  <2>5. ~SentinelGone' /\ (None \in Queued' => sched' = "join") /\ sched' # "done"
    BY <1>3, <2>1, <2>2 DEF SentinelGone
  <2> QED
    BY <1>1, <1>4, <2>1, <2>2, <2>4, <2>5 DEF OnlyFinalFollows
<1>6. CASE MainPutFinal /\ item = finalTick
  <2>1. main = "put" /\ main' = "stop" /\ sched' = sched
    BY <1>6 DEF MainPutFinal, MainFrame, MainGoto, schedVars
  <2>2. item # None
    BY <1>1, <1>6, <2>1, TickIdxType DEF FinalCoversAll
  <2>3. SentinelGone' <=> SentinelGone
    BY <1>3, <2>1, <2>2 DEF SentinelGone
  <2>4. \A k, l \in DOMAIN queue' : k < l /\ queue'[k] = None => queue'[l] = finalTick
    <3> SUFFICES ASSUME NEW k \in DOMAIN queue', NEW l \in DOMAIN queue', k < l, queue'[k] = None
                 PROVE  queue'[l] = finalTick
      OBVIOUS
    <3>1. k \in DOMAIN queue /\ queue[k] = None
      BY <1>3
    <3>2. CASE l \in DOMAIN queue
      BY <1>1, <1>3, <3>1, <3>2 DEF OnlyFinalFollows
    <3>3. CASE l = Len(queue) + 1
      BY <1>3, <1>6, <3>3
    <3> QED
      BY <1>3, <3>2, <3>3
  <2> QED
    BY <1>1, <1>3, <1>4, <1>6, <2>1, <2>2, <2>3, <2>4 DEF OnlyFinalFollows
<1> QED
  BY <1>2, <1>5, <1>6

\* The head of the queue is taken: behind the sentinel, only the final tick remains.
LEMMA TailEnds ==
  ASSUME TypeOK, OnlyFinalFollows, queue # <<>>, queue' = Tail(queue), finalTick' = finalTick,
         sched \in {"join", "drain", "done"} <=> sched' \in {"join", "drain", "done"}
  PROVE  /\ None \in Queued' => sched' \in {"join", "drain", "done"}
         /\ \A k, l \in DOMAIN queue' :
              k < l /\ queue'[k] = None => queue'[l] = finalTick /\ finalTick # None
         /\ SentinelGone' => Queued' \subseteq {finalTick}
         /\ SentinelGone \/ Head(queue) = None => SentinelGone'
<1>1. /\ 1 \in DOMAIN queue /\ Head(queue) = queue[1] /\ DOMAIN queue' \subseteq Nat \ {0}
      /\ \A k \in DOMAIN queue' : k + 1 \in DOMAIN queue /\ queue'[k] = queue[k + 1]
      /\ Queued = Queued' \cup {Head(queue)}
  BY TailFacts, DequeueFacts
<1>2. \A k, l \in DOMAIN queue' :
        k < l /\ queue'[k] = None => queue'[l] = finalTick /\ finalTick # None
  BY <1>1 DEF OnlyFinalFollows
<1>3. Head(queue) = None => Queued' \subseteq {finalTick} \ {None}
  <2> SUFFICES ASSUME Head(queue) = None, NEW k \in DOMAIN queue'
               PROVE  queue'[k] = finalTick /\ finalTick # None
    BY DEF Queued
  <2>1. 1 < k + 1 /\ k + 1 \in DOMAIN queue /\ queue[1] = None
    BY <1>1
  <2> QED
    BY <1>1, <2>1 DEF OnlyFinalFollows
<1>4. Head(queue) = None => sched \in {"join", "drain", "done"}
  BY <1>1 DEF OnlyFinalFollows
<1>5. Head(queue) # None => (SentinelGone' <=> SentinelGone)
  BY <1>1 DEF SentinelGone
<1> QED
  BY <1>1, <1>2, <1>3, <1>4, <1>5 DEF OnlyFinalFollows, SentinelGone

LEMMA GetEnds ==
  ASSUME EndInv, WorkerGet
  PROVE  OnlyFinalFollows'
<1>1. TypeOK /\ OnlyFinalFollows
  BY DEF EndInv, CalmInv, RowInv
<1>2. /\ queue # <<>> /\ queue' = Tail(queue)
      /\ UNCHANGED <<finalTick, signalled, fatal, sched, main>>
      /\ worker' = "done" => Head(queue) = None
  BY DEF WorkerGet, WorkerFrame, schedVars, mainVars, flagVars
<1> QED
  BY <1>1, <1>2, TailEnds DEF OnlyFinalFollows

LEMMA DrainEnds ==
  ASSUME EndInv, WorkerDrain \/ SchedDrain
  PROVE  OnlyFinalFollows'
<1>1. TypeOK /\ OnlyFinalFollows /\ fatal /\ (sched = "done" => worker = "done")
  BY DEF EndInv, CalmInv, RowInv, NothingIsLost, FailureStops, WorkerDrain, SchedDrain
<1>2. /\ UNCHANGED <<finalTick, signalled, fatal, main>>
      /\ sched \in {"join", "drain", "done"} <=> sched' \in {"join", "drain", "done"}
      /\ sched' = sched \/ (SchedDrain /\ AbortPendingReturns)
      /\ AbortPending \/ AbortPendingReturns
  BY DEF WorkerDrain, SchedDrain, WorkerFrame, SchedFrame, schedVars, mainVars, flagVars
<1>3. CASE queue # <<>>
  <2>1. queue' = Tail(queue) /\ (AbortPendingReturns => Head(queue) = None)
    BY <1>2, <1>3 DEF AbortPending, AbortPendingReturns
  <2>2. sched' = "done" => SentinelGone'
    BY <1>1, <1>2, <1>3, <2>1, TailEnds DEF OnlyFinalFollows
  <2> QED
    BY <1>1, <1>2, <1>3, <2>1, <2>2, TailEnds DEF OnlyFinalFollows
<1>4. CASE queue = <<>>
  <2>1. queue' = queue /\ Queued' = {} /\ Queued = {}
    BY <1>2, <1>4, EmptySeq DEF AbortPending, AbortPendingReturns, Queued
  <2>2. SentinelGone' <=> SentinelGone
    BY <1>2, <2>1 DEF SentinelGone
  <2>3. sched' = "done" => SentinelGone'
    BY <1>2, <2>1 DEF SentinelGone
  <2> QED
    BY <1>1, <1>2, <2>1, <2>2, <2>3 DEF OnlyFinalFollows
<1> QED
  BY <1>3, <1>4

LEMMA EndInit == Init => EndInv
<1> SUFFICES ASSUME Init PROVE EndInv
  OBVIOUS
<1>1. Queued = {} /\ DOMAIN queue = {}
  BY EmptySeq DEF Init, Queued
<1> QED
  BY <1>1, CalmInit DEF Init, EndInv, OnlyFinalFollows, SentinelGone

LEMMA EndNext == EndInv /\ ~DbOutage /\ [Next]_vars => EndInv'
<1> SUFFICES ASSUME EndInv, ~DbOutage, [Next]_vars PROVE EndInv'
  OBVIOUS
<1>1. CalmInv'
  BY CalmNext DEF EndInv
<1>2. ASSUME Tick \/ (\E t \in Trials : TrialStep(t) \/ TrialCrash(t)) \/ UNCHANGED vars
      PROVE  OnlyFinalFollows'
  BY <1>2, TrialEnds
<1>3. ASSUME SchedStep PROVE OnlyFinalFollows'
  BY <1>3, SchedEnds, PutEnds, DrainEnds DEF SchedStep
<1>4. ASSUME WorkerStep PROVE OnlyFinalFollows'
  BY <1>4, WorkerEnds, GetEnds, DrainEnds DEF WorkerStep
<1>5. ASSUME MainStep \/ Signal PROVE OnlyFinalFollows'
  BY <1>5, MainEnds, FinalTickEnds, PutEnds DEF MainStep
<1>6. OnlyFinalFollows'
  BY <1>2, <1>3, <1>4, <1>5
     DEF Next, Disturbance, Terminating, SchedFail, SchedDrainFail, WorkerDies, WorkerDrainFail
<1> QED
  BY <1>1, <1>6 DEF EndInv

\* Without database outages, once all threads are gone, the only tick still pending is
\* the final one, and only if a fatal error or a signal ended the run.
THEOREM OnlyFinalIsLost == ~DbOutage /\ Spec => []OnlyFinalLeftPending
<1> SUFFICES ASSUME ~DbOutage PROVE Spec => []OnlyFinalLeftPending
  OBVIOUS
<1>1. ASSUME EndInv, AllDone, NEW i \in TickIdx, status[i] = "pending"
      PROVE  i = finalTick /\ (fatal \/ signalled)
  <2>1. /\ TypeOK /\ RowsAreHeldOnce /\ NothingIsLost /\ OnlyFinalFollows /\ FinalCoversAll
        /\ sched = "done" /\ worker = "done" /\ main \in {"returned", "raised"}
    BY <1>1 DEF EndInv, CalmInv, RowInv, AllDone, MainDone
  <2>2. i # None
    BY <2>1, TickIdxType
  <2>3. cur = None /\ emitting = None /\ ToPut = None
    BY <2>1 DEF RowsAreHeldOnce, NothingIsLost, ToPut
  <2>4. i = finalTick
    BY <1>1, <2>1, <2>2, <2>3 DEF NothingIsLost, Held, OnlyFinalFollows
  <2>5. main = "returned" => FALSE
    BY <1>1, ReturnedMeasured DEF EndInv
  <2> QED
    BY <2>1, <2>2, <2>4, <2>5 DEF OnlyFinalFollows
<1>2. EndInv => OnlyFinalLeftPending
  BY <1>1 DEF OnlyFinalLeftPending
<1>3. EndInv /\ [Next]_vars => EndInv'
  BY EndNext
<1> QED
  BY <1>2, <1>3, EndInit, PTL DEF Spec

-----------------------------------------------------------------------------
(* No tick is measured on top of a failed one.                              *)

LEMMA CauseNext == CalmInv /\ StopHasCause /\ ~DbOutage /\ [Next]_vars => StopHasCause'
<1> SUFFICES ASSUME CalmInv, StopHasCause, ~DbOutage, [Next]_vars PROVE StopHasCause'
  OBVIOUS
<1>1. /\ TypeOK /\ (main \in SweepPhases => stopEvent)
      /\ sched \in {"fatal", "drain"} \/ worker \in {"fatal", "drain"} => fatal
  BY DEF CalmInv, RowInv, FailureStops, NothingIsLost
<1>2. ASSUME UNCHANGED <<worker, fatal, stopEvent, main, signalled>>,
             \A t \in Trials : trial[t] = "failed" => trial'[t] = "failed"
      PROVE  StopHasCause'
  BY <1>2 DEF StopHasCause
<1>3. CASE Tick \/ UNCHANGED vars
  BY <1>2, <1>3 DEF Tick, vars, trialVars, workerVars, mainVars, flagVars
<1>4. ASSUME NEW t \in Trials, TrialStep(t) \/ TrialCrash(t) PROVE StopHasCause'
  <2>1. /\ trial[t] # "failed" /\ \A u \in Trials \ {t} : trial'[u] = trial[u]
        /\ UNCHANGED <<worker, fatal, stopEvent, main, signalled>>
    BY <1>1, <1>4 DEF TrialStep, TrialBegin, TrialRegister, TrialLaunch, TrialRefused, TrialEnd,
       TrialCrash, Unregister, TrialFrame, Running, ActiveStates, TypeOK, workerVars, mainVars,
       flagVars
  <2> QED
    BY <1>2, <2>1
<1>5. CASE SchedStep
  <2>1. /\ UNCHANGED <<trial, worker, fatal, main, signalled>>
        /\ stopEvent' = stopEvent \/ sched = "fatal"
    BY <1>5 DEF SchedStep, SchedCollectDue, SchedInsert, SchedEnqueue, SchedNext, SchedFatal,
       SchedSentinel, SchedJoin, SchedDrain, SchedFrame, trialVars, workerVars, mainVars, flagVars
  <2> QED
    BY <1>1, <2>1 DEF StopHasCause
<1>6. CASE WorkerStep
  <2>1. CASE WorkerCheckStop
    <3>1. UNCHANGED <<trial, stopEvent, main, signalled>> /\ worker = "recorded"
      BY <2>1 DEF WorkerCheckStop, WorkerFrame, trialVars, mainVars
    <3>2. CASE stopEvent
      <4>1. ~fatal
        BY <3>1 DEF StopHasCause
      <4>2. ~fatal'
        BY <2>1, <3>2, <4>1 DEF WorkerCheckStop
      <4> QED
        BY <3>1, <4>1, <4>2 DEF StopHasCause
    <3>3. CASE ~stopEvent
      <4>1. worker' = "fatal" /\ fatal'
        BY <2>1, <3>3 DEF WorkerCheckStop
      <4> QED
        BY <3>1, <4>1 DEF StopHasCause
    <3> QED
      BY <3>2, <3>3
  <2>2. CASE ~WorkerCheckStop
    <3>1. /\ UNCHANGED <<trial, fatal, main, signalled>>
          /\ stopEvent' = stopEvent \/ worker = "fatal"
          /\ worker \in {"fatal", "drain", "done"} => worker' \in {"fatal", "drain", "done"}
      BY <1>6, <2>2 DEF WorkerStep, WorkerGet, WorkerComplete, WorkerError, WorkerFatal,
         WorkerDrain, WorkerFrame, trialVars, mainVars, flagVars
    <3> QED
      BY <1>1, <3>1 DEF StopHasCause
  <2> QED
    BY <2>1, <2>2
<1>7. CASE MainStep \/ Signal
  <2> USE DEF MainStep, Signal, MainTrialsDone, MainTrialFailed, MainFinalTick, MainCheckRaises,
              MainPutFinal, MainStop, MainJoin, MainFlags, MainSweep, MainShutdownPool,
              MainJoinInterrupted, MainExit, SignalSweep, MainGoto, MainFrame, trialVars,
              workerVars, flagVars
  <2>1. /\ UNCHANGED <<worker, fatal>>
        /\ trial' = trial \/ CancelQueued
    BY <1>7
  <2>2. \/ UNCHANGED <<stopEvent, signalled>> /\ main' # "flags"
        \/ signalled'
        \/ MainFlags \/ MainTrialFailed \/ MainCheckRaises \/ SignalSweep
    BY <1>7
  <2>3. signalled => signalled'
    BY <1>7
  <2>4. MainFlags \/ MainTrialFailed \/ MainCheckRaises \/ SignalSweep =>
          signalled \/ fatal \/ \E t \in Trials : trial[t] = "failed"
    BY <1>1 DEF StopHasCause, SweepPhases
  <2> HIDE DEF MainFlags, MainTrialFailed, MainCheckRaises, SignalSweep
  <2>5. (\E t \in Trials : trial[t] = "failed") => \E t \in Trials : trial'[t] = "failed"
    BY <2>1 DEF CancelQueued
  <2> QED
    BY <2>1, <2>2, <2>3, <2>4, <2>5 DEF StopHasCause
<1> QED
  BY <1>3, <1>4, <1>5, <1>6, <1>7
     DEF Next, Disturbance, Terminating, SchedFail, SchedDrainFail, WorkerDies, WorkerDrainFail

\* Without database outages no tick is measured on top of a failed one, which would leave
\* files out of the cumulative coverage, unless a signal or a failing trial stopped the run
\* before the failure became fatal (_tick_worker_loop).
THEOREM FailureEndsMeasuring == ~DbOutage /\ Spec => NothingMeasuredAfterFailure
<1> SUFFICES ASSUME ~DbOutage PROVE Spec => NothingMeasuredAfterFailure
  OBVIOUS
<1> DEFINE Step == \A i, j \in TickIdx :
                     status[i] = "failed" /\ status[j] # "completed" /\ status'[j] = "completed" =>
                       ~fatal /\ (signalled \/ \E t \in Trials : trial[t] = "failed")
<1>1. Init => CalmInv /\ StopHasCause
  BY CalmInit DEF Init, StopHasCause
<1>2. CalmInv /\ StopHasCause /\ [Next]_vars => (CalmInv /\ StopHasCause)'
  BY CalmNext, CauseNext
<1>3. ASSUME CalmInv, StopHasCause, [Next]_vars PROVE [Step]_vars
  <2>1. TypeOK /\ FailureStops
    BY <1>3 DEF CalmInv, RowInv
  <2>2. ASSUME worker = "measure" PROVE Step
    BY <1>3, <2>1, <2>2 DEF FailureStops, StopHasCause
  <2>3. ASSUME SchedInsert \/ MainFinalTick PROVE Step
    <3>1. PICK ts \in Nat, trials \in SUBSET Trials : InsertTick(ts, trials)
      BY <2>1, <2>3 DEF SchedInsert, MainFinalTick, TypeOK, Due, CampaignTrials
    <3> QED
      BY <2>1, <3>1, InsertFacts
  <2>4. ASSUME WorkerDrain \/ SchedDrain PROVE Step
    <3>1. CASE AbortPending
      <4>1. Head(queue) \in TickIdx /\ Mark(Head(queue), "aborted") /\ "aborted" \in Statuses
        BY <2>1, <3>1, DequeueFacts DEF AbortPending, Statuses
      <4>2. \A j \in TickIdx : status'[j] \in {status[j], "aborted"}
        BY <2>1, <4>1, MarkFacts
      <4> QED
        BY <4>2
    <3>2. CASE AbortPendingReturns
      BY <3>2 DEF AbortPendingReturns
    <3> QED
      BY <2>4, <3>1, <3>2, DrainCases
  <2>5. ASSUME status' = status PROVE Step
    BY <2>5
  <2>6. \/ status' = status \/ SchedInsert \/ MainFinalTick \/ WorkerDrain \/ SchedDrain
        \/ worker = "measure"
    BY <1>3, StatusSteps
  <2> HIDE DEF Step
  <2> QED
    BY <2>2, <2>3, <2>4, <2>5, <2>6
<1> QED
  BY <1>1, <1>2, <1>3, PTL DEF Spec, NothingMeasuredAfterFailure

-----------------------------------------------------------------------------
(***************************************************************************)
(* The order of the rows                                                   *)
(***************************************************************************)

-----------------------------------------------------------------------------
(* Multiples of the cadence.                                                *)

LEMMA ModMultiple ==
  ASSUME NEW E \in Nat \ {0}, NEW k \in Int
  PROVE  (k * E) % E = 0
  BY SMT

LEMMA MultipleMod ==
  ASSUME NEW E \in Nat \ {0}, NEW a \in Int, a % E = 0
  PROVE  \E k \in Int : a = k * E
<1>1. a = (a \div E) * E /\ a \div E \in Int
  BY SMT
<1> QED
  BY <1>1

LEMMA ModSmall ==
  ASSUME NEW E \in Nat \ {0}, NEW a \in Int, a > 0, a % E = 0
  PROVE  a >= E
  BY SMT

LEMMA ModSum ==
  ASSUME NEW E \in Nat \ {0}, NEW a \in Int, NEW b \in Int, a % E = 0, b % E = 0
  PROVE  (a + b) % E = 0 /\ (a - b) % E = 0
<1>1. PICK k \in Int : a = k * E
  BY MultipleMod
<1>2. PICK l \in Int : b = l * E
  BY MultipleMod
<1>3. a + b = (k + l) * E /\ a - b = (k - l) * E /\ k + l \in Int /\ k - l \in Int
  BY <1>1, <1>2
<1> QED
  BY <1>3, ModMultiple

LEMMA ModChain ==
  ASSUME NEW E \in Nat \ {0}, NEW x \in Int, NEW y \in Int, NEW z \in Int
  PROVE  /\ (x - y) % E = 0 /\ (y - z) % E = 0 => (x - z) % E = 0
         /\ (x - z) % E = 0 /\ (y - z) % E = 0 => (x - y) % E = 0
<1> DEFINE a == x - y
           b == y - z
           c == x - z
<1>1. a \in Int /\ b \in Int /\ c \in Int /\ a + b = c /\ c - b = a
  OBVIOUS
<1>2. (a % E = 0 /\ b % E = 0 => (a + b) % E = 0) /\ (c % E = 0 /\ b % E = 0 => (c - b) % E = 0)
  <2> HIDE DEF a, b, c
  <2> QED
    BY <1>1, ModSum
<1> QED
  BY <1>1, <1>2

\* The catch-up of _next_periodic_ts: the first multiple of E past the delay n - d.
LEMMA CatchUp ==
  ASSUME NEW E \in Nat \ {0}, NEW d \in Int, NEW n \in Int, d <= n
  PROVE  /\ ((n - d) \div E + 1) * E \in Int /\ (((n - d) \div E + 1) * E) % E = 0
         /\ n < d + ((n - d) \div E + 1) * E /\ d + ((n - d) \div E + 1) * E <= n + E
<1> DEFINE q == (n - d) \div E
<1>1. q \in Int /\ E * q <= n - d /\ n - d < E * q + E
  BY SMT
<1>2. (q + 1) * E = E * q + E /\ (q + 1) \in Int /\ (q + 1) * E \in Int
  BY <1>1
<1>3. ((q + 1) * E) % E = 0
  BY <1>2, ModMultiple
<1> QED
  BY <1>1, <1>2, <1>3

-----------------------------------------------------------------------------
(* Times, and the steps that leave a trial's snapshots alone.               *)

LEMMA TimeTypes ==
  ASSUME TypeOK
  PROVE  /\ Every \in Nat \ {0} /\ Campaign \in Nat \ {0} /\ LastStart \in Nat
         /\ Horizon \in Nat
         /\ \A i \in TickIdx : ticks[i].ts \in Nat /\ ticks[i].trials \in SUBSET Trials
         /\ \A d \in batch : d.ts \in Nat /\ d.trials \in SUBSET Trials
         /\ \A t \in Trials : /\ startTs[t] \in Nat /\ nextDue[t] \in Nat
                              /\ CampaignEnd(t) \in Nat /\ CampaignEnd(t) = startTs[t] + Campaign
                              /\ Seen(t) \subseteq Nat /\ Grid(t) \subseteq Nat
<1>1. /\ Every \in Nat \ {0} /\ Campaign \in Nat \ {0} /\ LastStart \in Nat
      /\ Horizon \in Nat
  BY PipelineAssumption DEF Horizon
<1>2. \A i \in TickIdx : ticks[i] \in Due
  BY ElementOfSeq DEF TypeOK, TickIdx
<1>3. \A i \in TickIdx : ticks[i].ts \in Nat /\ ticks[i].trials \in SUBSET Trials
  BY <1>2 DEF Due
<1>4. \A d \in batch : d.ts \in Nat /\ d.trials \in SUBSET Trials
  BY DEF TypeOK, Due
<1>5. ASSUME NEW t \in Trials
      PROVE  /\ startTs[t] \in Nat /\ nextDue[t] \in Nat
             /\ CampaignEnd(t) \in Nat /\ CampaignEnd(t) = startTs[t] + Campaign
             /\ Seen(t) \subseteq Nat /\ Grid(t) \subseteq Nat
  <2>1. startTs[t] \in Nat /\ nextDue[t] \in Nat
    BY DEF TypeOK
  <2>2. Seen(t) \subseteq Nat
    BY <1>3, <1>4 DEF Seen, TickTimes, BatchTimes, Periodic
  <2>3. Grid(t) \subseteq Nat
    BY <1>1, <2>1 DEF Grid
  <2> QED
    BY <1>1, <2>1, <2>2, <2>3 DEF CampaignEnd
<1> QED
  BY <1>1, <1>3, <1>4, <1>5

LEMMA SameGrid ==
  ASSUME NEW t \in Trials, OnGrid(t), Seen(t)' = Seen(t), startTs'[t] = startTs[t],
         trial'[t] \in ActiveStates => trial[t] \in ActiveStates /\ nextDue'[t] = nextDue[t]
  PROVE  OnGrid(t)'
<1>1. Grid(t)' = Grid(t)
  BY DEF Grid, CampaignEnd
<1>2. Open(t)' = Open(t)
  BY <1>1 DEF Open
<1> QED
  BY <1>1, <1>2 DEF OnGrid

LEMMA SameRows ==
  ASSUME UNCHANGED <<ticks, finalTick, batch>>
  PROVE  \A t \in Trials : /\ TickTimes(t)' = TickTimes(t) /\ BatchTimes(t)' = BatchTimes(t)
                           /\ Seen(t)' = Seen(t)
  BY DEF Seen, TickTimes, BatchTimes, Periodic, TickIdx

LEMMA KeptGrid ==
  ASSUME GridInv, UNCHANGED <<now, startTs, batch>>,
         \A t \in Trials : TickTimes(t)' = TickTimes(t) /\ BatchTimes(t)' = BatchTimes(t),
         \A t \in Trials :
           /\ trial'[t] \in ActiveStates => trial[t] \in ActiveStates /\ nextDue'[t] = nextDue[t]
           /\ trial'[t] \in {"queued", "starting"} => trial'[t] = trial[t],
         sched' = "loop" => batch = {},
         main' \in {"wait", "check"} => finalTick' = None
  PROVE  BatchIsAhead' /\ GridNeverSkips'
<1>1. \A t \in Trials : Seen(t)' = Seen(t)
  BY DEF Seen
<1>2. GridNeverSkips'
  BY <1>1, SameGrid DEF GridInv, GridNeverSkips
<1>3. BatchIsAhead'
  BY <1>1 DEF GridInv, BatchIsAhead, Horizon
<1> QED
  BY <1>2, <1>3

-----------------------------------------------------------------------------
(* The steps of the trial threads and of time.                              *)

LEMMA TickGrid ==
  ASSUME GridInv, Tick
  PROVE  BatchIsAhead' /\ GridNeverSkips'
<1>1. TypeOK /\ BatchIsAhead /\ GridNeverSkips
  BY DEF GridInv, RowInv
<1>2. /\ now < Horizon /\ now' = now + 1
      /\ now < LastStart \/ \A t \in Trials : trial[t] # "queued"
      /\ UNCHANGED <<trial, startTs, nextDue, ticks, batch, sched, main, finalTick>>
  BY DEF Tick, trialVars, tickVars, schedVars, mainVars
<1>3. \A t \in Trials : /\ TickTimes(t)' = TickTimes(t) /\ BatchTimes(t)' = BatchTimes(t)
                        /\ Seen(t)' = Seen(t)
  BY <1>2, SameRows
<1>4. now \in Nat /\ Horizon \in Nat /\ LastStart \in Nat
  BY <1>1, TimeTypes DEF TypeOK
<1>5. /\ now' <= Horizon' /\ \A t \in Trials : trial[t] = "queued" => now' <= LastStart
  BY <1>2, <1>4 DEF Horizon
<1>6. BatchIsAhead'
  BY <1>1, <1>2, <1>3, <1>5 DEF BatchIsAhead
<1>7. GridNeverSkips'
  BY <1>1, <1>2, <1>3, SameGrid DEF GridNeverSkips
<1> QED
  BY <1>6, <1>7

LEMMA BeginGrid ==
  ASSUME GridInv, NEW t \in Trials, TrialBegin(t)
  PROVE  BatchIsAhead' /\ GridNeverSkips'
<1>1. TypeOK /\ BatchIsAhead /\ GridNeverSkips
  BY DEF GridInv, RowInv
<1>2. /\ trial[t] = "queued" /\ trial'[t] = "starting" /\ startTs'[t] = now
      /\ \A u \in Trials \ {t} : trial'[u] = trial[u] /\ startTs'[u] = startTs[u]
      /\ UNCHANGED <<now, nextDue, ticks, batch, sched, main, finalTick>>
  BY <1>1 DEF TrialBegin, TrialFrame, tickVars, schedVars, mainVars, TypeOK
<1>3. \A u \in Trials : /\ TickTimes(u)' = TickTimes(u) /\ BatchTimes(u)' = BatchTimes(u)
                        /\ Seen(u)' = Seen(u)
  BY <1>2, SameRows
<1>4. Seen(t) = {} /\ now <= LastStart
  BY <1>1, <1>2 DEF BatchIsAhead
<1>5. BatchIsAhead'
  BY <1>1, <1>2, <1>3, <1>4 DEF BatchIsAhead, Horizon
<1>6. OnGrid(t)'
  BY <1>2, <1>3, <1>4 DEF OnGrid, ActiveStates
<1>7. \A u \in Trials \ {t} : OnGrid(u)'
  BY <1>1, <1>2, <1>3, SameGrid DEF GridNeverSkips
<1> QED
  BY <1>5, <1>6, <1>7 DEF GridNeverSkips

\* A trial registers: its first due time is the first point of its grid.
LEMMA RegisterGrid ==
  ASSUME GridInv, NEW t \in Trials, TrialRegister(t)
  PROVE  BatchIsAhead' /\ GridNeverSkips'
<1>1. TypeOK /\ BatchIsAhead /\ GridNeverSkips
  BY DEF GridInv, RowInv
<1>2. /\ trial[t] = "starting" /\ trial'[t] = "registered" /\ nextDue'[t] = FirstDue(t)
      /\ \A u \in Trials \ {t} : trial'[u] = trial[u] /\ nextDue'[u] = nextDue[u]
      /\ UNCHANGED <<now, startTs, ticks, batch, sched, main, finalTick>>
  BY <1>1 DEF TrialRegister, TrialFrame, tickVars, schedVars, mainVars, TypeOK
<1>3. \A u \in Trials : /\ TickTimes(u)' = TickTimes(u) /\ BatchTimes(u)' = BatchTimes(u)
                        /\ Seen(u)' = Seen(u)
  BY <1>2, SameRows
<1>4. BatchIsAhead'
  BY <1>1, <1>2, <1>3 DEF BatchIsAhead, Horizon
<1>5. OnGrid(t)'
  <2>1. /\ Every \in Nat \ {0} /\ startTs[t] \in Nat /\ Horizon \in Nat
        /\ CampaignEnd(t) \in Nat /\ CampaignEnd(t) <= Horizon
    BY <1>1, TimeTypes DEF BatchIsAhead, Horizon
  <2>2. Seen(t) = {} /\ Grid(t)' = Grid(t) /\ Open(t)' = Grid(t)
    BY <1>1, <1>2, <1>3 DEF BatchIsAhead, Open, Grid, CampaignEnd
  <2>3. \A g \in Grid(t) : g \in Nat /\ g >= startTs[t] + Every /\ g < CampaignEnd(t)
    BY <2>1, ModSmall DEF Grid
  <2>4. CASE startTs[t] + Every < CampaignEnd(t)
    <3>1. startTs[t] + Every \in Grid(t)
      <4>1. (1 * Every) % Every = 0
        BY <2>1, ModMultiple
      <4>2. (startTs[t] + Every) - startTs[t] = 1 * Every
        BY <2>1
      <4>3. startTs[t] + Every \in startTs[t]..Horizon /\ startTs[t] + Every > startTs[t]
        BY <2>1, <2>4
      <4> QED
        BY <2>4, <4>1, <4>2, <4>3 DEF Grid
    <3>2. nextDue'[t] = startTs[t] + Every
      BY <1>2, <2>4 DEF FirstDue
    <3> QED
      BY <1>3, <2>1, <2>2, <2>3, <3>1, <3>2 DEF OnGrid
  <2>5. CASE ~(startTs[t] + Every < CampaignEnd(t))
    <3>1. Grid(t) = {}
      BY <2>1, <2>3, <2>5
    <3>2. nextDue'[t] = NoDue
      BY <1>2, <2>5 DEF FirstDue
    <3> QED
      BY <1>3, <2>2, <3>1, <3>2 DEF OnGrid
  <2> QED
    BY <2>4, <2>5
<1>6. \A u \in Trials \ {t} : OnGrid(u)'
  BY <1>1, <1>2, <1>3, SameGrid DEF GridNeverSkips
<1> QED
  BY <1>4, <1>5, <1>6 DEF GridNeverSkips

LEMMA LeaveGrid ==
  ASSUME GridInv, NEW t \in Trials,
         TrialLaunch(t) \/ TrialRefused(t) \/ TrialEnd(t) \/ TrialCrash(t)
  PROVE  BatchIsAhead' /\ GridNeverSkips'
<1>1. TypeOK /\ BatchIsAhead
  BY DEF GridInv, RowInv
<1>2. /\ \A u \in Trials \ {t} : trial'[u] = trial[u] /\ nextDue'[u] = nextDue[u]
      /\ trial'[t] \notin {"queued", "starting"}
      /\ trial'[t] \in ActiveStates => trial[t] \in ActiveStates /\ nextDue'[t] = nextDue[t]
      /\ UNCHANGED <<now, startTs, ticks, batch, sched, main, finalTick>>
  BY <1>1 DEF TrialLaunch, TrialRefused, TrialEnd, TrialCrash, Unregister, TrialFrame, tickVars,
              schedVars, mainVars, TypeOK, ActiveStates
<1>3. /\ sched' = "loop" => batch = {}
      /\ main' \in {"wait", "check"} => finalTick' = None
  BY <1>1, <1>2 DEF BatchIsAhead
<1> QED
  BY <1>2, <1>3, SameRows, KeptGrid

-----------------------------------------------------------------------------
(* The steps of the scheduler thread.                                       *)

\* The due times of a trial are the points of its grid up to now that it does not have.
LEMMA DueTimesFacts ==
  ASSUME GridInv, NEW t \in Trials, batch = {}
  PROVE  /\ DueTimes(t) \subseteq Grid(t)
         /\ \A d \in DueTimes(t) : d <= now
         /\ \A s \in Seen(t), d \in DueTimes(t) : s < d
         /\ trial[t] \in ActiveStates => \A g \in Open(t) : g <= now => g \in DueTimes(t)
<1>1. TypeOK /\ BatchIsAhead /\ OnGrid(t)
  BY DEF GridInv, RowInv, GridNeverSkips
<1>2. /\ Every \in Nat \ {0} /\ startTs[t] \in Nat /\ Horizon \in Nat /\ now \in Nat
      /\ CampaignEnd(t) \in Nat /\ now <= Horizon /\ nextDue[t] \in Nat
      /\ Seen(t) \subseteq Nat /\ Grid(t) \subseteq Nat
  BY <1>1, TimeTypes DEF BatchIsAhead, TypeOK
<1>3. CASE trial[t] \in ActiveStates /\ nextDue[t] # NoDue
  <2>1. nextDue[t] \in Open(t) /\ \A g \in Open(t) : nextDue[t] <= g
    BY <1>1, <1>3 DEF OnGrid
  <2>2. /\ nextDue[t] \in Grid(t) /\ nextDue[t] > startTs[t]
        /\ (nextDue[t] - startTs[t]) % Every = 0
    BY <2>1 DEF Open, Grid
  <2>3. DueTimes(t) = {ts \in nextDue[t]..now : ts < CampaignEnd(t) /\ (ts - nextDue[t]) % Every = 0}
    BY <1>3 DEF DueTimes
  <2>4. ASSUME NEW d \in DueTimes(t) PROVE d \in Grid(t) /\ d <= now /\ d >= nextDue[t]
    <3>1. d \in nextDue[t]..now /\ d < CampaignEnd(t) /\ (d - nextDue[t]) % Every = 0
      BY <2>3
    <3>2. d \in Int /\ nextDue[t] \in Int /\ startTs[t] \in Int
      BY <1>2, <3>1
    <3>3. (d - startTs[t]) % Every = 0
      BY <1>2, <2>2, <3>1, <3>2, ModChain
    <3> QED
      BY <1>2, <2>2, <3>1, <3>3 DEF Grid
  <2>5. ASSUME NEW g \in Open(t), g <= now PROVE g \in DueTimes(t)
    <3>1. g \in Nat /\ g >= nextDue[t] /\ g < CampaignEnd(t) /\ (g - startTs[t]) % Every = 0
      BY <1>2, <2>1, <2>5 DEF Open, Grid
    <3>2. g \in Int /\ nextDue[t] \in Int /\ startTs[t] \in Int
      BY <1>2, <3>1
    <3>3. (g - nextDue[t]) % Every = 0
      BY <1>2, <2>2, <3>1, <3>2, ModChain
    <3> QED
      BY <1>2, <2>3, <2>5, <3>1, <3>3
  <2>6. \A s \in Seen(t) : s < nextDue[t]
    BY <1>1, <2>1 DEF OnGrid
  <2>7. \A s \in Seen(t), d \in DueTimes(t) : s < d
    <3> SUFFICES ASSUME NEW s \in Seen(t), NEW d \in DueTimes(t) PROVE s < d
      OBVIOUS
    <3>1. s < nextDue[t] /\ nextDue[t] <= d /\ d \in Nat /\ s \in Nat
      BY <1>2, <2>4, <2>6
    <3> QED
      BY <1>2, <3>1
  <2> QED
    BY <2>4, <2>5, <2>7
<1>4. CASE ~(trial[t] \in ActiveStates /\ nextDue[t] # NoDue)
  <2>1. DueTimes(t) = {}
    BY <1>4 DEF DueTimes
  <2>2. trial[t] \in ActiveStates => Open(t) = {}
    <3>1. \A g \in Open(t) : g # NoDue
      BY <1>2 DEF Open, Grid, NoDue
    <3> QED
      BY <1>1, <1>4, <3>1 DEF OnGrid
  <2> QED
    BY <2>1, <2>2
<1> QED
  BY <1>3, <1>4

\* The entry that the catch-up loop leaves is the first point of the grid past now.
LEMMA DueAfterFacts ==
  ASSUME GridInv, NEW t \in Trials, batch = {}, trial[t] \in ActiveStates
  PROVE  LET later == {g \in Grid(t) : g > now /\ g \in Open(t)}
         IN  IF later = {} THEN DueAfter(t) = NoDue
             ELSE DueAfter(t) \in later /\ \A g \in later : DueAfter(t) <= g
<1> DEFINE later == {g \in Grid(t) : g > now /\ g \in Open(t)}
<1>1. TypeOK /\ BatchIsAhead /\ OnGrid(t)
  BY DEF GridInv, RowInv, GridNeverSkips
<1>2. /\ Every \in Nat \ {0} /\ startTs[t] \in Nat /\ Horizon \in Nat /\ now \in Nat
      /\ CampaignEnd(t) \in Nat /\ CampaignEnd(t) <= Horizon
      /\ nextDue[t] \in Nat /\ Seen(t) \subseteq Nat /\ Grid(t) \subseteq Nat
  BY <1>1, TimeTypes DEF BatchIsAhead, TypeOK, Horizon
<1>3. CASE nextDue[t] = NoDue
  <2>1. Open(t) = {}
    BY <1>1, <1>2, <1>3 DEF OnGrid, Open, Grid, NoDue
  <2>2. DueAfter(t) = NoDue
    BY <1>3 DEF DueAfter
  <2> QED
    BY <2>1, <2>2
<1>4. CASE nextDue[t] # NoDue
  <2>1. nextDue[t] \in Open(t) /\ \A g \in Open(t) : nextDue[t] <= g
    BY <1>1, <1>4 DEF OnGrid
  <2>2. /\ nextDue[t] \in Grid(t) /\ nextDue[t] > startTs[t] /\ nextDue[t] < CampaignEnd(t)
        /\ (nextDue[t] - startTs[t]) % Every = 0
    BY <2>1 DEF Open, Grid
  <2>3. CASE nextDue[t] > now
    <3>1. DueAfter(t) = nextDue[t]
      BY <1>4, <2>2, <2>3 DEF DueAfter
    <3> QED
      BY <2>1, <2>2, <2>3, <3>1
  <2>4. CASE ~(nextDue[t] > now)
    <3> DEFINE s == ((now - nextDue[t]) \div Every + 1) * Every
               next == nextDue[t] + s
    <3>1. s \in Int /\ s % Every = 0 /\ now < next /\ next <= now + Every
      <4>1. nextDue[t] \in Int /\ now \in Int /\ nextDue[t] <= now
        BY <1>2, <2>4
      <4> QED
        BY <1>2, <4>1, CatchUp
    <3>2. DueAfter(t) = IF next < CampaignEnd(t) THEN next ELSE NoDue
      BY <1>4, <2>4 DEF DueAfter
    <3>3. (next - startTs[t]) % Every = 0 /\ next \in Int
      <4> HIDE DEF s
      <4>1. (s + (nextDue[t] - startTs[t])) % Every = 0
        BY <1>2, <2>2, <3>1, ModSum
      <4>2. s + (nextDue[t] - startTs[t]) = next - startTs[t]
        BY <1>2, <3>1
      <4> QED
        BY <1>2, <3>1, <4>1, <4>2
    <3> HIDE DEF s, next
    <3>4. ASSUME NEW g \in later PROVE next <= g
      <4>1. g \in Nat /\ g > now /\ (g - startTs[t]) % Every = 0
        BY <1>2 DEF Grid
      <4>2. CASE g >= next
        BY <1>2, <3>3, <4>1, <4>2
      <4>3. CASE ~(g >= next)
        <5>1. next - g \in Int /\ next - g > 0 /\ next - g < Every
          BY <1>2, <3>1, <3>3, <4>1, <4>3
        <5>2. g \in Int /\ startTs[t] \in Int
          BY <1>2, <4>1
        <5>3. (next - g) % Every = 0
          BY <1>2, <3>3, <4>1, <5>2, ModChain
        <5>4. next - g >= Every
          BY <1>2, <5>1, <5>3, ModSmall
        <5> QED
          BY <1>2, <5>1, <5>4
      <4> QED
        BY <4>2, <4>3
    <3>5. CASE next < CampaignEnd(t)
      <4>1. next \in Grid(t)
        BY <1>2, <2>2, <2>4, <3>1, <3>3, <3>5 DEF Grid
      <4>2. next \notin Seen(t)
        <5>1. \A x \in Seen(t) : x < nextDue[t]
          BY <1>1, <2>1 DEF OnGrid
        <5> QED
          BY <1>2, <2>4, <3>1, <3>3, <5>1
      <4> QED
        BY <3>1, <3>2, <3>4, <3>5, <4>1, <4>2 DEF Open
    <3>6. CASE ~(next < CampaignEnd(t))
      <4>1. later = {}
        BY <1>2, <3>3, <3>4, <3>6 DEF Grid
      <4> QED
        BY <3>2, <3>6, <4>1
    <3> QED
      BY <3>5, <3>6
  <2> QED
    BY <2>3, <2>4
<1> QED
  BY <1>3, <1>4

LEMMA CollectGrid ==
  ASSUME GridInv, SchedCollectDue
  PROVE  BatchIsAhead' /\ GridNeverSkips'
<1>1. TypeOK /\ BatchIsAhead /\ GridNeverSkips
  BY DEF GridInv, RowInv
<1>2. /\ batch = {} /\ nextDue' = [t \in Trials |-> DueAfter(t)] /\ sched' = "emit"
      /\ batch' = {[ts |-> ts, trials |-> {t \in Trials : ts \in DueTimes(t)}] :
                     ts \in UNION {DueTimes(t) : t \in Trials}}
      /\ UNCHANGED <<now, trial, startTs, ticks, main, finalTick>>
  BY <1>1 DEF SchedCollectDue, BatchIsAhead, tickVars, mainVars
<1>3. ASSUME NEW t \in Trials
      PROVE  /\ TickTimes(t)' = Seen(t) /\ BatchTimes(t)' = DueTimes(t)
             /\ Seen(t)' = Seen(t) \cup DueTimes(t) /\ Grid(t)' = Grid(t)
  <2>1. BatchTimes(t) = {}
    BY <1>2 DEF BatchTimes
  <2>2. TickTimes(t)' = TickTimes(t) /\ Grid(t)' = Grid(t)
    BY <1>2 DEF TickTimes, Periodic, TickIdx, Grid, CampaignEnd
  <2>3. BatchTimes(t)' = DueTimes(t)
    <3>1. BatchTimes(t)' = {d.ts : d \in {b \in batch' : t \in b.trials}}
      BY DEF BatchTimes
    <3>2. \A b \in batch' : t \in b.trials => b.ts \in DueTimes(t)
      BY <1>2
    <3>3. ASSUME NEW ts \in DueTimes(t) PROVE \E b \in batch' : t \in b.trials /\ b.ts = ts
      <4>1. [ts |-> ts, trials |-> {u \in Trials : ts \in DueTimes(u)}] \in batch'
        BY <1>2, <3>3
      <4> QED
        BY <3>3, <4>1
    <3> QED
      BY <3>1, <3>2, <3>3
  <2> QED
    BY <2>1, <2>2, <2>3 DEF Seen
<1>4. \A t \in Trials : trial[t] \in {"queued", "starting"} => DueTimes(t) = {}
  BY DEF DueTimes, ActiveStates
<1>5. BatchIsAhead'
  <2>1. \A t \in Trials : trial'[t] \in {"queued", "starting"} => Seen(t)' = {}
    BY <1>1, <1>2, <1>3, <1>4 DEF BatchIsAhead
  <2>2. \A t \in Trials : \A s \in TickTimes(t)', b \in BatchTimes(t)' : s < b
    BY <1>2, <1>3, DueTimesFacts
  <2>3. \A a, b \in batch' : a.ts = b.ts => a = b
    BY <1>2
  <2> QED
    BY <1>1, <1>2, <2>1, <2>2, <2>3 DEF BatchIsAhead, Horizon
<1>6. ASSUME NEW t \in Trials PROVE OnGrid(t)'
  <2>1. OnGrid(t) /\ now \in Nat /\ Seen(t) \subseteq Nat /\ Grid(t) \subseteq Nat
    BY <1>1, TimeTypes DEF GridNeverSkips, TypeOK
  <2>2. /\ DueTimes(t) \subseteq Grid(t) /\ \A d \in DueTimes(t) : d <= now
        /\ trial[t] \in ActiveStates => \A g \in Open(t) : g <= now => g \in DueTimes(t)
    BY <1>2, DueTimesFacts
  <2>3. Seen(t)' \subseteq Grid(t)'
    BY <1>3, <2>1, <2>2 DEF OnGrid
  <2>4. Open(t)' = Open(t) \ DueTimes(t)
    BY <1>3 DEF Open
  <2>5. \A s \in Seen(t)', g \in Open(t)' : s < g
    <3>1. CASE trial[t] \in ActiveStates
      <4> SUFFICES ASSUME NEW s \in Seen(t)', NEW g \in Open(t)' PROVE s < g
        OBVIOUS
      <4>1. g \in Open(t) /\ g \in Nat /\ g > now
        BY <2>1, <2>2, <2>4, <3>1 DEF Open
      <4>2. CASE s \in Seen(t)
        BY <2>1, <4>1, <4>2 DEF OnGrid
      <4>3. CASE s \in DueTimes(t)
        BY <2>1, <2>2, <4>1, <4>3
      <4> QED
        BY <1>3, <4>2, <4>3
    <3>2. CASE trial[t] \notin ActiveStates
      <4>1. DueTimes(t) = {}
        BY <3>2 DEF DueTimes
      <4> QED
        BY <1>3, <2>1, <2>4, <4>1 DEF OnGrid
    <3> QED
      BY <3>1, <3>2
  <2>6. ASSUME trial'[t] \in ActiveStates
        PROVE  IF Open(t)' = {} THEN nextDue'[t] = NoDue
               ELSE nextDue'[t] \in Open(t)' /\ \A g \in Open(t)' : nextDue'[t] <= g
    <3>1. trial[t] \in ActiveStates /\ nextDue'[t] = DueAfter(t)
      BY <1>2, <2>6
    <3>2. Open(t)' = {g \in Grid(t) : g > now /\ g \in Open(t)}
      BY <2>1, <2>2, <2>4, <3>1 DEF Open
    <3> QED
      BY <1>2, <3>1, <3>2, DueAfterFacts
  <2> QED
    BY <2>3, <2>5, <2>6 DEF OnGrid
<1> QED
  BY <1>5, <1>6 DEF GridNeverSkips

\* The rows after an insertion: the new row has the highest index.
LEMMA NewRow ==
  ASSUME TypeOK, NEW ts \in Nat, NEW trials \in SUBSET Trials, InsertTick(ts, trials)
  PROVE  /\ TickIdx' = TickIdx \cup {Len(ticks) + 1} /\ TickIdx \subseteq 1..Len(ticks)
         /\ Len(ticks) \in Nat
         /\ ticks'[Len(ticks) + 1] = [ts |-> ts, trials |-> trials]
         /\ \A i \in TickIdx : ticks'[i] = ticks[i] /\ status'[i] = status[i]
         /\ status'[Len(ticks) + 1] = "pending" /\ queue' = queue
<1>1. [ts |-> ts, trials |-> trials] \in Due
  BY DEF Due
<1>2. /\ ticks'[Len(ticks) + 1] = [ts |-> ts, trials |-> trials]
      /\ \A i \in 1..Len(ticks) : ticks'[i] = ticks[i]
  BY <1>1, AppendProperties DEF InsertTick, TypeOK
<1> QED
  BY <1>2, InsertFacts, TickIdxType DEF TickIdx

\* What SchedInsert takes from the batch is older than what it leaves.
LEMMA InsertedRow ==
  ASSUME GridInv, SchedInsert
  PROVE  \E due \in batch :
           /\ InsertTick(due.ts, due.trials) /\ batch' = batch \ {due}
           /\ \A other \in batch \ {due} : due.ts < other.ts
           /\ Periodic' = Periodic \cup {Len(ticks) + 1} /\ Len(ticks) + 1 \notin Periodic
           /\ \A t \in Trials :
                /\ TickTimes(t)' = TickTimes(t) \cup (IF t \in due.trials THEN {due.ts} ELSE {})
                /\ Seen(t)' = Seen(t)
<1>1. TypeOK /\ BatchIsAhead
  BY DEF GridInv, RowInv
<1>2. PICK due \in batch :
        /\ \A other \in batch : due.ts <= other.ts
        /\ InsertTick(due.ts, due.trials)
        /\ batch' = batch \ {due}
  BY DEF SchedInsert
<1>3. /\ due.ts \in Nat /\ due.trials \in SUBSET Trials
      /\ \A other \in batch : other.ts \in Nat
  BY <1>1, TimeTypes
<1>4. \A other \in batch \ {due} : due.ts < other.ts
  BY <1>1, <1>2, <1>3 DEF BatchIsAhead
<1>5. /\ TickIdx' = TickIdx \cup {Len(ticks) + 1} /\ Len(ticks) + 1 \notin TickIdx
      /\ Len(ticks) + 1 # None
      /\ ticks'[Len(ticks) + 1] = [ts |-> due.ts, trials |-> due.trials]
      /\ \A i \in TickIdx : ticks'[i] = ticks[i]
  BY <1>1, <1>2, <1>3, NewRow, TickIdxType
<1>6. finalTick' = finalTick /\ finalTick # Len(ticks) + 1
  BY <1>1, <1>5 DEF SchedInsert, SchedFrame, mainVars, TypeOK
<1>7. Periodic' = Periodic \cup {Len(ticks) + 1} /\ Len(ticks) + 1 \notin Periodic
  BY <1>5, <1>6 DEF Periodic
<1>8. ASSUME NEW t \in Trials
      PROVE  /\ TickTimes(t)' = TickTimes(t) \cup (IF t \in due.trials THEN {due.ts} ELSE {})
             /\ Seen(t)' = Seen(t)
  <2>1. TickTimes(t)' = {ticks'[i].ts : i \in {j \in Periodic' : t \in ticks'[j].trials}}
    BY DEF TickTimes
  <2>2. \A i \in Periodic : ticks'[i] = ticks[i]
    BY <1>5 DEF Periodic
  <2>3. {j \in Periodic' : t \in ticks'[j].trials} =
          {j \in Periodic : t \in ticks[j].trials} \cup
            (IF t \in due.trials THEN {Len(ticks) + 1} ELSE {})
    BY <1>5, <1>7, <2>2
  <2>4. TickTimes(t)' = TickTimes(t) \cup (IF t \in due.trials THEN {due.ts} ELSE {})
    BY <1>5, <2>1, <2>2, <2>3 DEF TickTimes
  <2>5. BatchTimes(t)' \cup (IF t \in due.trials THEN {due.ts} ELSE {}) = BatchTimes(t)
    BY <1>2 DEF BatchTimes
  <2> QED
    BY <2>4, <2>5 DEF Seen
<1> QED
  BY <1>2, <1>4, <1>7, <1>8

LEMMA InsertGrid ==
  ASSUME GridInv, SchedInsert
  PROVE  BatchIsAhead' /\ GridNeverSkips'
<1>1. TypeOK /\ BatchIsAhead /\ GridNeverSkips
  BY DEF GridInv, RowInv
<1>2. PICK due \in batch :
        /\ batch' = batch \ {due}
        /\ \A other \in batch \ {due} : due.ts < other.ts
        /\ \A t \in Trials :
             /\ TickTimes(t)' = TickTimes(t) \cup (IF t \in due.trials THEN {due.ts} ELSE {})
             /\ Seen(t)' = Seen(t)
  BY InsertedRow
<1>3. /\ sched' = "telemetry"
      /\ UNCHANGED <<now, trial, startTs, nextDue, main, finalTick>>
  BY DEF SchedInsert, SchedFrame, trialVars, mainVars
<1>4. \A t \in Trials : \A s \in TickTimes(t)', b \in BatchTimes(t)' : s < b
  <2> SUFFICES ASSUME NEW t \in Trials, NEW s \in TickTimes(t)',
                      NEW d \in batch', t \in d.trials
               PROVE  s < d.ts
    BY DEF BatchTimes
  <2>1. d \in batch \ {due} /\ d.ts \in BatchTimes(t)
    BY <1>2 DEF BatchTimes
  <2>2. CASE s \in TickTimes(t)
    BY <1>1, <2>1, <2>2 DEF BatchIsAhead
  <2>3. CASE s = due.ts
    BY <1>2, <2>1, <2>3
  <2> QED
    BY <1>2, <2>2, <2>3
<1>5. BatchIsAhead'
  BY <1>1, <1>2, <1>3, <1>4 DEF BatchIsAhead, Horizon
<1>6. GridNeverSkips'
  BY <1>1, <1>2, <1>3, SameGrid DEF GridNeverSkips
<1> QED
  BY <1>5, <1>6

LEMMA SchedGrid ==
  ASSUME GridInv,
         \/ SchedEnqueue \/ SchedNext \/ SchedFatal \/ SchedSentinel \/ SchedJoin \/ SchedDrain
         \/ SchedFail \/ SchedDrainFail
  PROVE  BatchIsAhead' /\ GridNeverSkips'
<1>1. /\ UNCHANGED <<now, trial, startTs, nextDue, batch, ticks, main, finalTick>>
      /\ sched' = "loop" => batch = {}
  BY DEF SchedEnqueue, SchedNext, SchedFatal, SchedSentinel, SchedJoin, SchedDrain, SchedFail,
         SchedDrainFail, SchedFrame, Enqueue, AbortPending, AbortPendingReturns,
         trialVars, tickVars, mainVars
<1>2. main' \in {"wait", "check"} => finalTick' = None
  BY <1>1 DEF GridInv, BatchIsAhead
<1> QED
  BY <1>1, <1>2, SameRows, KeptGrid

-----------------------------------------------------------------------------
(* The steps of the worker and of the main thread.                          *)

LEMMA WorkerGrid ==
  ASSUME GridInv, WorkerStep \/ WorkerDies \/ WorkerDrainFail \/ UNCHANGED vars
  PROVE  BatchIsAhead' /\ GridNeverSkips'
<1>1. UNCHANGED <<now, trial, startTs, nextDue, batch, sched, ticks, main, finalTick>>
  BY DEF WorkerStep, WorkerDies, WorkerDrainFail, WorkerGet, WorkerComplete, WorkerError,
         WorkerCheckStop, WorkerFatal, WorkerDrain, WorkerFrame, AbortPending,
         AbortPendingReturns, trialVars, tickVars, schedVars, mainVars, vars
<1>2. /\ main' \in {"wait", "check"} => finalTick' = None
      /\ sched' = "loop" => batch = {}
  BY <1>1 DEF GridInv, BatchIsAhead
<1> QED
  BY <1>1, <1>2, SameRows, KeptGrid

LEMMA MainGrid ==
  ASSUME GridInv, MainStep \/ Signal
  PROVE  BatchIsAhead' /\ GridNeverSkips'
<1>1. TypeOK /\ BatchIsAhead
  BY DEF GridInv, RowInv
<1>2. /\ UNCHANGED <<now, startTs, nextDue, batch, sched>>
      /\ trial' = trial \/ CancelQueued
      /\ (ticks' = ticks /\ finalTick' = finalTick) \/ MainFinalTick
      /\ main' \in {"wait", "check"} => main \in {"wait", "check"} /\ finalTick' = finalTick
  BY DEF MainStep, Signal, MainTrialsDone, MainTrialFailed, MainFinalTick, MainCheckRaises,
         MainPutFinal, MainStop, MainJoin, MainFlags, MainSweep, MainShutdownPool,
         MainJoinInterrupted, MainExit, SignalSweep, MainGoto, MainFrame, Enqueue,
         trialVars, tickVars, schedVars
<1>3. \A t \in Trials :
        /\ trial'[t] \in ActiveStates => trial[t] \in ActiveStates /\ nextDue'[t] = nextDue[t]
        /\ trial'[t] \in {"queued", "starting"} => trial'[t] = trial[t]
  BY <1>2 DEF CancelQueued, ActiveStates
<1>4. \A t \in Trials : TickTimes(t)' = TickTimes(t) /\ BatchTimes(t)' = BatchTimes(t)
  <2>1. CASE ticks' = ticks /\ finalTick' = finalTick
    BY <1>2, <2>1, SameRows
  <2>2. CASE MainFinalTick
    <3>1. main = "check" /\ finalTick' = Len(ticks) + 1 /\ InsertTick(now, CampaignTrials)
      BY <2>2 DEF MainFinalTick
    <3>2. now \in Nat /\ CampaignTrials \in SUBSET Trials
      BY <1>1 DEF TypeOK, CampaignTrials
    <3>3. /\ TickIdx' = TickIdx \cup {Len(ticks) + 1}
          /\ \A i \in TickIdx : ticks'[i] = ticks[i]
          /\ Len(ticks) + 1 \notin TickIdx /\ None \notin TickIdx
      BY <1>1, <3>1, <3>2, NewRow, TickIdxType
    <3>4. finalTick = None
      BY <1>1, <3>1 DEF BatchIsAhead
    <3>5. Periodic' = Periodic /\ Periodic = TickIdx
      BY <3>1, <3>3, <3>4 DEF Periodic
    <3> QED
      BY <1>2, <3>3, <3>5 DEF TickTimes, BatchTimes
  <2> QED
    BY <1>2, <2>1, <2>2
<1>5. main' \in {"wait", "check"} => finalTick' = None
  BY <1>1, <1>2 DEF BatchIsAhead
<1>6. sched' = "loop" => batch = {}
  BY <1>1, <1>2 DEF BatchIsAhead
<1> QED
  BY <1>2, <1>3, <1>4, <1>5, <1>6, KeptGrid

LEMMA GridInit == Init => GridInv
<1> SUFFICES ASSUME Init PROVE GridInv
  OBVIOUS
<1>1. TickIdx = {} /\ batch = {} /\ LastStart \in Nat /\ Horizon \in Nat
  BY EmptySeq, PipelineAssumption DEF Init, TickIdx, Horizon
<1>2. \A t \in Trials : TickTimes(t) = {} /\ BatchTimes(t) = {} /\ Seen(t) = {}
  BY <1>1 DEF TickTimes, BatchTimes, Seen, Periodic
<1>3. BatchIsAhead
  BY <1>1, <1>2 DEF Init, BatchIsAhead
<1>4. GridNeverSkips
  BY <1>2 DEF Init, GridNeverSkips, OnGrid, ActiveStates
<1> QED
  BY <1>3, <1>4, InitInv DEF GridInv

LEMMA GridNext == GridInv /\ [Next]_vars => GridInv'
<1> SUFFICES ASSUME GridInv, [Next]_vars PROVE GridInv'
  OBVIOUS
<1>1. RowInv'
  BY NextInv DEF GridInv
<1>2. BatchIsAhead' /\ GridNeverSkips'
  <2>1. ASSUME Tick PROVE BatchIsAhead' /\ GridNeverSkips'
    BY <2>1, TickGrid
  <2>2. ASSUME NEW t \in Trials, TrialStep(t) \/ TrialCrash(t)
        PROVE  BatchIsAhead' /\ GridNeverSkips'
    BY <2>2, BeginGrid, RegisterGrid, LeaveGrid DEF TrialStep
  <2>3. ASSUME SchedStep \/ SchedFail \/ SchedDrainFail PROVE BatchIsAhead' /\ GridNeverSkips'
    BY <2>3, CollectGrid, InsertGrid, SchedGrid DEF SchedStep
  <2>4. ASSUME WorkerStep \/ WorkerDies \/ WorkerDrainFail \/ UNCHANGED vars
        PROVE  BatchIsAhead' /\ GridNeverSkips'
    BY <2>4, WorkerGrid
  <2>5. ASSUME MainStep \/ Signal PROVE BatchIsAhead' /\ GridNeverSkips'
    BY <2>5, MainGrid
  <2> QED
    BY <2>1, <2>2, <2>3, <2>4, <2>5 DEF Next, Disturbance, Terminating
<1> QED
  BY <1>1, <1>2 DEF GridInv

\* The inductive invariant of the due times (_next_periodic_ts) and of the batch that the
\* scheduler thread still has to insert.
THEOREM GridInvHolds == Spec => []GridInv
  BY GridInit, GridNext, PTL DEF Spec

\* However late the scheduler thread wakes up, each trial's periodic rows are exactly its
\* grid points so far, for every cadence and campaign (run_loop's catch-up loop).
THEOREM NoGridPointSkipped == Spec => []GridNeverSkips
<1>1. GridInv => GridNeverSkips
  BY DEF GridInv
<1> QED
  BY <1>1, GridInvHolds, PTL

-----------------------------------------------------------------------------
(* Rows are measured oldest first.                                          *)

LEMMA KeptOrder ==
  ASSUME OldestFirst, RowsInTime, UNCHANGED <<ticks, finalTick, status, queue, cur, emitting>>,
         worker' \in {"get", "measure", "recorded"} => worker \in {"get", "measure", "recorded"},
         sched' \in {"loop", "emit"} => sched \in {"loop", "emit"}
  PROVE  OldestFirst' /\ RowsInTime'
<1>1. Periodic' = Periodic /\ Queued' = Queued
  BY DEF Periodic, TickIdx, Queued
<1>2. OldestFirst'
  BY <1>1 DEF OldestFirst
<1> QED
  BY <1>1, <1>2 DEF RowsInTime

LEMMA KeptTime ==
  ASSUME RowsInTime, UNCHANGED <<ticks, finalTick>>
  PROVE  Periodic' = Periodic /\ RowsInTime'
<1>1. Periodic' = Periodic
  BY DEF Periodic, TickIdx
<1> QED
  BY <1>1 DEF RowsInTime

LEMMA QuietOrder ==
  ASSUME OrderInv,
         \/ Tick \/ (\E t \in Trials : TrialStep(t) \/ TrialCrash(t)) \/ UNCHANGED vars
         \/ SchedCollectDue \/ SchedNext \/ SchedFatal \/ SchedJoin \/ SchedFail
         \/ WorkerCheckStop \/ WorkerFatal
  PROVE  OldestFirst' /\ RowsInTime'
<1>1. UNCHANGED <<ticks, finalTick, status, queue, cur, emitting>>
  BY DEF Tick, TrialStep, TrialBegin, TrialRegister, TrialLaunch, TrialRefused, TrialEnd,
     TrialCrash, Unregister, TrialFrame, SchedCollectDue, SchedNext, SchedFatal, SchedJoin,
     SchedFail, WorkerCheckStop, WorkerFatal, SchedFrame, WorkerFrame, tickVars, schedVars,
     workerVars, mainVars, vars
<1>2. /\ worker' \in {"get", "measure", "recorded"} => worker \in {"get", "measure", "recorded"}
      /\ sched' \in {"loop", "emit"} => sched \in {"loop", "emit"}
  BY DEF Tick, TrialStep, TrialBegin, TrialRegister, TrialLaunch, TrialRefused, TrialEnd,
     TrialCrash, Unregister, TrialFrame, SchedCollectDue, SchedNext, SchedFatal, SchedJoin,
     SchedFail, WorkerCheckStop, WorkerFatal, SchedFrame, WorkerFrame, schedVars, workerVars, vars
<1> QED
  BY <1>1, <1>2, KeptOrder DEF OrderInv

LEMMA MainOrder ==
  ASSUME OrderInv, (MainStep /\ ~MainFinalTick /\ ~MainPutFinal) \/ Signal
  PROVE  OldestFirst' /\ RowsInTime'
<1>1. UNCHANGED <<ticks, finalTick, status, queue, cur, emitting, worker, sched>>
  BY DEF MainStep, Signal, MainTrialsDone, MainTrialFailed, MainCheckRaises, MainStop, MainJoin,
         MainFlags, MainSweep, MainShutdownPool, MainJoinInterrupted, MainExit, SignalSweep,
         MainGoto, MainFrame, tickVars, schedVars, workerVars
<1> QED
  BY <1>1, KeptOrder DEF OrderInv

\* The final tick is no periodic row.
LEMMA FinalTickOrder ==
  ASSUME OrderInv, MainFinalTick
  PROVE  OldestFirst' /\ RowsInTime'
<1>1. TypeOK /\ BatchIsAhead /\ OldestFirst /\ RowsInTime
  BY DEF OrderInv, GridInv, RowInv
<1>2. /\ main = "check" /\ finalTick' = Len(ticks) + 1 /\ InsertTick(now, CampaignTrials)
      /\ UNCHANGED <<cur, emitting, worker, sched>>
  BY DEF MainFinalTick, MainFrame, schedVars, workerVars
<1>3. now \in Nat /\ CampaignTrials \in SUBSET Trials
  BY <1>1 DEF TypeOK, CampaignTrials
<1>4. /\ TickIdx' = TickIdx \cup {Len(ticks) + 1} /\ queue' = queue
      /\ \A i \in TickIdx : ticks'[i] = ticks[i] /\ status'[i] = status[i]
      /\ Len(ticks) + 1 \notin TickIdx /\ None \notin TickIdx
  BY <1>1, <1>2, <1>3, NewRow, TickIdxType
<1>5. finalTick = None
  BY <1>1, <1>2 DEF BatchIsAhead
<1>6. Periodic' = Periodic /\ Periodic = TickIdx /\ Queued' = Queued
  BY <1>2, <1>4, <1>5 DEF Periodic, Queued
<1>7. OldestFirst'
  BY <1>1, <1>2, <1>4, <1>6 DEF OldestFirst
<1> QED
  BY <1>1, <1>4, <1>6, <1>7 DEF RowsInTime

\* A new periodic row is the newest, by index and, in its trials, by time.
LEMMA InsertOrder ==
  ASSUME OrderInv, SchedInsert
  PROVE  OldestFirst' /\ RowsInTime'
<1>1. TypeOK /\ BatchIsAhead /\ GridInv /\ OldestFirst /\ RowsInTime
  BY DEF OrderInv, GridInv, RowInv
<1>2. PICK due \in batch :
        /\ InsertTick(due.ts, due.trials)
        /\ Periodic' = Periodic \cup {Len(ticks) + 1} /\ Len(ticks) + 1 \notin Periodic
  BY <1>1, InsertedRow
<1>3. due.ts \in Nat /\ due.trials \in SUBSET Trials
  BY <1>1, TimeTypes
<1>4. /\ Len(ticks) \in Nat /\ TickIdx \subseteq 1..Len(ticks) /\ Periodic \subseteq TickIdx
      /\ ticks'[Len(ticks) + 1] = [ts |-> due.ts, trials |-> due.trials]
      /\ \A i \in TickIdx : ticks'[i] = ticks[i] /\ status'[i] = status[i]
      /\ status'[Len(ticks) + 1] = "pending" /\ queue' = queue /\ Queued' = Queued
  BY <1>1, <1>2, <1>3, NewRow DEF Periodic, Queued
<1>5. /\ sched = "emit" /\ sched' = "telemetry" /\ emitting' = Len(ticks) + 1
      /\ UNCHANGED <<cur, worker, finalTick>>
  BY DEF SchedInsert, SchedFrame, workerVars, mainVars
<1>6. emitting = None
  BY <1>1, <1>5 DEF OldestFirst
<1>7. Len(ticks) + 1 \notin Queued \cup {cur} /\ None \notin Periodic
  BY <1>1, <1>4, TickIdxType DEF TypeOK, Queued
<1>8. \A k \in DOMAIN queue : queue[k] \in Queued
  BY DEF Queued
<1>9. OldestFirst'
  <2>1. worker' \in {"get", "measure", "recorded"} =>
          \A i \in Periodic' : status'[i] = "pending" => i \in (Queued \cup {cur, emitting})'
    BY <1>1, <1>2, <1>4, <1>5, <1>6, <1>7 DEF OldestFirst
  <2>2. \A k, l \in DOMAIN queue' :
          k < l /\ queue'[k] \in Periodic' /\ queue'[l] \in Periodic' => queue'[k] < queue'[l]
    BY <1>1, <1>2, <1>4, <1>7, <1>8 DEF OldestFirst
  <2>3. cur' \in Periodic' => \A i \in Queued' \cap Periodic' : cur' < i
    BY <1>1, <1>2, <1>4, <1>5, <1>7 DEF OldestFirst
  <2>4. \A i \in Periodic' : i <= emitting'
    BY <1>2, <1>4, <1>5
  <2>5. \A i, j \in Periodic' : i < j /\ status'[j] = "completed" => status'[i] # "pending"
    <3> SUFFICES ASSUME NEW i \in Periodic', NEW j \in Periodic', i < j, status'[j] = "completed"
                 PROVE  status'[i] # "pending"
      OBVIOUS
    <3>1. j \in Periodic
      BY <1>2, <1>4
    <3>2. i \in Periodic
      BY <1>2, <1>4, <3>1
    <3> QED
      BY <1>1, <1>4, <3>1, <3>2 DEF OldestFirst
  <2> QED
    BY <1>5, <2>1, <2>2, <2>3, <2>4, <2>5 DEF OldestFirst
<1>10. RowsInTime'
  <2> SUFFICES ASSUME NEW i \in Periodic', NEW j \in Periodic', i < j,
                      ticks'[i].trials \cap ticks'[j].trials # {}
               PROVE  ticks'[i].ts < ticks'[j].ts
    BY DEF RowsInTime
  <2>1. CASE i \in Periodic /\ j \in Periodic
    BY <1>1, <1>4, <2>1 DEF RowsInTime
  <2>2. CASE i \in Periodic /\ j = Len(ticks) + 1
    <3>1. PICK t \in due.trials : t \in ticks[i].trials
      BY <1>4, <2>2
    <3>2. t \in Trials /\ ticks[i].ts \in TickTimes(t) /\ due.ts \in BatchTimes(t)
      BY <1>3, <2>2, <3>1 DEF TickTimes, BatchTimes
    <3> QED
      BY <1>1, <1>4, <2>2, <3>2 DEF BatchIsAhead
  <2>3. CASE i = Len(ticks) + 1
    BY <1>2, <1>4, <2>3
  <2> QED
    BY <1>2, <2>1, <2>2, <2>3
<1> QED
  BY <1>9, <1>10

\* What is put on the queue is the newest periodic row, or not a periodic row.
LEMMA PutOrder ==
  ASSUME OrderInv, SchedEnqueue \/ SchedSentinel \/ MainPutFinal
  PROVE  OldestFirst' /\ RowsInTime'
<1>1. TypeOK /\ RowsAreHeldOnce /\ BatchIsAhead /\ OldestFirst /\ RowsInTime
  BY DEF OrderInv, GridInv, RowInv
<1>2. PICK item \in TickIdx \cup {None} :
        /\ Enqueue(item)
        /\ \/ SchedEnqueue /\ item = emitting
           \/ SchedSentinel /\ item = None
           \/ MainPutFinal /\ item = finalTick
  BY <1>1 DEF SchedEnqueue, SchedSentinel, MainPutFinal, TypeOK
<1>3. /\ ticks' = ticks /\ status' = status /\ Queued' = Queued \cup {item}
      /\ Len(queue) \in Nat /\ DOMAIN queue = 1..Len(queue) /\ DOMAIN queue' = 1..Len(queue) + 1
      /\ \A k \in DOMAIN queue : queue'[k] = queue[k] /\ queue[k] \in Queued
      /\ queue'[Len(queue) + 1] = item
      /\ TickIdx \subseteq Nat \ {None}
  BY <1>1, <1>2, EnqueueFacts, TickIdxType DEF Queued
<1>4. UNCHANGED <<worker, cur, finalTick>>
  BY DEF SchedEnqueue, SchedSentinel, MainPutFinal, SchedFrame, MainFrame, MainGoto,
         workerVars, mainVars
<1>5. Periodic' = Periodic /\ RowsInTime' /\ Periodic \subseteq TickIdx
  BY <1>1, <1>3, <1>4, KeptTime DEF Periodic
<1>6. /\ sched' \in {"loop", "emit"} => emitting' = None
      /\ emitting' \in {emitting, None} /\ (item = emitting \/ emitting' = emitting)
  BY <1>1, <1>2 DEF SchedEnqueue, SchedSentinel, MainPutFinal, MainFrame, schedVars, OldestFirst
<1>7. item \in Periodic => \A i \in Queued \cap Periodic : i < item
  <2>1. CASE item = emitting
    <3> SUFFICES ASSUME item \in Periodic, NEW i \in Queued \cap Periodic PROVE i < item
      OBVIOUS
    <3>1. emitting # None /\ emitting \in Nat /\ i \in Nat
      BY <1>3, <1>5, <2>1
    <3>2. emitting \notin Queued
      BY <1>1, <3>1 DEF RowsAreHeldOnce
    <3>3. i <= emitting
      BY <1>1, <3>1 DEF OldestFirst
    <3> QED
      BY <2>1, <3>1, <3>2, <3>3
  <2>2. CASE item = None \/ item = finalTick
    BY <1>3, <1>5, <2>2 DEF Periodic
  <2> QED
    BY <1>2, <2>1, <2>2
<1>8. item \in Periodic /\ cur \in Periodic => cur < item
  <2>1. CASE item = emitting
    <3> SUFFICES ASSUME item \in Periodic, cur \in Periodic PROVE cur < item
      OBVIOUS
    <3>1. cur # None /\ emitting # None /\ cur \in Nat /\ emitting \in Nat
      BY <1>3, <1>5, <2>1
    <3>2. cur # emitting
      BY <1>1, <3>1 DEF RowsAreHeldOnce
    <3>3. cur <= emitting
      BY <1>1, <3>1 DEF OldestFirst
    <3> QED
      BY <2>1, <3>1, <3>2, <3>3
  <2>2. CASE item = None \/ item = finalTick
    BY <1>3, <1>5, <2>2 DEF Periodic
  <2> QED
    BY <1>2, <2>1, <2>2
<1>9. \A k, l \in DOMAIN queue' :
        k < l /\ queue'[k] \in Periodic /\ queue'[l] \in Periodic => queue'[k] < queue'[l]
  <2> SUFFICES ASSUME NEW k \in DOMAIN queue', NEW l \in DOMAIN queue', k < l,
                      queue'[k] \in Periodic, queue'[l] \in Periodic
               PROVE  queue'[k] < queue'[l]
    OBVIOUS
  <2>1. k \in DOMAIN queue
    BY <1>3
  <2>2. CASE l \in DOMAIN queue
    BY <1>1, <1>3, <2>1, <2>2 DEF OldestFirst
  <2>3. CASE l = Len(queue) + 1
    BY <1>3, <1>7, <2>1, <2>3
  <2> QED
    BY <1>3, <2>2, <2>3
<1>10. worker' \in {"get", "measure", "recorded"} =>
         \A i \in Periodic' : status'[i] = "pending" => i \in (Queued \cup {cur, emitting})'
  BY <1>1, <1>3, <1>4, <1>5, <1>6 DEF OldestFirst
<1>11. cur' \in Periodic' => \A i \in Queued' \cap Periodic' : cur' < i
  BY <1>1, <1>3, <1>4, <1>5, <1>8 DEF OldestFirst
<1>12. emitting' # None => \A i \in Periodic' : i <= emitting'
  BY <1>1, <1>5, <1>6 DEF OldestFirst
<1>13. \A i, j \in Periodic' : i < j /\ status'[j] = "completed" => status'[i] # "pending"
  BY <1>1, <1>3, <1>5 DEF OldestFirst
<1>14. OldestFirst'
  BY <1>5, <1>6, <1>9, <1>10, <1>11, <1>12, <1>13 DEF OldestFirst
<1> QED
  BY <1>5, <1>14

\* The worker takes the oldest periodic row of the queue.
LEMMA GetOrder ==
  ASSUME OrderInv, WorkerGet
  PROVE  OldestFirst' /\ RowsInTime'
<1>1. TypeOK /\ RowsAreHeldOnce /\ OldestFirst /\ RowsInTime
  BY DEF OrderInv, GridInv, RowInv
<1>2. /\ queue # <<>> /\ queue' = Tail(queue) /\ worker = "get" /\ cur' = Head(queue)
      /\ UNCHANGED <<ticks, status, sched, emitting, finalTick>>
  BY DEF WorkerGet, WorkerFrame, schedVars, mainVars
<1>3. /\ 1 \in DOMAIN queue /\ Head(queue) = queue[1] /\ DOMAIN queue' \subseteq Nat \ {0}
      /\ \A k \in DOMAIN queue' : k + 1 \in DOMAIN queue /\ queue'[k] = queue[k + 1]
      /\ Queued = Queued' \cup {Head(queue)}
  BY <1>1, <1>2, TailFacts, DequeueFacts
<1>4. Periodic' = Periodic /\ RowsInTime' /\ None \notin Periodic
  BY <1>1, <1>2, KeptTime, TickIdxType DEF Periodic
<1>5. cur = None
  BY <1>1, <1>2 DEF RowsAreHeldOnce
<1>6. worker' \in {"get", "measure", "recorded"} =>
        \A i \in Periodic' : status'[i] = "pending" => i \in (Queued \cup {cur, emitting})'
  BY <1>1, <1>2, <1>3, <1>4, <1>5 DEF OldestFirst
<1>7. \A k, l \in DOMAIN queue' :
        k < l /\ queue'[k] \in Periodic' /\ queue'[l] \in Periodic' => queue'[k] < queue'[l]
  BY <1>1, <1>3, <1>4 DEF OldestFirst
<1>8. cur' \in Periodic' => \A i \in Queued' \cap Periodic' : cur' < i
  <2> SUFFICES ASSUME cur' \in Periodic, NEW k \in DOMAIN queue', queue'[k] \in Periodic
               PROVE  cur' < queue'[k]
    BY <1>4 DEF Queued
  <2>1. 1 < k + 1 /\ k + 1 \in DOMAIN queue /\ queue'[k] = queue[k + 1]
    BY <1>3
  <2> QED
    BY <1>1, <1>2, <1>3, <2>1 DEF OldestFirst
<1>9. OldestFirst'
  BY <1>1, <1>2, <1>4, <1>6, <1>7, <1>8 DEF OldestFirst
<1> QED
  BY <1>4, <1>9

\* The worker records an outcome: no older periodic row is pending.
LEMMA RecordOrder ==
  ASSUME OrderInv, WorkerComplete \/ WorkerError
  PROVE  OldestFirst' /\ RowsInTime'
<1>1. TypeOK /\ RowsAreHeldOnce /\ OldestFirst /\ RowsInTime
  BY DEF OrderInv, GridInv, RowInv
<1>2. /\ worker = "measure" /\ cur' = None
      /\ Mark(cur, "completed") \/ Mark(cur, ErrorStatus)
      /\ UNCHANGED <<ticks, queue, sched, emitting, finalTick>>
  BY DEF WorkerComplete, WorkerError, WorkerFrame, schedVars, mainVars
<1>3. /\ cur \in TickIdx /\ "completed" \in Statuses /\ ErrorStatus \in Statuses \ {"pending"}
      /\ cur \notin Queued /\ cur # emitting
  BY <1>1, <1>2 DEF TypeOK, RowsAreHeldOnce, ErrorStatus, Statuses
<1>4. /\ \A i \in TickIdx \ {cur} : status'[i] = status[i]
      /\ status'[cur] # "pending"
  BY <1>1, <1>2, <1>3, MarkFacts DEF Statuses
<1>5. /\ Periodic' = Periodic /\ RowsInTime' /\ Periodic \subseteq TickIdx
      /\ None \notin Periodic /\ Periodic \subseteq Nat /\ Queued' = Queued
  BY <1>1, <1>2, KeptTime, TickIdxType DEF Periodic, Queued
<1>6. \A i \in Periodic : status'[i] = "pending" => status[i] = "pending" /\ i # cur
  BY <1>4, <1>5
<1>7. cur \in Periodic => \A i \in Periodic : i < cur => status[i] # "pending"
  <2> SUFFICES ASSUME cur \in Periodic, NEW i \in Periodic, i < cur, status[i] = "pending"
               PROVE  FALSE
    OBVIOUS
  <2>1. i \in Queued \cup {emitting}
    BY <1>1, <1>2, <1>5 DEF OldestFirst
  <2>2. i \notin Queued
    BY <1>1, <1>5 DEF OldestFirst
  <2>3. i # emitting
    BY <1>1, <1>5 DEF OldestFirst
  <2> QED
    BY <2>1, <2>2, <2>3
<1>8. \A i, j \in Periodic : i < j /\ status'[j] = "completed" => status'[i] # "pending"
  BY <1>1, <1>4, <1>5, <1>6, <1>7 DEF OldestFirst
<1>9. \A i \in Periodic : status'[i] = "pending" => i \in Queued \cup {emitting}
  BY <1>1, <1>2, <1>6 DEF OldestFirst
<1>10. OldestFirst'
  BY <1>1, <1>2, <1>5, <1>8, <1>9 DEF OldestFirst
<1> QED
  BY <1>5, <1>10

\* Once the worker measures no more, rows only leave the queue, and none is completed.
LEMMA AbortOrder ==
  ASSUME OrderInv, WorkerDrain \/ SchedDrain \/ WorkerDrainFail \/ SchedDrainFail \/ WorkerDies
  PROVE  OldestFirst' /\ RowsInTime'
<1>1. TypeOK /\ OldestFirst /\ RowsInTime /\ FailureStops
  BY DEF OrderInv, GridInv, RowInv
<1>2. /\ UNCHANGED <<ticks, finalTick, emitting>> /\ cur' \in {cur, None}
      /\ worker' \notin {"get", "measure", "recorded"}
      /\ sched' \in {"loop", "emit"} => sched \in {"loop", "emit"}
      /\ queue' = queue \/ (queue # <<>> /\ queue' = Tail(queue))
      /\ status' = status \/ AbortPending
  BY <1>1 DEF WorkerDrain, SchedDrain, WorkerDrainFail, SchedDrainFail, WorkerDies, SchedFrame,
              WorkerFrame, AbortPending, AbortPendingReturns, tickVars, schedVars, workerVars,
              mainVars, FailureStops
<1>3. /\ Periodic' = Periodic /\ RowsInTime' /\ Periodic \subseteq TickIdx /\ None \notin Periodic
  BY <1>1, <1>2, KeptTime, TickIdxType DEF Periodic
<1>4. \A i \in TickIdx : status'[i] \in {status[i], "aborted"}
  <2>1. CASE AbortPending
    <3>1. Head(queue) \in TickIdx /\ Mark(Head(queue), "aborted") /\ "aborted" \in Statuses
      BY <1>1, <2>1, DequeueFacts DEF AbortPending, Statuses
    <3> QED
      BY <1>1, <3>1, MarkFacts
  <2>2. CASE status' = status
    BY <2>2
  <2> QED
    BY <1>2, <2>1, <2>2
<1>5. \A i, j \in Periodic : i < j /\ status'[j] = "completed" => status'[i] # "pending"
  BY <1>1, <1>3, <1>4 DEF OldestFirst
<1>6. /\ Queued' \subseteq Queued
      /\ \A k, l \in DOMAIN queue' :
           k < l /\ queue'[k] \in Periodic /\ queue'[l] \in Periodic => queue'[k] < queue'[l]
  <2>1. CASE queue' = queue
    BY <1>1, <2>1 DEF OldestFirst, Queued
  <2>2. CASE queue # <<>> /\ queue' = Tail(queue)
    <3>1. /\ \A k \in DOMAIN queue' : k + 1 \in DOMAIN queue /\ queue'[k] = queue[k + 1]
          /\ DOMAIN queue' \subseteq Nat /\ Queued' \subseteq Queued
      BY <1>1, <2>2, DequeueFacts
    <3> QED
      BY <1>1, <3>1 DEF OldestFirst
  <2> QED
    BY <1>2, <2>1, <2>2
<1>7. cur' \in Periodic' => \A i \in Queued' \cap Periodic' : cur' < i
  BY <1>1, <1>2, <1>3, <1>6 DEF OldestFirst
<1>8. OldestFirst'
  BY <1>1, <1>2, <1>3, <1>5, <1>6, <1>7 DEF OldestFirst
<1> QED
  BY <1>3, <1>8

LEMMA OrderInit == Init => OrderInv
<1> SUFFICES ASSUME Init PROVE OrderInv
  OBVIOUS
<1>1. Periodic = {} /\ DOMAIN queue = {} /\ cur = None /\ emitting = None
  BY EmptySeq DEF Init, Periodic, TickIdx
<1> QED
  BY <1>1, GridInit DEF OrderInv, OldestFirst, RowsInTime

LEMMA OrderNext == OrderInv /\ [Next]_vars => OrderInv'
<1> SUFFICES ASSUME OrderInv, [Next]_vars PROVE OrderInv'
  OBVIOUS
<1>1. GridInv'
  BY GridNext DEF OrderInv
<1>2. OldestFirst' /\ RowsInTime'
  <2>1. ASSUME Tick \/ (\E t \in Trials : TrialStep(t) \/ TrialCrash(t)) \/ UNCHANGED vars
        PROVE  OldestFirst' /\ RowsInTime'
    BY <2>1, QuietOrder
  <2>2. ASSUME SchedStep \/ SchedFail \/ SchedDrainFail PROVE OldestFirst' /\ RowsInTime'
    BY <2>2, QuietOrder, InsertOrder, PutOrder, AbortOrder DEF SchedStep
  <2>3. ASSUME WorkerStep \/ WorkerDies \/ WorkerDrainFail PROVE OldestFirst' /\ RowsInTime'
    BY <2>3, QuietOrder, GetOrder, RecordOrder, AbortOrder DEF WorkerStep
  <2>4. ASSUME MainStep \/ Signal PROVE OldestFirst' /\ RowsInTime'
    BY <2>4, MainOrder, FinalTickOrder, PutOrder
  <2> QED
    BY <2>1, <2>2, <2>3, <2>4 DEF Next, Disturbance, Terminating
<1> QED
  BY <1>1, <1>2 DEF OrderInv

\* A trial's periodic rows are ordered by time as by index, and one is measured only after
\* the earlier ones are settled, whatever signals and outages do to the run.
THEOREM MeasuredInOrder == Spec => []PeriodicInOrder
<1>1. OrderInv => PeriodicInOrder
  BY DEF OrderInv, OldestFirst, RowsInTime, PeriodicInOrder
<1> QED
  BY <1>1, OrderInit, OrderNext, PTL DEF Spec
=============================================================================
