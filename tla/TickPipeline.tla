---------------------------- MODULE TickPipeline ----------------------------
(***************************************************************************)
(* The snapshot pipeline of a live run (snapshot/scheduler.py together     *)
(* with the control flow of run/runner.py:_run_live_experiment).           *)
(*                                                                         *)
(* Four kinds of thread share the run:                                     *)
(*   - the trial threads of the pool, which register with the scheduler,   *)
(*     fuzz until a deadline or the stop event, and unregister;            *)
(*   - the scheduler thread (run_loop), which turns due timestamps into    *)
(*     tick rows and puts the ticks on a queue;                            *)
(*   - the tick worker (_tick_worker_loop), which measures one tick at a   *)
(*     time and records its outcome in the row;                            *)
(*   - the main thread, which waits for the trials, queues the final tick, *)
(*     stops the scheduler, and runs the SIGINT/SIGTERM handler.           *)
(* A tick is the index of its row; the row's status is the durable state   *)
(* every report reads.                                                     *)
(***************************************************************************)
EXTENDS Integers, Sequences, FiniteSets

CONSTANTS
  Trials,        \* the planned trials
  TrialWorkers,  \* size of the trial thread pool
  Every,         \* every_seconds, the snapshot cadence
  Campaign,      \* campaign_seconds, the fuzzing time of one trial
  LastStart,     \* bound: no trial starts later than this
  SignalPhases,  \* phases of the main thread in which a first signal may arrive
  DbOutage       \* may an SQLite lock outlast the retry window of db/base.py?

MainPhases ==
  {"wait", "handler", "check", "put", "stop", "join", "flags", "sweep", "cleanup",
   "drain", "joinInterrupted", "handlerInFinally", "exitSweep", "returned", "raised"}

\* The statements of the try block, and of its finally block, that a signal
\* handler can interrupt by raising.
TryPhases == {"wait", "check", "put"}
FinallyPhases == {"stop", "join", "flags", "sweep", "drain", "joinInterrupted"}

ASSUME PipelineAssumption ==
  /\ IsFiniteSet(Trials) /\ Trials # {}
  /\ TrialWorkers \in Nat \ {0}
  /\ Every \in Nat \ {0}
  /\ Campaign \in Nat \ {0}
  /\ LastStart \in Nat
  /\ SignalPhases \subseteq TryPhases \cup FinallyPhases
  /\ DbOutage \in BOOLEAN

VARIABLES
  now,        \* int(time.time())
  trial,      \* trial |-> state of its future
  startTs,    \* trial |-> start_ts
  nextDue,    \* _next_periodic_ts, NoDue where the key is absent
  ticks,      \* the rows of snapshot_ticks, in index order: ts and trials
  status,     \* the status column of those rows
  queue,      \* _tick_queue
  batch,      \* due snapshots the scheduler thread still has to emit
  sched,      \* control state of the scheduler thread
  emitting,   \* the row the scheduler thread inserted but has not queued
  worker,     \* control state of the tick worker
  cur,        \* the tick the worker holds
  main,       \* control state of the main thread
  finalTick,  \* the row schedule_final_tick inserted
  stopFlag,   \* _stop
  stopEvent,  \* the stop event shared by the whole run
  fatal,      \* _fatal_error is set
  signalled,  \* a signal was delivered
  swept       \* ticks in flight when a sweep removed the run's containers

trialVars  == <<trial, startTs, nextDue>>
tickVars   == <<ticks, status, queue>>
schedVars  == <<batch, sched, emitting>>
workerVars == <<worker, cur>>
mainVars   == <<main, finalTick, signalled>>
flagVars   == <<stopFlag, stopEvent, fatal>>
vars == <<now, trialVars, tickVars, schedVars, workerVars, mainVars, flagVars, swept>>

None  == 0   \* the sentinel put on the queue, and "no tick"
NoDue == 0   \* due times are positive, so 0 marks an absent key

TickIdx == 1..Len(ticks)
TrialStates == {"queued", "starting", "registered", "fuzzing", "done", "failed", "cancelled"}
ActiveStates == {"registered", "fuzzing"}              \* the key is in _active
Running  == {t \in Trials : trial[t] \in {"starting"} \cup ActiveStates}
Finished == {"done", "failed", "cancelled"}
\* _campaign_trials, read only while no trial has failed
CampaignTrials == {t \in Trials : trial[t] \in ActiveStates \cup {"done"}}
CampaignEnd(t) == startTs[t] + Campaign

Init ==
  /\ now = 0
  /\ trial = [t \in Trials |-> "queued"]
  /\ startTs = [t \in Trials |-> 0]
  /\ nextDue = [t \in Trials |-> NoDue]
  /\ ticks = <<>> /\ status = <<>> /\ queue = <<>>
  /\ batch = {} /\ sched = "loop" /\ emitting = None
  /\ worker = "get" /\ cur = None
  /\ main = "wait" /\ finalTick = None
  /\ stopFlag = FALSE /\ stopEvent = FALSE /\ fatal = FALSE
  /\ signalled = FALSE
  /\ swept = {}

-----------------------------------------------------------------------------
(* Time. Bound: the clock stands still at LastStart until the last trial    *)
(* has started and stops at LastStart + Campaign, past every deadline.      *)

Horizon == LastStart + Campaign

Tick ==
  /\ now < Horizon
  /\ now < LastStart \/ \A t \in Trials : trial[t] # "queued"
  /\ now' = now + 1
  /\ UNCHANGED <<trialVars, tickVars, schedVars, workerVars, mainVars, flagVars, swept>>

-----------------------------------------------------------------------------
(* What the steps of each thread leave alone.                               *)

TrialFrame  == UNCHANGED <<now, tickVars, schedVars, workerVars, mainVars, flagVars, swept>>
SchedFrame  == UNCHANGED <<now, trialVars, workerVars, mainVars, swept>>
WorkerFrame == UNCHANGED <<now, trialVars, schedVars, mainVars, swept>>
MainFrame   == UNCHANGED <<now, schedVars, workerVars>>

-----------------------------------------------------------------------------
(* Trial threads: run_one_trial as the scheduler sees it.                   *)

\* A pool thread takes the next future; start_ts is read before the trial row
\* is written and before the trial registers.
TrialBegin(t) ==
  /\ trial[t] = "queued"
  /\ Cardinality(Running) < TrialWorkers
  /\ trial' = [trial EXCEPT ![t] = "starting"]
  /\ startTs' = [startTs EXCEPT ![t] = now]
  /\ TrialFrame /\ UNCHANGED nextDue

\* register
FirstDue(t) ==
  LET due == startTs[t] + Every IN IF due < CampaignEnd(t) THEN due ELSE NoDue

TrialRegister(t) ==
  /\ trial[t] = "starting"
  /\ trial' = [trial EXCEPT ![t] = "registered"]
  /\ nextDue' = [nextDue EXCEPT ![t] = FirstDue(t)]
  /\ TrialFrame /\ UNCHANGED startTs

\* unregister, with the outcome the future reports
Unregister(t, result) ==
  /\ trial' = [trial EXCEPT ![t] = result]
  /\ nextDue' = [nextDue EXCEPT ![t] = NoDue]
  /\ TrialFrame /\ UNCHANGED startTs

\* TrialContainer.start runs the container, or refuses because the run stops;
\* a refused trial returns without looking at the scheduler's error.
TrialLaunch(t) ==
  /\ trial[t] = "registered" /\ ~stopEvent
  /\ trial' = [trial EXCEPT ![t] = "fuzzing"]
  /\ TrialFrame /\ UNCHANGED <<startTs, nextDue>>

TrialRefused(t) ==
  /\ trial[t] = "registered" /\ stopEvent
  /\ Unregister(t, "done")

\* The deadline passed or the stop event was seen; raise_if_failed then turns a
\* fatal measurement error into the trial's own failure.
TrialEnd(t) ==
  /\ trial[t] = "fuzzing"
  /\ now >= CampaignEnd(t) \/ stopEvent
  /\ Unregister(t, IF fatal THEN "failed" ELSE "done")

\* The workspace or the fuzzer failed to start, or the fuzzer exited early.
TrialCrash(t) ==
  /\ t \in Running
  /\ Unregister(t, "failed")

-----------------------------------------------------------------------------
(* Rows and queue.                                                          *)

\* Seeded fault: INSERT OR IGNORE ignored the row.
InsertTickIgnored(ts, trials) ==
  /\ ticks' = Append(ticks, [ts |-> ts, trials |-> trials])
  /\ UNCHANGED <<status, queue>>

InsertTick(ts, trials) ==
  /\ ticks' = Append(ticks, [ts |-> ts, trials |-> trials])
  /\ status' = Append(status, "pending")
  /\ UNCHANGED queue

\* Seeded fault: a put that is retried although it went through.
EnqueueTwice(item) ==
  /\ queue' = queue \o <<item, item>>
  /\ UNCHANGED <<ticks, status>>

Enqueue(item) ==
  /\ queue' = Append(queue, item)
  /\ UNCHANGED <<ticks, status>>

\* mark_tick_completed, mark_tick_failed, mark_tick_aborted
Mark(idx, outcome) == status' = [status EXCEPT ![idx] = outcome]

\* Seeded fault: the UPDATE lost its idx condition.
AbortEveryRow ==
  /\ queue # <<>> /\ Head(queue) # None
  /\ queue' = Tail(queue)
  /\ status' = [i \in DOMAIN status |-> "aborted"]
  /\ UNCHANGED ticks

\* One iteration of _abort_pending_ticks, up to Empty or the sentinel.
AbortPending ==
  /\ queue # <<>> /\ Head(queue) # None
  /\ queue' = Tail(queue)
  /\ Mark(Head(queue), "aborted")
  /\ UNCHANGED ticks

AbortPendingReturns ==
  /\ \/ queue = <<>> /\ UNCHANGED queue
     \/ queue # <<>> /\ Head(queue) = None /\ queue' = Tail(queue)
  /\ UNCHANGED <<ticks, status>>

-----------------------------------------------------------------------------
(* The scheduler thread: SnapshotScheduler.run_loop.                        *)

\* The grid points of t that have come due and are not yet emitted.
DueTimes(t) ==
  IF trial[t] \in ActiveStates /\ nextDue[t] # NoDue
  THEN {ts \in nextDue[t]..now : ts < CampaignEnd(t) /\ (ts - nextDue[t]) % Every = 0}
  ELSE {}

\* Seeded fault: the next due time counts from the late wake-up.
DueAfterDrifting(t) ==
  LET next == IF nextDue[t] > now THEN nextDue[t] ELSE now + Every + 1
  IN  IF trial[t] \in ActiveStates /\ nextDue[t] # NoDue /\ next < CampaignEnd(t)
      THEN next ELSE NoDue

\* The entry of _next_periodic_ts after the catch-up loop.
DueAfter(t) ==
  LET next == IF nextDue[t] > now THEN nextDue[t]
              ELSE nextDue[t] + ((now - nextDue[t]) \div Every + 1) * Every
  IN  IF trial[t] \in ActiveStates /\ nextDue[t] # NoDue /\ next < CampaignEnd(t)
      THEN next ELSE NoDue

\* One pass over _next_periodic_ts under the lock.
SchedCollectDue ==
  /\ sched = "loop"
  /\ batch' = {[ts |-> ts, trials |-> {t \in Trials : ts \in DueTimes(t)}] :
                 ts \in UNION {DueTimes(t) : t \in Trials}}
  /\ nextDue' = [t \in Trials |-> DueAfter(t)]
  /\ sched' = "emit"
  /\ UNCHANGED <<now, trial, startTs, tickVars, emitting, workerVars, mainVars, flagVars, swept>>

\* Seeded fault: the due timestamps are not sorted.
SchedInsertUnsorted ==
  /\ sched = "emit"
  /\ \E due \in batch : InsertTick(due.ts, due.trials) /\ batch' = batch \ {due}
  /\ emitting' = Len(ticks) + 1
  /\ sched' = "telemetry"
  /\ SchedFrame /\ UNCHANGED flagVars

\* Allocate an index and insert the row, oldest due timestamp first.
SchedInsert ==
  /\ sched = "emit"
  /\ \E due \in batch :
       /\ \A other \in batch : due.ts <= other.ts
       /\ InsertTick(due.ts, due.trials)
       /\ batch' = batch \ {due}
  /\ emitting' = Len(ticks) + 1
  /\ sched' = "telemetry"
  /\ SchedFrame /\ UNCHANGED flagVars

\* Resource telemetry is done (docker stats and du, tens of seconds): queue it.
SchedEnqueue ==
  /\ sched = "telemetry"
  /\ Enqueue(emitting)
  /\ emitting' = None
  /\ sched' = "emit"
  /\ SchedFrame /\ UNCHANGED <<batch, flagVars>>

\* Everything due is queued: look at _stop, else wait and loop. The wait ends by
\* its time-out or the wake event, so it is folded into this step.
SchedNext ==
  /\ sched = "emit" /\ batch = {}
  /\ sched' = IF stopFlag THEN "finish" ELSE "loop"
  /\ SchedFrame /\ UNCHANGED <<tickVars, batch, emitting, flagVars>>

\* A database statement of the loop raises: _set_fatal_error, then the finally.
SchedFail ==
  /\ DbOutage
  /\ sched = "telemetry" \/ (sched = "emit" /\ batch # {})
  /\ fatal' = TRUE
  /\ sched' = "fatal"
  /\ SchedFrame /\ UNCHANGED <<tickVars, batch, emitting, stopFlag, stopEvent>>

SchedFatal ==
  /\ sched = "fatal"
  /\ stopFlag' = TRUE /\ stopEvent' = TRUE
  /\ sched' = "finish"
  /\ SchedFrame /\ UNCHANGED <<tickVars, batch, emitting, fatal>>

\* Seeded fault: the loop ends without its sentinel.
SchedSentinelMissing ==
  /\ sched = "finish"
  /\ sched' = "join"
  /\ SchedFrame /\ UNCHANGED <<tickVars, batch, emitting, flagVars>>

SchedSentinel ==
  /\ sched = "finish"
  /\ Enqueue(None)
  /\ sched' = "join"
  /\ SchedFrame /\ UNCHANGED <<batch, emitting, flagVars>>

\* Seeded fault: the scheduler thread leaves the clean-up to the worker.
SchedJoinWithoutDrain ==
  /\ sched = "join" /\ worker = "done"
  /\ sched' = "done"
  /\ SchedFrame /\ UNCHANGED <<tickVars, batch, emitting, flagVars>>

SchedJoin ==
  /\ sched = "join" /\ worker = "done"
  /\ sched' = IF fatal THEN "drain" ELSE "done"
  /\ SchedFrame /\ UNCHANGED <<tickVars, batch, emitting, flagVars>>

SchedDrain ==
  /\ sched = "drain"
  /\ \/ AbortPending /\ UNCHANGED sched
     \/ AbortPendingReturns /\ sched' = "done"
  /\ SchedFrame /\ UNCHANGED <<batch, emitting, flagVars>>

\* The UPDATE of _abort_pending_ticks raises and ends the thread.
SchedDrainFail ==
  /\ DbOutage
  /\ sched = "drain" /\ queue # <<>> /\ Head(queue) # None
  /\ queue' = Tail(queue)
  /\ sched' = "done"
  /\ SchedFrame /\ UNCHANGED <<ticks, status, batch, emitting, flagVars>>

-----------------------------------------------------------------------------
(* The tick worker: _tick_worker_loop.                                      *)

WorkerGet ==
  /\ worker = "get" /\ queue # <<>>
  /\ queue' = Tail(queue)
  /\ cur' = Head(queue)
  /\ worker' = IF Head(queue) = None THEN "done" ELSE "measure"
  /\ WorkerFrame /\ UNCHANGED <<ticks, status, flagVars>>

\* _process_tick ran to its end.
WorkerComplete ==
  /\ worker = "measure"
  /\ Mark(cur, "completed")
  /\ cur' = None
  /\ worker' = "get"
  /\ WorkerFrame /\ UNCHANGED <<ticks, queue, flagVars>>

\* _record_tick_error: aborted while stopping, failed otherwise.
ErrorStatus == IF stopEvent THEN "aborted" ELSE "failed"

\* _process_tick raised and _record_tick_error wrote the row.
WorkerError ==
  /\ worker = "measure"
  /\ Mark(cur, ErrorStatus)
  /\ cur' = None
  /\ worker' = "recorded"
  /\ WorkerFrame /\ UNCHANGED <<ticks, queue, flagVars>>

\* _record_tick_error raised as well: the thread ends, nobody is told.
WorkerDies ==
  /\ DbOutage
  /\ worker = "measure"
  /\ cur' = None
  /\ worker' = "done"
  /\ WorkerFrame /\ UNCHANGED <<tickVars, flagVars>>

\* Seeded fault: an error never becomes fatal.
WorkerCarriesOn ==
  /\ worker = "recorded"
  /\ worker' = "get"
  /\ WorkerFrame /\ UNCHANGED <<tickVars, cur, flagVars>>

\* The stop event is read again: while stopping, go on with the next tick.
WorkerCheckStop ==
  /\ worker = "recorded"
  /\ worker' = IF stopEvent THEN "get" ELSE "fatal"
  /\ fatal' = (fatal \/ ~stopEvent)
  /\ WorkerFrame /\ UNCHANGED <<tickVars, cur, stopFlag, stopEvent>>

\* Seeded fault: the loop does not break after a fatal error.
WorkerFatalWithoutBreak ==
  /\ worker = "fatal"
  /\ stopFlag' = TRUE /\ stopEvent' = TRUE
  /\ worker' = "get"
  /\ WorkerFrame /\ UNCHANGED <<tickVars, cur, fatal>>

\* The rest of _set_fatal_error.
WorkerFatal ==
  /\ worker = "fatal"
  /\ stopFlag' = TRUE /\ stopEvent' = TRUE
  /\ worker' = "drain"
  /\ WorkerFrame /\ UNCHANGED <<tickVars, cur, fatal>>

WorkerDrain ==
  /\ worker = "drain"
  /\ \/ AbortPending /\ UNCHANGED worker
     \/ AbortPendingReturns /\ worker' = "done"
  /\ WorkerFrame /\ UNCHANGED <<cur, flagVars>>

WorkerDrainFail ==
  /\ DbOutage
  /\ worker = "drain" /\ queue # <<>> /\ Head(queue) # None
  /\ queue' = Tail(queue)
  /\ worker' = "done"
  /\ WorkerFrame /\ UNCHANGED <<ticks, status, cur, flagVars>>

-----------------------------------------------------------------------------
(* The main thread: _run_live_experiment and the signal handler.            *)

MainGoto(phase) == main' = phase /\ UNCHANGED <<finalTick, signalled>>

\* force_stop_all_active: every container of the run is removed, those of the
\* tick in flight included.
Sweep == swept' = swept \cup (IF worker = "measure" THEN {cur} ELSE {})

CancelQueued ==
  trial' = [t \in Trials |-> IF trial[t] = "queued" THEN "cancelled" ELSE trial[t]]

MainTrialsDone ==
  /\ main = "wait"
  /\ \A t \in Trials : trial[t] = "done"
  /\ MainGoto("check")
  /\ MainFrame /\ UNCHANGED <<trialVars, tickVars, flagVars, swept>>

\* _wait_for_futures cancels what has not started and raises the first failure.
MainTrialFailed ==
  /\ main = "wait"
  /\ \E t \in Trials : trial[t] = "failed"
  /\ CancelQueued
  /\ MainGoto("flags")
  /\ MainFrame /\ UNCHANGED <<startTs, nextDue, tickVars, flagVars, swept>>

\* schedule_final_tick up to the inserted row.
MainFinalTick ==
  /\ main = "check" /\ ~fatal
  /\ InsertTick(now, CampaignTrials)
  /\ finalTick' = Len(ticks) + 1
  /\ main' = "put"
  /\ MainFrame /\ UNCHANGED <<trialVars, signalled, flagVars, swept>>

\* raise_if_failed raises, or the row cannot be inserted.
MainCheckRaises ==
  /\ main = "check" /\ (fatal \/ DbOutage)
  /\ MainGoto("flags")
  /\ MainFrame /\ UNCHANGED <<trialVars, tickVars, flagVars, swept>>

MainPutFinal ==
  /\ main = "put"
  /\ Enqueue(finalTick)
  /\ MainGoto("stop")
  /\ MainFrame /\ UNCHANGED <<trialVars, flagVars, swept>>

\* The finally block of an undisturbed run: scheduler.stop().
MainStop ==
  /\ main = "stop"
  /\ stopFlag' = TRUE
  /\ MainGoto("join")
  /\ MainFrame /\ UNCHANGED <<trialVars, tickVars, stopEvent, fatal, swept>>

\* Seeded fault: the run returns without joining the scheduler thread.
MainDoesNotJoin ==
  /\ main = "join"
  /\ MainGoto(IF fatal THEN "exitSweep" ELSE "returned")
  /\ MainFrame /\ UNCHANGED <<trialVars, tickVars, flagVars, swept>>

MainJoin ==
  /\ main = "join" /\ sched = "done"
  /\ MainGoto(IF fatal THEN "exitSweep" ELSE "returned")
  /\ MainFrame /\ UNCHANGED <<trialVars, tickVars, flagVars, swept>>

\* Seeded fault: the stop event is left to the sweep that follows.
MainFlagsWithoutStopEvent ==
  /\ main = "flags"
  /\ stopFlag' = TRUE
  /\ MainGoto("sweep")
  /\ MainFrame /\ UNCHANGED <<trialVars, tickVars, stopEvent, fatal, swept>>

\* The finally block of an interrupted run sets both flags before it sweeps.
MainFlags ==
  /\ main = "flags"
  /\ stopEvent' = TRUE /\ stopFlag' = TRUE
  /\ MainGoto("sweep")
  /\ MainFrame /\ UNCHANGED <<trialVars, tickVars, fatal, swept>>

MainSweep ==
  /\ main = "sweep"
  /\ Sweep
  /\ MainGoto("drain")
  /\ MainFrame /\ UNCHANGED <<trialVars, tickVars, flagVars>>

\* executor.shutdown(wait=True, cancel_futures=True)
MainShutdownPool ==
  /\ main = "drain"
  /\ \A t \in Trials : trial[t] \in Finished
  /\ MainGoto("joinInterrupted")
  /\ MainFrame /\ UNCHANGED <<trialVars, tickVars, flagVars, swept>>

MainJoinInterrupted ==
  /\ main = "joinInterrupted" /\ sched = "done"
  /\ MainGoto("exitSweep")
  /\ MainFrame /\ UNCHANGED <<trialVars, tickVars, flagVars, swept>>

\* RunShutdown.__exit__ sweeps on the way out.
MainExit ==
  /\ main = "exitSweep"
  /\ Sweep
  /\ MainGoto("raised")
  /\ MainFrame /\ UNCHANGED <<trialVars, tickVars, flagVars>>

\* A first SIGINT or SIGTERM: the handler runs between two statements of main.
Signal ==
  /\ ~signalled /\ main \in SignalPhases
  /\ signalled' = TRUE
  /\ stopEvent' = TRUE
  /\ main' = IF main \in TryPhases THEN "handler" ELSE "handlerInFinally"
  /\ MainFrame /\ UNCHANGED <<trialVars, tickVars, finalTick, stopFlag, fatal, swept>>

\* The handler's sweep, then KeyboardInterrupt or SystemExit: in the try block the
\* except clause catches it and cancels what has not started; from the finally
\* block it leaves the function.
SignalSweep ==
  /\ \/ main = "handler" /\ MainGoto("flags") /\ CancelQueued
     \/ main = "handlerInFinally" /\ MainGoto("exitSweep") /\ UNCHANGED trial
  /\ Sweep
  /\ MainFrame /\ UNCHANGED <<startTs, nextDue, tickVars, flagVars>>

-----------------------------------------------------------------------------
MainDone  == main \in {"returned", "raised"}
AllDone   == MainDone /\ sched = "done" /\ worker = "done"
             /\ \A t \in Trials : trial[t] \in Finished

Terminating == AllDone /\ UNCHANGED vars

TrialStep(t) ==
  TrialBegin(t) \/ TrialRegister(t) \/ TrialLaunch(t) \/ TrialRefused(t) \/ TrialEnd(t)
SchedStep ==
  \/ SchedCollectDue \/ SchedInsert \/ SchedEnqueue \/ SchedNext \/ SchedFatal
  \/ SchedSentinel \/ SchedJoin \/ SchedDrain
WorkerStep ==
  \/ WorkerGet \/ WorkerComplete \/ WorkerError \/ WorkerCheckStop \/ WorkerFatal
  \/ WorkerDrain
MainStep ==
  \/ MainTrialsDone \/ MainTrialFailed \/ MainFinalTick \/ MainCheckRaises
  \/ MainPutFinal \/ MainStop \/ MainJoin \/ MainFlags \/ MainSweep
  \/ MainShutdownPool \/ MainJoinInterrupted \/ MainExit \/ SignalSweep
Disturbance ==
  \/ \E t \in Trials : TrialCrash(t)
  \/ Signal
  \/ SchedFail \/ SchedDrainFail \/ WorkerDies \/ WorkerDrainFail

Next ==
  \/ Tick
  \/ \E t \in Trials : TrialStep(t)
  \/ SchedStep
  \/ WorkerStep
  \/ MainStep
  \/ Disturbance
  \/ Terminating

Spec == Init /\ [][Next]_vars

\* Every thread keeps running, and so does time; nothing forces a disturbance.
Fairness ==
  /\ WF_vars(Tick)
  /\ \A t \in Trials : WF_vars(TrialStep(t))
  /\ WF_vars(SchedStep) /\ WF_vars(WorkerStep) /\ WF_vars(MainStep)

FairSpec == Spec /\ Fairness

-----------------------------------------------------------------------------
(* Properties.                                                              *)

Due == [ts : Nat, trials : SUBSET Trials]
Statuses == {"pending", "completed", "failed", "aborted"}

\* Every variable of the pipeline has its type, and each row has one status.
TypeOK ==
  /\ now \in Nat
  /\ trial \in [Trials -> TrialStates]
  /\ startTs \in [Trials -> Nat] /\ nextDue \in [Trials -> Nat]
  /\ ticks \in Seq(Due) /\ status \in Seq(Statuses) /\ Len(status) = Len(ticks)
  /\ queue \in Seq(TickIdx \cup {None})
  /\ batch \in SUBSET Due
  /\ sched \in {"loop", "emit", "telemetry", "fatal", "finish", "join", "drain", "done"}
  /\ emitting \in TickIdx \cup {None}
  /\ worker \in {"get", "measure", "recorded", "fatal", "drain", "done"}
  /\ cur \in TickIdx \cup {None}
  /\ main \in MainPhases /\ finalTick \in TickIdx \cup {None}
  /\ stopFlag \in BOOLEAN /\ stopEvent \in BOOLEAN /\ fatal \in BOOLEAN
  /\ signalled \in BOOLEAN /\ swept \in SUBSET TickIdx

Queued == {queue[i] : i \in DOMAIN queue}

\* Single ownership: a pending row is in exactly one place (the queue, the
\* worker, the thread that inserted it), so no tick is measured twice and none
\* is forgotten while its run is healthy. The exceptions are the rows whose
\* thread left between the INSERT and the put, or died holding them.
InHands(i) == {h \in {"queue", "worker", "sched", "main"} :
                 \/ h = "queue"  /\ i \in Queued
                 \/ h = "worker" /\ i = cur
                 \/ h = "sched"  /\ i = emitting
                 \/ h = "main"   /\ i = finalTick /\ main = "put"}
SingleOwner ==
  \A i \in TickIdx :
    /\ Cardinality(InHands(i)) <= 1
    /\ Cardinality({k \in DOMAIN queue : queue[k] = i}) <= 1
    /\ InHands(i) # {} => status[i] = "pending"
    /\ status[i] = "pending" /\ InHands(i) = {} => signalled /\ i = finalTick

\* At most one tick of a run is a measurement failure: the first failure either
\* becomes fatal or finds the run stopping, and after that an error is aborted.
AtMostOneFailure ==
  \A i, j \in TickIdx : status[i] = "failed" /\ status[j] = "failed" => i = j

\* A tick whose containers a sweep removed is never reported as a measurement
\* failure: the stop event is set before the sweep (run/runner.py:235-241).
SweptNotFailed == \A i \in swept : status[i] # "failed"

\* Every failed tick is a genuine one: the first failure of the run, and not the
\* run's own sweep (_record_tick_error, run/runner.py:235-241).
FailuresAreGenuine == AtMostOneFailure /\ SweptNotFailed

\* The inductive invariant behind the two and behind OutcomeIsFinal. Whoever may
\* still write a row's outcome holds the row alone and finds it pending; a worker
\* that may take another tick has recorded no failure, or sees the stop event; and
\* the event is set wherever a sweep is due.
ToPut == IF main = "put" THEN finalTick ELSE None
SweepPhases ==
  {"sweep", "drain", "joinInterrupted", "handler", "handlerInFinally", "exitSweep"}

RowsAreHeldOnce ==
  /\ \A k, l \in DOMAIN queue : queue[k] = queue[l] => k = l \/ queue[k] = None
  /\ \A i \in {cur, emitting, ToPut} \ {None} : i \notin Queued
  /\ cur # None => cur # emitting /\ cur # ToPut
  /\ emitting # None => emitting # ToPut
  /\ \A i \in (Queued \cup {cur, emitting, ToPut}) \ {None} : status[i] = "pending"
  /\ worker = "measure" <=> cur # None

FailureStops ==
  /\ worker \in {"get", "measure"} /\ ~stopEvent =>
       \A i \in TickIdx : status[i] # "failed"
  /\ swept # {} \/ main \in SweepPhases => stopEvent
  /\ fatal => stopEvent \/ sched = "fatal" \/ worker = "fatal"
  /\ sched \in {"drain", "done"} => worker = "done"

RowInv == TypeOK /\ RowsAreHeldOnce /\ FailureStops /\ AtMostOneFailure /\ SweptNotFailed

\* A run that returns normally measured every tick it inserted, the final one
\* last inserted by the main thread included, and covers every trial.
SuccessMeansMeasured ==
  main = "returned" =>
    /\ \A i \in TickIdx : status[i] = "completed"
    /\ finalTick # None /\ ticks[finalTick].trials = Trials

\* Once every thread is gone, the only tick that can still be pending is the
\* final one of a run that a fatal error or a signal ended.
OnlyFinalLeftPending ==
  AllDone => \A i \in TickIdx :
    status[i] = "pending" => i = finalTick /\ (fatal \/ signalled)

\* The inductive invariant behind SingleOwner and SuccessMeansMeasured, without
\* database outages. Only a signal between its INSERT and its put loses a row; while
\* no error is recorded and no stop requested, the sentinel is put last, after the final
\* tick, and the worker leaves nothing but completed ticks behind it.
Undisturbed == {"wait", "check", "put", "stop", "join", "returned"}
Held(i) == i \in Queued \cup {cur, emitting, ToPut}

NothingIsLost ==
  /\ \A i \in TickIdx : status[i] = "pending" => Held(i) \/ (signalled /\ i = finalTick)
  /\ main \in Undisturbed => ~signalled /\ (stopEvent => fatal)
  /\ sched = "telemetry" <=> emitting # None
  /\ sched \in {"fatal", "drain"} \/ worker \in {"fatal", "drain"} => fatal

SentinelIsLast ==
  ~fatal /\ ~stopEvent =>
    /\ \A i \in TickIdx : status[i] \in {"failed", "aborted"} => worker = "recorded"
    /\ stopFlag => main \in {"join", "returned"}
    /\ sched \in {"finish", "join", "done"} => stopFlag
    /\ None \in Queued \/ worker = "done" => sched \in {"join", "done"}
    /\ \A k \in DOMAIN queue : queue[k] = None => k = Len(queue)
    /\ worker = "done" => queue = <<>>

FinalCoversAll ==
  /\ main = "check" => \A t \in Trials : trial[t] = "done"
  /\ main \in {"put", "stop", "join", "returned"} =>
       finalTick \in TickIdx /\ ticks[finalTick].trials = Trials
  /\ main = "returned" => sched = "done" /\ ~fatal

CalmInv == RowInv /\ NothingIsLost /\ SentinelIsLast /\ FinalCoversAll

\* The inductive invariant behind OnlyFinalLeftPending, also once an error or a signal
\* stops the run: only the final tick is ever put after the sentinel, and no thread
\* ends for good before the sentinel is off the queue.
SentinelGone == sched \in {"join", "drain", "done"} /\ None \notin Queued

OnlyFinalFollows ==
  /\ finalTick # None => signalled \/ fatal \/ main \in {"put", "stop", "join", "returned"}
  /\ main \in {"wait", "check"} => finalTick = None
  /\ None \in Queued => sched \in {"join", "drain", "done"}
  /\ \A k, l \in DOMAIN queue :
       k < l /\ queue[k] = None => queue[l] = finalTick /\ finalTick # None
  /\ SentinelGone => Queued \subseteq {finalTick}
  /\ worker = "done" => SentinelGone \/ fatal
  /\ sched = "done" => SentinelGone

EndInv == CalmInv /\ OnlyFinalFollows

\* The inductive invariant behind NothingMeasuredAfterFailure: after a fatal error the
\* worker measures no more, and without one only a signal or a trial stops the run.
StopHasCause ==
  /\ fatal => worker \in {"fatal", "drain", "done"}
  /\ stopEvent \/ main = "flags" =>
       signalled \/ fatal \/ \E t \in Trials : trial[t] = "failed"

Periodic == TickIdx \ {finalTick}
TickTimes(t)  == {ticks[i].ts : i \in {j \in Periodic : t \in ticks[j].trials}}
BatchTimes(t) == {d.ts : d \in {b \in batch : t \in b.trials}}
Grid(t) == {ts \in startTs[t]..Horizon :
              ts > startTs[t] /\ ts < CampaignEnd(t) /\ (ts - startTs[t]) % Every = 0}

Seen(t) == TickTimes(t) \cup BatchTimes(t)
Open(t) == Grid(t) \ Seen(t)
OnGrid(t) ==
  /\ Seen(t) \subseteq Grid(t)
  /\ \A s \in Seen(t), g \in Open(t) : s < g
  /\ trial[t] \in ActiveStates =>
       IF Open(t) = {} THEN nextDue[t] = NoDue
       ELSE nextDue[t] \in Open(t) /\ \A g \in Open(t) : nextDue[t] <= g

\* However late the scheduler thread runs, a trial's periodic snapshots are its
\* grid points: none outside the campaign, none skipped, and the next due entry
\* is the first grid point that is neither in a tick nor about to be.
GridNeverSkips == \A t \in Trials : OnGrid(t)

\* Within one trial, periodic rows are ordered by time as they are by index, and
\* one is measured only after the earlier ones are settled.
PeriodicInOrder ==
  \A i, j \in Periodic :
    i < j /\ ticks[i].trials \cap ticks[j].trials # {} =>
      /\ ticks[i].ts < ticks[j].ts
      /\ status[j] = "completed" => status[i] # "pending"

\* The inductive invariant behind the two. A trial has no snapshot before it registers;
\* the due times of a batch are distinct and later than what the trials have; and a
\* living worker has every pending periodic row ahead of it, oldest first.
BatchIsAhead ==
  /\ now <= Horizon
  /\ \A t \in Trials : startTs[t] <= LastStart
  /\ \A t \in Trials : trial[t] = "queued" => now <= LastStart
  /\ \A t \in Trials : trial[t] \in {"queued", "starting"} => Seen(t) = {}
  /\ \A t \in Trials : \A s \in TickTimes(t), b \in BatchTimes(t) : s < b
  /\ \A a, b \in batch : a.ts = b.ts => a = b
  /\ sched = "loop" => batch = {}
  /\ main \in {"wait", "check"} => finalTick = None

OldestFirst ==
  /\ worker \in {"get", "measure", "recorded"} =>
       \A i \in Periodic : status[i] = "pending" => i \in Queued \cup {cur, emitting}
  /\ \A k, l \in DOMAIN queue :
       k < l /\ queue[k] \in Periodic /\ queue[l] \in Periodic => queue[k] < queue[l]
  /\ cur \in Periodic => \A i \in Queued \cap Periodic : cur < i
  /\ emitting # None => \A i \in Periodic : i <= emitting
  /\ sched \in {"loop", "emit"} => emitting = None
  /\ \A i, j \in Periodic : i < j /\ status[j] = "completed" => status[i] # "pending"

RowsInTime ==
  \A i, j \in Periodic :
    i < j /\ ticks[i].trials \cap ticks[j].trials # {} => ticks[i].ts < ticks[j].ts

GridInv == RowInv /\ BatchIsAhead /\ GridNeverSkips
OrderInv == GridInv /\ OldestFirst /\ RowsInTime

\* A recorded outcome is never overwritten (the UPDATEs are unconditional).
OutcomeIsFinal ==
  [][\A i \in TickIdx : status[i] # "pending" => status'[i] = status[i]]_vars

\* No tick is measured on top of a failed one, which would leave its files out of
\* the cumulative coverage for good, unless a signal or a failing trial stopped
\* the run between the failure being recorded and the stop event being read.
NothingMeasuredAfterFailure ==
  [][\A i, j \in TickIdx :
       status[i] = "failed" /\ status[j] # "completed" /\ status'[j] = "completed" =>
         ~fatal /\ (signalled \/ \E t \in Trials : trial[t] = "failed")]_vars

\* Every thread ends. The exception is a signal that leaves the finally block of
\* _run_live_experiment before scheduler.stop(): it abandons a scheduler that
\* loops on (run_loop runs "until the campaign ends or stop is requested").
AbandonedScheduler == main = "raised" /\ ~stopFlag
EventuallyOver == <>(AllDone \/ AbandonedScheduler)

-----------------------------------------------------------------------------
(* What comments and docstrings say, where the code does otherwise.         *)

\* db/snapshot.py:296 "Copy the latest known coverage fields into a newer
\* snapshot row": ticks of one trial are measured in index order.
MeasuredInIndexOrder ==
  \A i, j \in TickIdx :
    i < j /\ ticks[i].trials \cap ticks[j].trials # {} /\ status[j] = "completed" =>
      status[i] # "pending"
=============================================================================
