---------------------------- MODULE TrialShutdown ----------------------------
(***************************************************************************)
(* The fuzzing containers of a live run and how a run that is stopped gets *)
(* rid of them: trial/runner.py:run_one_trial, trial/runtime.py            *)
(* (TrialContainer), run/shutdown.py (RunShutdown) and the control flow of *)
(* run/runner.py:_run_live_experiment around them.                         *)
(*                                                                         *)
(* A trial thread starts, watches and removes its own container. A sweep,  *)
(* by the signal handler or by the main thread, removes the containers of  *)
(* every trial under the same lock that guards their start. The scheduler  *)
(* is reduced to the one thing it does here: a fatal measurement error     *)
(* sets the stop event (TickPipeline models it in full).                   *)
(***************************************************************************)
EXTENDS Integers, FiniteSets

CONSTANTS
  Trials,       \* the planned trials; each has a pool thread, and a smaller
                \* pool only delays a start
  Signals,      \* bound: the number of SIGINT/SIGTERM delivered
  DockerStalls  \* may a docker command with a time-out exceed it?

Free == "free"
Main == "main"

ASSUME ShutdownAssumption ==
  /\ IsFiniteSet(Trials) /\ Trials # {}
  /\ Free \notin Trials /\ Main \notin Trials
  /\ Signals \in Nat
  /\ DockerStalls \in BOOLEAN

VARIABLES
  pc,         \* trial |-> where its run_one_trial call is
  outcome,    \* trial |-> its local variable status
  row,        \* trial |-> the status of its row, "none" before there is one
  box,        \* trial |-> its container: none, running, or exited and not removed
  names,      \* TrialContainer._active_container_names
  lock,       \* holder of TrialContainer._active_lock
  expired,    \* trials whose deadline has passed
  crashed,    \* trials whose container did not start or ended by itself
  stalled,    \* trials for which a docker command exceeded its time-out
  stopEvent,  \* the stop event of the run
  fatal,      \* the scheduler's _fatal_error is set
  main,       \* where the main thread is
  handler,    \* where the signal handler on top of it is
  signals,    \* RunShutdown._signal_count
  swept       \* a sweep has removed the containers

trialVars == <<pc, outcome, row, expired, crashed, stalled>>
boxVars   == <<box, names, lock>>
mainVars  == <<main, handler, signals, swept>>
flagVars  == <<stopEvent, fatal>>
vars == <<trialVars, boxVars, mainVars, flagVars>>

Failures == {"failed_start", "failed_runtime", "failed_measurement"}
Finished == {"over", "cancelled"}

TryPhases     == {"wait", "final"}
FinallyPhases == {"set", "sweep", "pool", "join"}
LatePhases    == {"failSweep", "exitSweep"}

Init ==
  /\ pc = [t \in Trials |-> "queued"]
  /\ outcome = [t \in Trials |-> "none"]
  /\ row = [t \in Trials |-> "none"]
  /\ box = [t \in Trials |-> "none"]
  /\ names = {} /\ lock = Free
  /\ expired = {} /\ crashed = {} /\ stalled = {}
  /\ stopEvent = FALSE /\ fatal = FALSE
  /\ main = "wait" /\ handler = "none" /\ signals = 0 /\ swept = FALSE

-----------------------------------------------------------------------------
(* A trial thread.                                                          *)

Goto(t, label)  == pc' = [pc EXCEPT ![t] = label]
Say(t, status)  == outcome' = [outcome EXCEPT ![t] = status]
SetBox(t, state) == box' = [box EXCEPT ![t] = state]
TrialFrame == UNCHANGED <<mainVars, flagVars>>
RunFrame   == UNCHANGED <<mainVars, flagVars, boxVars, row, expired, crashed, stalled>>

\* The workspace is prepared, the row inserted, the trial registered.
Prepare(t) ==
  /\ pc[t] = "queued"
  /\ row' = [row EXCEPT ![t] = "running"]
  /\ Goto(t, "start")
  /\ TrialFrame /\ UNCHANGED <<boxVars, outcome, expired, crashed, stalled>>

\* Seeded fault: the lock is not held while docker runs.
LaunchUnlocked(t) ==
  /\ pc[t] = "start" /\ lock = Free /\ ~stopEvent
  /\ names' = names \cup {t}
  /\ Goto(t, "starting")
  /\ TrialFrame /\ UNCHANGED <<box, lock, outcome, row, expired, crashed, stalled>>

\* Seeded fault: the container is registered once it runs, if ever.
LaunchUnregistered(t) ==
  /\ pc[t] = "start" /\ lock = Free /\ ~stopEvent
  /\ lock' = t
  /\ Goto(t, "starting")
  /\ TrialFrame /\ UNCHANGED <<box, names, outcome, row, expired, crashed, stalled>>

\* Seeded fault: the stop event is checked before the lock is taken.
LaunchUnchecked(t) ==
  /\ pc[t] = "start" /\ lock = Free
  /\ lock' = t /\ names' = names \cup {t}
  /\ Goto(t, "starting")
  /\ TrialFrame /\ UNCHANGED <<box, outcome, row, expired, crashed, stalled>>

\* TrialContainer.start takes the lock and finds no stop event.
Launch(t) ==
  /\ pc[t] = "start" /\ lock = Free /\ ~stopEvent
  /\ lock' = t /\ names' = names \cup {t}
  /\ Goto(t, "starting")
  /\ TrialFrame /\ UNCHANGED <<box, outcome, row, expired, crashed, stalled>>

\* Seeded fault: a refused trial returns past the code that records its status.
RefuseUnrecorded(t) ==
  /\ pc[t] = "start" /\ lock = Free /\ stopEvent
  /\ Say(t, "interrupted") /\ Goto(t, "over")
  /\ RunFrame

\* The stop event is set: start() returns False, nothing is started or stopped.
Refuse(t) ==
  /\ pc[t] = "start" /\ lock = Free /\ stopEvent
  /\ Say(t, "interrupted") /\ Goto(t, "record")
  /\ RunFrame

\* docker run -d succeeds, still under the lock.
DockerRun(t) ==
  /\ pc[t] = "starting"
  /\ SetBox(t, "running") /\ lock' = Free
  /\ Goto(t, "settle")
  /\ TrialFrame /\ UNCHANGED <<names, outcome, row, expired, crashed, stalled>>

\* It raises, leaving a container that was created but did not start or, when
\* the client timed out, one that runs. The name stays registered and nobody
\* stops it: run_one_trial stops only what start() returned True for.
DockerRunFails(t) ==
  /\ pc[t] = "starting"
  /\ \/ SetBox(t, "none") \/ SetBox(t, "exited")
     \/ DockerStalls /\ SetBox(t, "running")
  /\ lock' = Free
  /\ crashed' = crashed \cup {t}
  /\ Say(t, "failed_start") /\ Goto(t, "record")
  /\ TrialFrame /\ UNCHANGED <<names, row, expired, stalled>>

\* Half a second later the container runs ...
StartReturns(t) ==
  /\ pc[t] = "settle" /\ box[t] = "running"
  /\ Goto(t, "monitor")
  /\ RunFrame /\ UNCHANGED outcome

\* ... or it does not: remove it, forget its name, raise.
StartRaises(t) ==
  /\ pc[t] = "settle" /\ box[t] # "running" /\ lock = Free
  /\ SetBox(t, "none") /\ names' = names \ {t}
  /\ Say(t, "failed_start") /\ Goto(t, "record")
  /\ TrialFrame /\ UNCHANGED <<lock, row, expired, crashed, stalled>>

\* docker inspect timed out: start() raises and the container goes on running.
InspectStalls(t) ==
  /\ DockerStalls
  /\ \/ pc[t] = "settle" /\ Say(t, "failed_start") /\ Goto(t, "record")
     \/ pc[t] = "monitor" /\ Say(t, "failed_runtime") /\ Goto(t, "stop")
  /\ stalled' = stalled \cup {t}
  /\ TrialFrame /\ UNCHANGED <<boxVars, row, expired, crashed>>

\* The fuzzer exits by itself.
FuzzerExits(t) ==
  /\ pc[t] \in {"settle", "monitor"} /\ box[t] = "running"
  /\ SetBox(t, "exited")
  /\ crashed' = crashed \cup {t}
  /\ TrialFrame /\ UNCHANGED <<pc, outcome, row, names, lock, expired, stalled>>

Expire(t) ==
  /\ pc[t] = "monitor" /\ t \notin expired
  /\ expired' = expired \cup {t}
  /\ TrialFrame /\ UNCHANGED <<boxVars, pc, outcome, row, crashed, stalled>>

\* The loop of monitor_until_deadline ends.
MonitorEnds(t) ==
  /\ pc[t] = "monitor"
  /\ box[t] # "running" \/ stopEvent \/ t \in expired
  /\ Goto(t, "left")
  /\ RunFrame /\ UNCHANGED outcome

\* Seeded fault: the stop event is not looked at again after the loop.
MonitorForgetsStop(t) ==
  /\ pc[t] = "left"
  /\ IF t \in expired THEN Goto(t, "check") /\ UNCHANGED outcome
     ELSE Goto(t, "stop") /\ Say(t, "failed_runtime")
  /\ RunFrame

\* The code after the loop: a container that is gone is the fuzzer's fault unless
\* the run is stopping or the deadline has passed.
MonitorDecides(t) ==
  /\ pc[t] = "left"
  /\ IF stopEvent \/ t \in expired THEN Goto(t, "check") /\ UNCHANGED outcome
     ELSE Goto(t, "stop") /\ Say(t, "failed_runtime")
  /\ RunFrame

\* scheduler.raise_if_failed()
RaiseIfFailed(t) ==
  /\ pc[t] = "check"
  /\ IF fatal THEN Goto(t, "stop") /\ Say(t, "failed_measurement")
     ELSE Goto(t, "decide") /\ UNCHANGED outcome
  /\ RunFrame

\* Seeded fault: a trial that was cut short counts as done.
OutcomeIgnoresStop(t) ==
  /\ pc[t] = "decide"
  /\ Say(t, "done") /\ Goto(t, "stop")
  /\ RunFrame

\* The else clause of run_one_trial.
Outcome(t) ==
  /\ pc[t] = "decide"
  /\ Say(t, IF stopEvent THEN "interrupted" ELSE "done")
  /\ Goto(t, "stop")
  /\ RunFrame

\* TrialContainer.stop: kill, wait ...
Kill(t) ==
  /\ pc[t] = "stop"
  /\ SetBox(t, IF box[t] = "running" THEN "exited" ELSE box[t])
  /\ Goto(t, "remove")
  /\ TrialFrame /\ UNCHANGED <<outcome, row, names, lock, expired, crashed, stalled>>

\* ... remove, forget the name. A docker wait that stalls skips the removal.
Remove(t) ==
  /\ pc[t] = "remove" /\ lock = Free
  /\ \/ SetBox(t, "none") /\ UNCHANGED stalled
     \/ DockerStalls /\ stalled' = stalled \cup {t} /\ UNCHANGED box
  /\ names' = names \ {t}
  /\ Goto(t, "record")
  /\ TrialFrame /\ UNCHANGED <<lock, outcome, row, expired, crashed>>

\* set_trial_status and unregister; the future is done.
Record(t) ==
  /\ pc[t] = "record"
  /\ row' = [row EXCEPT ![t] = outcome[t]]
  /\ Goto(t, "over")
  /\ TrialFrame /\ UNCHANGED <<boxVars, outcome, expired, crashed, stalled>>

-----------------------------------------------------------------------------
(* The scheduler's fatal error, in the order of _set_fatal_error.           *)

\* Seeded fault: the threads are stopped before they can see why.
FatalStopsFirst ==
  /\ ~fatal /\ main \in TryPhases \cup FinallyPhases
  /\ stopEvent' = TRUE
  /\ UNCHANGED <<trialVars, boxVars, mainVars, fatal>>

SetFatal ==
  /\ ~fatal /\ main \in TryPhases \cup FinallyPhases
  /\ fatal' = TRUE
  /\ UNCHANGED <<trialVars, boxVars, mainVars, stopEvent>>

FatalStops ==
  /\ fatal /\ ~stopEvent
  /\ stopEvent' = TRUE
  /\ UNCHANGED <<trialVars, boxVars, mainVars, fatal>>

-----------------------------------------------------------------------------
(* Sweeps: TrialContainer.force_stop_all_active.                            *)

\* docker ps by label finds every container, unless it stalls; the registered
\* names are removed in any case.
RemoveAll ==
  /\ \/ box' = [t \in Trials |-> "none"]
     \/ DockerStalls /\ box' = [t \in Trials |-> IF t \in names THEN "none" ELSE box[t]]
  /\ names' = {}
  /\ lock' = Free
  /\ swept' = TRUE

CancelQueued ==
  pc' = [t \in Trials |-> IF pc[t] = "queued" THEN "cancelled" ELSE pc[t]]

-----------------------------------------------------------------------------
(* The main thread. It stands still while the handler runs on top of it.    *)

MainGoto(phase) == main' = phase /\ UNCHANGED <<handler, signals, swept>>
MainFrame == UNCHANGED <<outcome, row, expired, crashed, stalled, fatal>>

\* _wait_for_futures: the first failure cancels what has not started and raises.
MainWait ==
  /\ main = "wait" /\ handler = "none"
  /\ \/ /\ \E t \in Trials : pc[t] = "over" /\ outcome[t] \in Failures
        /\ CancelQueued /\ MainGoto("set")
     \/ /\ \A t \in Trials : pc[t] = "over" /\ outcome[t] \notin Failures
        /\ MainGoto("final") /\ UNCHANGED pc
  /\ MainFrame /\ UNCHANGED <<boxVars, stopEvent>>

\* raise_if_failed and the final tick, then the finally block.
MainFinal ==
  /\ main = "final" /\ handler = "none"
  /\ MainGoto(IF fatal THEN "set" ELSE "pool")
  /\ MainFrame /\ UNCHANGED <<pc, boxVars, stopEvent>>

\* The finally block of an interrupted run sets the stop event before it sweeps.
MainSetStop ==
  /\ main = "set" /\ handler = "none"
  /\ stopEvent' = TRUE
  /\ MainGoto("sweep")
  /\ MainFrame /\ UNCHANGED <<pc, boxVars>>

SweepPhases == {"sweep", "failSweep", "exitSweep"}

MainLock ==
  /\ main \in SweepPhases /\ handler = "none" /\ lock = Free
  /\ lock' = Main
  /\ MainFrame /\ UNCHANGED <<pc, box, names, mainVars, stopEvent>>

AfterSweep == [sweep |-> "pool", failSweep |-> "exitSweep", exitSweep |-> "over"]

MainSweep ==
  /\ main \in SweepPhases /\ handler = "none" /\ lock = Main
  /\ RemoveAll
  /\ main' = AfterSweep[main]
  /\ MainFrame /\ UNCHANGED <<pc, handler, signals, stopEvent>>

\* executor.shutdown waits for the pool; nothing is left for it to cancel.
MainPool ==
  /\ main = "pool" /\ handler = "none"
  /\ \A t \in Trials : pc[t] \in Finished
  /\ MainGoto("join")
  /\ MainFrame /\ UNCHANGED <<pc, boxVars, stopEvent>>

\* The scheduler thread is joined; a run without an error so far may raise now.
MainJoin ==
  /\ main = "join" /\ handler = "none" /\ (fatal => stopEvent)
  /\ MainGoto(IF fatal THEN "failSweep" ELSE "exitSweep")
  /\ MainFrame /\ UNCHANGED <<pc, boxVars, stopEvent>>

-----------------------------------------------------------------------------
(* RunShutdown._handle_signal.                                              *)

Handling == main \notin {"over", "exited", "stuck"} /\ signals < Signals
InsideSet == (main = "set" /\ handler = "none") \/ handler = "set"
HandlerFrame == UNCHANGED <<outcome, row, expired, crashed, stalled, fatal>>

\* A first signal enters Event.set.
Signal ==
  /\ Handling /\ ~InsideSet /\ signals = 0
  /\ signals' = 1
  /\ handler' = "set"
  /\ HandlerFrame /\ UNCHANGED <<pc, boxVars, main, swept, stopEvent>>

\* A repeated one sets the event and calls os._exit, which ends every thread.
SignalAgain ==
  /\ Handling /\ ~InsideSet /\ signals > 0
  /\ signals' = signals + 1
  /\ main' = "exited" /\ handler' = "none" /\ stopEvent' = TRUE
  /\ pc' = [t \in Trials |-> IF pc[t] \in Finished THEN pc[t] ELSE "killed"]
  /\ lock' = Free
  /\ HandlerFrame /\ UNCHANGED <<box, names, swept>>

\* Event.set is not reentrant: the handler waits for the event's own lock, which
\* the code underneath it holds.
SignalBlocks ==
  /\ Handling /\ InsideSet
  /\ signals' = signals + 1
  /\ main' = "stuck" /\ handler' = "none"
  /\ stopEvent' \in {stopEvent, TRUE}
  /\ HandlerFrame /\ UNCHANGED <<pc, boxVars, swept>>

\* A repeated signal blocks in the same place.
SignalLost ==
  /\ main = "stuck" /\ signals < Signals
  /\ signals' = signals + 1
  /\ HandlerFrame /\ UNCHANGED <<pc, boxVars, main, handler, swept, stopEvent>>

HandlerSet ==
  /\ handler = "set"
  /\ stopEvent' = TRUE
  /\ handler' = "lock"
  /\ HandlerFrame /\ UNCHANGED <<pc, boxVars, main, signals, swept>>

\* Seeded fault: a plain Lock in place of the RLock.
HandlerLockPlain ==
  /\ handler = "lock" /\ lock = Free
  /\ lock' = Main
  /\ handler' = "sweep"
  /\ HandlerFrame /\ UNCHANGED <<pc, box, names, main, signals, swept, stopEvent>>

\* The lock is reentrant: the handler may interrupt the main thread's own sweep.
HandlerLock ==
  /\ handler = "lock" /\ lock \in {Free, Main}
  /\ lock' = Main
  /\ handler' = "sweep"
  /\ HandlerFrame /\ UNCHANGED <<pc, box, names, main, signals, swept, stopEvent>>

\* After the sweep the handler raises: the except clause of the try block cancels
\* what has not started; elsewhere the exception leaves _run_live_experiment.
HandlerSweep ==
  /\ handler = "sweep"
  /\ RemoveAll
  /\ handler' = "none"
  /\ \/ main \in TryPhases /\ main' = "set" /\ CancelQueued
     \/ main \in FinallyPhases \cup {"failSweep"} /\ main' = "exitSweep" /\ UNCHANGED pc
     \/ main = "exitSweep" /\ main' = "over" /\ UNCHANGED pc
  /\ HandlerFrame /\ UNCHANGED <<signals, stopEvent>>

-----------------------------------------------------------------------------
TrialStep(t) ==
  \/ Prepare(t) \/ Launch(t) \/ Refuse(t) \/ DockerRun(t) \/ StartReturns(t)
  \/ StartRaises(t) \/ Expire(t) \/ MonitorEnds(t) \/ MonitorDecides(t)
  \/ RaiseIfFailed(t) \/ Outcome(t) \/ Kill(t) \/ Remove(t) \/ Record(t)
MainStep ==
  \/ MainWait \/ MainFinal \/ MainSetStop \/ MainLock \/ MainSweep
  \/ MainPool \/ MainJoin \/ HandlerSet \/ HandlerLock \/ HandlerSweep
Disturbance ==
  \/ \E t \in Trials : DockerRunFails(t) \/ InspectStalls(t) \/ FuzzerExits(t)
  \/ SetFatal
  \/ Signal \/ SignalAgain \/ SignalBlocks \/ SignalLost

\* The process is gone, at the end of the program or by os._exit.
ProcessOver ==
  \/ main = "exited"
  \/ main = "over" /\ \A t \in Trials : pc[t] \in Finished

Terminating == ProcessOver /\ UNCHANGED vars

Next ==
  \/ \E t \in Trials : TrialStep(t)
  \/ MainStep
  \/ FatalStops
  \/ Disturbance
  \/ Terminating

Spec == Init /\ [][Next]_vars

\* Threads keep running, docker commands return, deadlines pass.
Fairness ==
  /\ \A t \in Trials : WF_vars(TrialStep(t))
  /\ WF_vars(MainStep)
  /\ WF_vars(FatalStops)

FairSpec == Spec /\ Fairness

-----------------------------------------------------------------------------
(* Properties.                                                              *)

PcLabels ==
  {"queued", "start", "starting", "settle", "monitor", "left", "check", "decide",
   "stop", "remove", "record", "over", "cancelled", "killed"}
Outcomes == {"none", "interrupted", "done"} \cup Failures

\* Every variable has its type; a thread at a labelled step holds the lock there.
TypeOK ==
  /\ pc \in [Trials -> PcLabels]
  /\ outcome \in [Trials -> Outcomes]
  /\ row \in [Trials -> Outcomes \cup {"running"}]
  /\ box \in [Trials -> {"none", "running", "exited"}]
  /\ names \in SUBSET Trials
  /\ lock \in Trials \cup {Free, Main}
  /\ \A t \in Trials : lock = t <=> pc[t] = "starting"
  /\ expired \in SUBSET Trials /\ crashed \in SUBSET Trials /\ stalled \in SUBSET Trials
  /\ stopEvent \in BOOLEAN /\ fatal \in BOOLEAN /\ swept \in BOOLEAN
  /\ main \in TryPhases \cup FinallyPhases \cup LatePhases \cup {"over", "exited", "stuck"}
  /\ handler \in {"none", "set", "lock", "sweep"}
  /\ signals \in 0..Signals

\* No fuzzer survives a sweep and none starts after it: a start that passed the
\* stop check holds the lock until its container exists and is registered, so a
\* sweep sees either the container or a trial that will refuse. docker ps may
\* even have failed, because the registered names are removed on their own.
NothingRunsAfterSweep ==
  swept => \A t \in Trials : box[t] # "running" /\ pc[t] # "starting"

\* Every running container is known to the sweeps by name at all times.
RunningIsRegistered == \A t \in Trials : box[t] = "running" => t \in names

\* The inductive invariant behind the two: who is inside docker run holds the lock
\* and is registered, whoever sweeps holds it too, and by then either the stop
\* event is set or every trial is over.
AllFinished == \A t \in Trials : pc[t] \in Finished
SweepInv ==
  /\ TypeOK /\ RunningIsRegistered /\ NothingRunsAfterSweep
  /\ \A t \in Trials : /\ pc[t] = "starting" => t \in names
                       /\ pc[t] = "remove" => box[t] # "running"
  /\ handler = "sweep" => lock = Main
  /\ handler \in {"lock", "sweep"} \/ main = "sweep" => stopEvent
  /\ main \in {"join", "failSweep"} => AllFinished
  /\ main = "exitSweep" \/ swept => stopEvent \/ AllFinished

\* A fuzzer the run itself removed is never blamed for exiting early. (The same
\* does not hold for failed_start: see the hazards.)
BlameIsDeserved ==
  \A t \in Trials : row[t] = "failed_runtime" => t \in crashed \cup stalled

\* A trial reported as done fuzzed until its deadline.
DoneIsComplete == \A t \in Trials : row[t] = "done" => t \in expired

\* The inductive invariant behind the two: until the stop event is set, a container
\* that is gone went by itself and a thread past its loop has had its full time.
BlameInv ==
  /\ SweepInv /\ BlameIsDeserved /\ DoneIsComplete
  /\ \A t \in Trials :
       /\ outcome[t] = "failed_runtime" => t \in crashed \cup stalled
       /\ outcome[t] = "done" => t \in expired
       /\ pc[t] \in {"settle", "monitor"} /\ box[t] # "running" => stopEvent \/ t \in crashed
       /\ pc[t] = "left" => stopEvent \/ t \in crashed \cup expired
       /\ pc[t] \in {"check", "decide"} => stopEvent \/ t \in expired

\* A running trial that a fatal measurement error cut short is not reported as a
\* plain interruption: a signal or another trial's own failure stopped it, or it
\* had its full time.
InterruptionHasCause ==
  [][\A t \in Trials :
       pc[t] = "decide" /\ outcome'[t] = "interrupted" =>
         \/ signals > 0 \/ t \in expired
         \/ \E s \in Trials : outcome[s] \in {"failed_start", "failed_runtime"}]_vars

\* When the program ends, whichever way a first signal or a failure went through
\* it, no row still says running and no container is left; only one that a docker
\* time-out kept from being removed may be, and that one does not run.
NothingLeftBehind ==
  main = "over" /\ ProcessOver =>
    \A t \in Trials :
      /\ row[t] # "running"
      /\ box[t] = "none" \/ (box[t] = "exited" /\ t \in stalled)

\* The inductive invariant behind it. After a sweep no name is registered any more, so
\* an exited container is on the sweeps' list or was given up by its own thread.
LeftInv ==
  /\ SweepInv
  /\ \A t \in Trials :
       /\ pc[t] \in {"queued", "cancelled", "over"} => row[t] # "running"
       /\ box[t] = "exited" => t \in names \cup stalled
  /\ swept => names = {}
  /\ main = "over" => swept

\* The inductive invariant behind InterruptionHasCause: the stop event has a cause, and a
\* thread that has looked at the scheduler's error found another one.
StopCause == signals > 0 \/ \E s \in Trials : outcome[s] \in {"failed_start", "failed_runtime"}
CauseInv ==
  /\ BlameInv
  /\ stopEvent \/ main = "set" => fatal \/ StopCause
  /\ handler # "none" => signals > 0
  /\ \A t \in Trials :
       /\ outcome[t] \in Failures => pc[t] \in {"stop", "remove", "record", "over", "killed"}
       /\ outcome[t] = "failed_measurement" => fatal
       /\ pc[t] = "decide" => t \in expired \/ StopCause

\* Once one signal was delivered, or a trial failed, the program ends, unless a
\* signal caught the main thread inside Event.set (RunShutdown._handle_signal).
StopLeadsToEnd ==
  signals > 0 \/ (\E t \in Trials : outcome[t] \in Failures) ~>
    ProcessOver \/ main = "stuck"
=============================================================================
