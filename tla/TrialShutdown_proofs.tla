------------------------- MODULE TrialShutdown_proofs -------------------------
(***************************************************************************)
(* Proofs about TrialShutdown, for any number of trials and signals: no    *)
(* container runs after a sweep and every running one is registered with   *)
(* the sweeps (SweepInv); the recorded status of a trial is true           *)
(* (BlameInv); nothing is left when the program ends (LeftInv); and an     *)
(* interruption has a cause other than a measurement error (CauseInv).     *)
(***************************************************************************)
EXTENDS TrialShutdown, TLAPS

\* The two lock tokens are distinct and neither is a trial.
LEMMA Tokens == Free \notin Trials /\ Main \notin Trials /\ Free # Main
  BY ShutdownAssumption DEF Free, Main

LEMMA InitInv == Init => SweepInv
<1> SUFFICES ASSUME Init PROVE SweepInv
  OBVIOUS
<1>1. TypeOK
  <2>1. pc \in [Trials -> PcLabels] /\ outcome \in [Trials -> Outcomes]
    BY DEF Init, PcLabels, Outcomes
  <2>2. row \in [Trials -> Outcomes \cup {"running"}]
    BY DEF Init, Outcomes
  <2>3. box \in [Trials -> {"none", "running", "exited"}]
    BY DEF Init
  <2>4. \A t \in Trials : lock = t <=> pc[t] = "starting"
    BY Tokens DEF Init
  <2>5. signals \in 0..Signals
    BY ShutdownAssumption DEF Init
  <2> QED
    BY <2>1, <2>2, <2>3, <2>4, <2>5
       DEF Init, TypeOK, TryPhases, FinallyPhases, LatePhases
<1> QED
  BY <1>1 DEF Init, SweepInv, RunningIsRegistered, NothingRunsAfterSweep

-----------------------------------------------------------------------------
(* Steps of a trial thread. A step of trial t needs a pc[t] that is not     *)
(* Finished, so with ~stopEvent no sweep can have happened yet.             *)

LEMMA LaunchInv ==
  ASSUME SweepInv, NEW t \in Trials, Launch(t)
  PROVE  SweepInv'
<1> USE DEF Launch, Goto, TrialFrame, mainVars, flagVars
<1>1. TypeOK'
  BY Tokens DEF SweepInv, TypeOK, PcLabels
<1>2. ~AllFinished /\ ~swept /\ ~AllFinished'
  BY DEF SweepInv, AllFinished, Finished, TypeOK
<1> QED
  BY <1>1, <1>2, Tokens DEF SweepInv, TypeOK, RunningIsRegistered, NothingRunsAfterSweep

LEMMA DockerRunInv ==
  ASSUME SweepInv, NEW t \in Trials, DockerRun(t) \/ DockerRunFails(t)
  PROVE  SweepInv'
<1> USE DEF DockerRun, DockerRunFails, Goto, Say, SetBox, TrialFrame, mainVars, flagVars
<1>1. TypeOK'
  BY Tokens DEF SweepInv, TypeOK, PcLabels, Outcomes, Failures
<1>2. t \in names /\ ~swept /\ ~AllFinished /\ ~AllFinished'
  BY DEF SweepInv, AllFinished, Finished, TypeOK, NothingRunsAfterSweep
<1> QED
  BY <1>1, <1>2, Tokens DEF SweepInv, TypeOK, RunningIsRegistered, NothingRunsAfterSweep

\* The thread's own removal: the container it forgets does not run.
LEMMA RemoveInv ==
  ASSUME SweepInv, NEW t \in Trials,
         StartRaises(t) \/ FuzzerExits(t) \/ Kill(t) \/ Remove(t)
  PROVE  SweepInv'
<1> USE DEF StartRaises, FuzzerExits, Kill, Remove, Goto, Say, SetBox, TrialFrame,
            mainVars, flagVars
<1>1. TypeOK'
  BY Tokens DEF SweepInv, TypeOK, PcLabels, Outcomes, Failures
<1>2. ~AllFinished /\ ~AllFinished'
  BY DEF SweepInv, AllFinished, Finished, TypeOK
<1>3. RunningIsRegistered' /\ NothingRunsAfterSweep'
  BY DEF SweepInv, TypeOK, RunningIsRegistered, NothingRunsAfterSweep
<1>4. \A s \in Trials : /\ pc'[s] = "starting" => s \in names'
                        /\ pc'[s] = "remove" => box'[s] # "running"
  BY DEF SweepInv, TypeOK
<1> QED
  BY <1>1, <1>2, <1>3, <1>4 DEF SweepInv

\* Steps that touch no container, no name and no lock.
LEMMA QuietInv ==
  ASSUME SweepInv, NEW t \in Trials,
         \/ Prepare(t) \/ Refuse(t) \/ StartReturns(t) \/ InspectStalls(t)
         \/ Expire(t) \/ MonitorEnds(t) \/ MonitorDecides(t) \/ RaiseIfFailed(t)
         \/ Outcome(t) \/ Record(t)
  PROVE  SweepInv'
<1> USE DEF Prepare, Refuse, StartReturns, InspectStalls, Expire, MonitorEnds,
            MonitorDecides, RaiseIfFailed, Outcome, Record, Goto, Say, TrialFrame,
            RunFrame, mainVars, flagVars, boxVars
<1>1. /\ UNCHANGED <<box, names, lock, stopEvent, fatal, main, handler, signals, swept>>
      /\ pc' \in [Trials -> PcLabels]
      /\ \A s \in Trials : /\ pc'[s] = "starting" <=> pc[s] = "starting"
                           /\ pc'[s] = "remove" => pc[s] = "remove"
                           /\ pc[s] \in Finished => pc'[s] \in Finished
  BY DEF SweepInv, TypeOK, PcLabels, Finished
<1>2. /\ outcome' \in [Trials -> Outcomes]
      /\ row' \in [Trials -> Outcomes \cup {"running"}]
      /\ expired' \in SUBSET Trials /\ crashed' \in SUBSET Trials
      /\ stalled' \in SUBSET Trials
  BY DEF SweepInv, TypeOK, Outcomes, Failures
<1>3. TypeOK'
  BY <1>1, <1>2 DEF SweepInv, TypeOK
<1>4. RunningIsRegistered' /\ NothingRunsAfterSweep' /\ (AllFinished => AllFinished')
  BY <1>1 DEF SweepInv, RunningIsRegistered, NothingRunsAfterSweep, AllFinished
<1> QED
  BY <1>1, <1>3, <1>4 DEF SweepInv

-----------------------------------------------------------------------------
(* Steps of the main thread, of the handler on top of it, and of a fatal    *)
(* error.                                                                   *)

\* Whoever sweeps holds the lock, so no trial is inside docker run.
LEMMA RemoveAllInv ==
  ASSUME SweepInv, RemoveAll, lock = Main,
         pc' \in [Trials -> PcLabels],
         \A s \in Trials : /\ pc'[s] \in {pc[s], "cancelled"}
                           /\ pc[s] \in Finished => pc'[s] \in Finished
  PROVE  /\ box' \in [Trials -> {"none", "exited"}]
         /\ names' = {} /\ lock' = Free /\ swept' = TRUE
         /\ \A s \in Trials : pc'[s] # "starting" /\ lock' # s
         /\ RunningIsRegistered' /\ NothingRunsAfterSweep'
         /\ AllFinished => AllFinished'
<1>1. \A s \in Trials : pc'[s] # "starting"
  BY Tokens DEF SweepInv, TypeOK
<1>2. box' \in [Trials -> {"none", "exited"}]
  BY DEF RemoveAll, SweepInv, TypeOK, RunningIsRegistered
<1>3. RunningIsRegistered' /\ NothingRunsAfterSweep'
  BY <1>1, <1>2 DEF RunningIsRegistered, NothingRunsAfterSweep
<1> QED
  BY <1>1, <1>2, <1>3, Tokens DEF RemoveAll, AllFinished

LEMMA SweepStepInv ==
  ASSUME SweepInv, MainSweep \/ HandlerSweep
  PROVE  SweepInv'
<1> USE DEF MainFrame, HandlerFrame, SweepPhases, TryPhases, FinallyPhases, LatePhases
<1>1. lock = Main /\ RemoveAll
  BY DEF MainSweep, HandlerSweep, SweepInv
<1>2. /\ pc' \in [Trials -> PcLabels]
      /\ \A s \in Trials : /\ pc'[s] \in {pc[s], "cancelled"}
                           /\ pc[s] \in Finished => pc'[s] \in Finished
  BY DEF MainSweep, HandlerSweep, CancelQueued, SweepInv, TypeOK, PcLabels, Finished
<1>3. /\ box' \in [Trials -> {"none", "exited"}]
      /\ names' = {} /\ lock' = Free /\ swept' = TRUE
      /\ \A s \in Trials : pc'[s] # "starting" /\ lock' # s
      /\ RunningIsRegistered' /\ NothingRunsAfterSweep'
      /\ AllFinished => AllFinished'
  BY <1>1, <1>2, RemoveAllInv
<1>4. /\ main' \in TryPhases \cup FinallyPhases \cup LatePhases \cup {"over"}
      /\ main' \notin {"sweep", "join", "failSweep"}
      /\ handler' = "none"
      /\ stopEvent \/ AllFinished
      /\ UNCHANGED <<stopEvent, signals, fatal, outcome, row, expired, crashed, stalled>>
  BY DEF MainSweep, HandlerSweep, AfterSweep, SweepInv
<1>5. TypeOK'
  BY <1>2, <1>3, <1>4 DEF SweepInv, TypeOK
<1> QED
  BY <1>2, <1>3, <1>4, <1>5 DEF SweepInv, TypeOK

\* Steps of the main thread and its handler that remove no container.
LEMMA MainInv ==
  ASSUME SweepInv,
         MainWait \/ MainFinal \/ MainSetStop \/ MainPool \/ MainJoin \/ HandlerSet
  PROVE  SweepInv'
<1> USE DEF MainWait, MainFinal, MainSetStop, MainPool, MainJoin, MainGoto, MainFrame,
            HandlerSet, HandlerFrame, TryPhases, FinallyPhases, LatePhases, boxVars
<1>1. UNCHANGED <<box, names, lock, fatal, swept, signals, outcome, row, expired,
                  crashed, stalled>>
  OBVIOUS
<1>2. /\ stopEvent' \in BOOLEAN /\ (stopEvent => stopEvent')
      /\ handler' \in {"none", "lock"}
      /\ handler' = "lock" \/ main' = "sweep" => stopEvent'
  BY DEF SweepInv, TypeOK
<1>3. /\ pc' \in [Trials -> PcLabels]
      /\ \A s \in Trials : /\ pc'[s] \in {pc[s], "cancelled"}
                           /\ pc[s] = "starting" => pc'[s] = "starting"
                           /\ pc[s] \in Finished => pc'[s] \in Finished
  <2>1. pc' = pc \/ CancelQueued
    OBVIOUS
  <2> QED
    BY <2>1 DEF CancelQueued, SweepInv, TypeOK, PcLabels, Finished
<1>4. /\ main' \in TryPhases \cup FinallyPhases \cup LatePhases \cup {"over", "exited", "stuck"}
      /\ main' \in {"join", "failSweep"} => AllFinished
      /\ main' = "exitSweep" => stopEvent \/ AllFinished
  BY DEF SweepInv, TypeOK, AllFinished
<1>5. TypeOK'
  BY <1>1, <1>2, <1>3, <1>4 DEF SweepInv, TypeOK
<1>6. RunningIsRegistered' /\ NothingRunsAfterSweep' /\ (AllFinished => AllFinished')
  BY <1>1, <1>3 DEF SweepInv, RunningIsRegistered, NothingRunsAfterSweep, AllFinished
<1>7. \A s \in Trials : /\ pc'[s] = "starting" => s \in names'
                        /\ pc'[s] = "remove" => box'[s] # "running"
  BY <1>1, <1>3 DEF SweepInv
<1> QED
  BY <1>1, <1>2, <1>4, <1>5, <1>6, <1>7 DEF SweepInv

LEMMA SignalInv ==
  ASSUME SweepInv, Signal \/ SignalBlocks \/ SignalLost
  PROVE  SweepInv'
<1> USE DEF Signal, SignalBlocks, SignalLost, HandlerFrame, Handling, boxVars
<1>1. /\ UNCHANGED <<pc, box, names, lock, fatal, swept, outcome, row, expired,
                     crashed, stalled>>
      /\ stopEvent' \in BOOLEAN /\ (stopEvent => stopEvent')
      /\ handler' \in {"none", "set"} \/ (handler' = handler /\ stopEvent' = stopEvent)
      /\ main' = "stuck" \/ (main' = main /\ stopEvent' = stopEvent)
  BY DEF SweepInv, TypeOK
<1>2. signals \in 0..Signals /\ Signals \in Nat
  BY ShutdownAssumption DEF SweepInv, TypeOK
<1>3. signals' \in 0..Signals
  <2>1. CASE Signal
    BY <1>2, <2>1
  <2>2. CASE SignalBlocks \/ SignalLost
    <3>1. signals' = signals + 1 /\ signals < Signals
      BY <2>2
    <3> QED
      BY <1>2, <3>1
  <2> QED
    BY <2>1, <2>2
<1>4. TypeOK'
  BY <1>1, <1>3 DEF SweepInv, TypeOK
<1> QED
  BY <1>1, <1>4 DEF SweepInv, RunningIsRegistered, NothingRunsAfterSweep, AllFinished

\* Taking the lock for a sweep: free, or the main thread's own under the handler.
LEMMA LockInv ==
  ASSUME SweepInv, MainLock \/ HandlerLock
  PROVE  SweepInv'
<1> USE DEF MainLock, HandlerLock, MainFrame, HandlerFrame, mainVars
<1>1. TypeOK'
  BY Tokens DEF SweepInv, TypeOK
<1> QED
  BY <1>1 DEF SweepInv, RunningIsRegistered, NothingRunsAfterSweep, AllFinished

\* A fatal measurement error sets two flags, one after the other.
LEMMA FlagInv ==
  ASSUME SweepInv, SetFatal \/ FatalStops
  PROVE  SweepInv'
<1> USE DEF SetFatal, FatalStops, trialVars, boxVars, mainVars
<1>1. TypeOK'
  BY DEF SweepInv, TypeOK
<1> QED
  BY <1>1 DEF SweepInv, RunningIsRegistered, NothingRunsAfterSweep, AllFinished

\* os._exit ends every thread with the stop event set.
LEMMA ExitInv ==
  ASSUME SweepInv, SignalAgain
  PROVE  SweepInv'
<1> USE DEF SignalAgain, Handling, HandlerFrame
<1>1. /\ pc' \in [Trials -> PcLabels]
      /\ \A s \in Trials : pc'[s] \notin {"starting", "remove"}
  BY DEF SweepInv, TypeOK, PcLabels, Finished
<1>2. signals' \in 0..Signals
  BY ShutdownAssumption DEF SweepInv, TypeOK
<1>3. TypeOK'
  BY <1>1, <1>2, Tokens DEF SweepInv, TypeOK
<1> QED
  BY <1>1, <1>3 DEF SweepInv, RunningIsRegistered, NothingRunsAfterSweep

LEMMA NextInv == SweepInv /\ [Next]_vars => SweepInv'
<1> SUFFICES ASSUME SweepInv, [Next]_vars PROVE SweepInv'
  OBVIOUS
<1>1. ASSUME NEW t \in Trials,
             TrialStep(t) \/ DockerRunFails(t) \/ InspectStalls(t) \/ FuzzerExits(t)
      PROVE  SweepInv'
  BY <1>1, LaunchInv, DockerRunInv, RemoveInv, QuietInv DEF TrialStep
<1>2. CASE MainStep \/ FatalStops \/ SetFatal
  BY <1>2, MainInv, LockInv, SweepStepInv, FlagInv DEF MainStep
<1>3. CASE Signal \/ SignalAgain \/ SignalBlocks \/ SignalLost
  BY <1>3, SignalInv, ExitInv
<1>4. CASE UNCHANGED vars
  BY <1>4 DEF vars, trialVars, boxVars, mainVars, flagVars, SweepInv, TypeOK,
         RunningIsRegistered, NothingRunsAfterSweep, AllFinished
<1> QED
  BY <1>1, <1>2, <1>3, <1>4 DEF Next, Disturbance, Terminating

-----------------------------------------------------------------------------

\* The inductive invariant holds in every reachable state of a run that is stopped
\* (trial/runtime.py:TrialContainer, run/shutdown.py, run/runner.py).
THEOREM SweepInvHolds == Spec => []SweepInv
  BY InitInv, NextInv, PTL DEF Spec

\* Every variable keeps its type, and the threads hold the lock where they should.
THEOREM TypeCorrect == Spec => []TypeOK
<1>1. SweepInv => TypeOK
  BY DEF SweepInv
<1> QED
  BY <1>1, SweepInvHolds, PTL

\* Once a sweep has removed the containers no fuzzer runs and none is starting,
\* however the signal handler, the main thread and the trial threads interleave.
THEOREM NothingRuns == Spec => []NothingRunsAfterSweep
<1>1. SweepInv => NothingRunsAfterSweep
  BY DEF SweepInv
<1> QED
  BY <1>1, SweepInvHolds, PTL

\* Every running container is registered, so a sweep finds it without docker ps.
THEOREM RunningRegistered == Spec => []RunningIsRegistered
<1>1. SweepInv => RunningIsRegistered
  BY DEF SweepInv
<1> QED
  BY <1>1, SweepInvHolds, PTL

-----------------------------------------------------------------------------
(* What is recorded of a trial.                                             *)

\* A trial's own step keeps the record of every trial.
LEMMA BlameTrialStep ==
  ASSUME BlameInv, NEW t \in Trials,
         TrialStep(t) \/ DockerRunFails(t) \/ InspectStalls(t) \/ FuzzerExits(t), SweepInv'
  PROVE  BlameInv'
<1> USE DEF Goto, Say, SetBox, TrialFrame, RunFrame, mainVars, flagVars, boxVars
<1>1. TypeOK
  BY DEF BlameInv, SweepInv
<1>2. CASE Prepare(t) \/ Record(t) \/ Refuse(t) \/ Outcome(t)
  BY <1>1, <1>2 DEF Prepare, Record, Refuse, Outcome, BlameInv, BlameIsDeserved,
     DoneIsComplete, TypeOK
<1>3. CASE Launch(t) \/ DockerRun(t) \/ DockerRunFails(t) \/ StartReturns(t)
           \/ StartRaises(t) \/ FuzzerExits(t)
  BY <1>1, <1>3 DEF Launch, DockerRun, DockerRunFails, StartReturns, StartRaises, FuzzerExits,
     BlameInv, BlameIsDeserved, DoneIsComplete, TypeOK
<1>4. CASE Expire(t) \/ InspectStalls(t) \/ MonitorEnds(t)
  BY <1>1, <1>4 DEF Expire, InspectStalls, MonitorEnds, BlameInv, BlameIsDeserved,
     DoneIsComplete, TypeOK
<1>5. CASE MonitorDecides(t) \/ RaiseIfFailed(t) \/ Kill(t) \/ Remove(t)
  BY <1>1, <1>5 DEF MonitorDecides, RaiseIfFailed, Kill, Remove, BlameInv, BlameIsDeserved,
     DoneIsComplete, TypeOK
<1> QED
  BY <1>2, <1>3, <1>4, <1>5 DEF TrialStep

\* Steps of the other threads: none writes a row, and a container is removed only
\* when the stop event is set or no trial is left to blame for it.
LEMMA BlameOtherStep ==
  ASSUME BlameInv, SweepInv', UNCHANGED <<outcome, row, expired, crashed, stalled>>,
         stopEvent => stopEvent',
         \A t \in Trials : pc'[t] \in {pc[t], "cancelled", "killed"},
         box' = box \/ stopEvent \/ AllFinished
  PROVE  BlameInv'
<1>1. BlameIsDeserved' /\ DoneIsComplete'
  BY DEF BlameInv, BlameIsDeserved, DoneIsComplete
<1>2. ASSUME NEW t \in Trials
      PROVE  /\ outcome'[t] = "failed_runtime" => t \in (crashed \cup stalled)'
             /\ outcome'[t] = "done" => t \in expired'
             /\ pc'[t] \in {"settle", "monitor"} /\ box'[t] # "running"
                  => stopEvent' \/ t \in crashed'
             /\ pc'[t] = "left" => stopEvent' \/ t \in (crashed \cup expired)'
             /\ pc'[t] \in {"check", "decide"} => stopEvent' \/ t \in expired'
  BY DEF BlameInv, AllFinished, Finished
<1> QED
  BY <1>1, <1>2 DEF BlameInv

LEMMA BlameNext == BlameInv /\ [Next]_vars => BlameInv'
<1> SUFFICES ASSUME BlameInv, [Next]_vars PROVE BlameInv'
  OBVIOUS
<1>1. SweepInv /\ SweepInv'
  BY NextInv DEF BlameInv
<1>2. ASSUME NEW t \in Trials,
             TrialStep(t) \/ DockerRunFails(t) \/ InspectStalls(t) \/ FuzzerExits(t)
      PROVE  BlameInv'
  BY <1>1, <1>2, BlameTrialStep
<1>3. CASE MainSweep \/ HandlerSweep
  <2>1. stopEvent \/ AllFinished
    BY <1>1, <1>3 DEF MainSweep, HandlerSweep, SweepPhases, SweepInv
  <2>2. /\ UNCHANGED <<outcome, row, expired, crashed, stalled, stopEvent>>
        /\ pc' = pc \/ CancelQueued
    BY <1>3 DEF MainSweep, HandlerSweep, MainFrame, HandlerFrame
  <2> QED
    BY <1>1, <2>1, <2>2, BlameOtherStep DEF CancelQueued, SweepInv, TypeOK
<1>4. CASE \/ MainWait \/ MainFinal \/ MainSetStop \/ MainLock \/ MainPool \/ MainJoin
           \/ HandlerSet \/ HandlerLock \/ FatalStops \/ SetFatal
           \/ Signal \/ SignalAgain \/ SignalBlocks \/ SignalLost
  <2>1. /\ UNCHANGED <<outcome, row, expired, crashed, stalled, box>>
        /\ stopEvent => stopEvent'
    BY <1>1, <1>4 DEF MainWait, MainFinal, MainSetStop, MainLock, MainPool, MainJoin, HandlerSet,
       HandlerLock, FatalStops, SetFatal, Signal, SignalAgain, SignalBlocks, SignalLost,
       MainFrame, MainGoto, HandlerFrame, boxVars, trialVars, SweepInv, TypeOK
  <2>2. pc' = pc \/ CancelQueued \/ SignalAgain
    BY <1>4 DEF MainWait, MainFinal, MainSetStop, MainLock, MainPool, MainJoin, HandlerSet,
       HandlerLock, FatalStops, SetFatal, Signal, SignalBlocks, SignalLost, trialVars
  <2>3. \A t \in Trials : pc'[t] \in {pc[t], "cancelled", "killed"}
    BY <2>2 DEF CancelQueued, SignalAgain
  <2> QED
    BY <1>1, <2>1, <2>3, BlameOtherStep
<1>5. CASE UNCHANGED vars
  <2>1. UNCHANGED <<pc, outcome, row, expired, crashed, stalled, box, stopEvent>>
    BY <1>5 DEF vars, trialVars, boxVars, flagVars
  <2> QED
    BY <1>1, <2>1, BlameOtherStep
<1> QED
  BY <1>2, <1>3, <1>4, <1>5 DEF Next, MainStep, Disturbance, Terminating

LEMMA BlameInit == Init => BlameInv
  BY InitInv DEF Init, BlameInv, BlameIsDeserved, DoneIsComplete

\* The inductive invariant holds in every reachable state.
THEOREM BlameInvHolds == Spec => []BlameInv
  BY BlameInit, BlameNext, PTL DEF Spec

\* A fuzzer the run itself removed is never recorded as having failed
\* (trial/runtime.py:monitor_until_deadline).
THEOREM BlameDeserved == Spec => []BlameIsDeserved
<1>1. BlameInv => BlameIsDeserved
  BY DEF BlameInv
<1> QED
  BY <1>1, BlameInvHolds, PTL

\* A trial is recorded as done only after its deadline (trial/runner.py:run_one_trial).
THEOREM DoneComplete == Spec => []DoneIsComplete
<1>1. BlameInv => DoneIsComplete
  BY DEF BlameInv
<1> QED
  BY <1>1, BlameInvHolds, PTL

-----------------------------------------------------------------------------
(* What is left when the program is over.                                   *)

\* A trial's own step: it writes its row last, and no name is added after a sweep.
LEMMA LeftTrialStep ==
  ASSUME LeftInv, NEW t \in Trials,
         TrialStep(t) \/ DockerRunFails(t) \/ InspectStalls(t) \/ FuzzerExits(t), SweepInv'
  PROVE  LeftInv'
<1> USE DEF Goto, Say, SetBox, TrialFrame, RunFrame, mainVars, flagVars, boxVars
<1>1. TypeOK /\ RunningIsRegistered
  BY DEF LeftInv, SweepInv
<1>2. UNCHANGED <<main, swept>> /\ (names' \subseteq names \/ Launch(t))
  BY DEF TrialStep, Prepare, Launch, Refuse, DockerRun, StartReturns, StartRaises, Expire,
     MonitorEnds, MonitorDecides, RaiseIfFailed, Outcome, Kill, Remove, Record, DockerRunFails,
     InspectStalls, FuzzerExits
<1>3. swept => names' = {}
  <2>1. Launch(t) => ~swept
    BY <1>1 DEF Launch, LeftInv, SweepInv, AllFinished, Finished
  <2> QED
    BY <1>2, <2>1 DEF LeftInv
<1>4. \A s \in Trials : pc'[s] \in {"queued", "cancelled", "over"} => row'[s] # "running"
  <2>1. CASE Prepare(t) \/ Record(t)
    BY <1>1, <2>1 DEF Prepare, Record, LeftInv, TypeOK, Outcomes, Failures
  <2>2. CASE ~(Prepare(t) \/ Record(t))
    <3>1. /\ row' = row /\ \A s \in Trials \ {t} : pc'[s] = pc[s]
          /\ pc'[t] = pc[t] \/ pc'[t] \notin {"queued", "cancelled", "over"}
      BY <1>1, <2>2 DEF TrialStep, Launch, Refuse, DockerRun, StartReturns, StartRaises, Expire,
         MonitorEnds, MonitorDecides, RaiseIfFailed, Outcome, Kill, Remove, DockerRunFails,
         InspectStalls, FuzzerExits, TypeOK
    <3> QED
      BY <3>1 DEF LeftInv
  <2> QED
    BY <2>1, <2>2
<1>5. \A s \in Trials : box'[s] = "exited" => s \in names' \cup stalled'
  <2>1. CASE DockerRunFails(t)
    BY <1>1, <2>1 DEF DockerRunFails, LeftInv, SweepInv, TypeOK
  <2>2. CASE StartRaises(t) \/ Remove(t)
    BY <1>1, <2>2 DEF StartRaises, Remove, LeftInv, TypeOK
  <2>3. CASE FuzzerExits(t) \/ Kill(t)
    BY <1>1, <2>3 DEF FuzzerExits, Kill, LeftInv, TypeOK, RunningIsRegistered
  <2>4. CASE Launch(t) \/ DockerRun(t)
    BY <1>1, <2>4 DEF Launch, DockerRun, LeftInv, TypeOK
  <2>5. CASE \/ Prepare(t) \/ Refuse(t) \/ StartReturns(t) \/ Expire(t) \/ MonitorEnds(t)
             \/ MonitorDecides(t) \/ RaiseIfFailed(t) \/ Outcome(t) \/ Record(t)
             \/ InspectStalls(t)
    <3>1. UNCHANGED <<box, names>> /\ stalled \subseteq stalled'
      BY <2>5 DEF Prepare, Refuse, StartReturns, Expire, MonitorEnds, MonitorDecides,
         RaiseIfFailed, Outcome, Record, InspectStalls
    <3> QED
      BY <3>1 DEF LeftInv
  <2> QED
    BY <2>1, <2>2, <2>3, <2>4, <2>5 DEF TrialStep
<1> QED
  BY <1>2, <1>3, <1>4, <1>5 DEF LeftInv

\* A sweep removes whatever is registered; the program is over only after one.
LEMMA LeftSweep ==
  ASSUME LeftInv, MainSweep \/ HandlerSweep, SweepInv'
  PROVE  LeftInv'
<1>1. /\ RemoveAll /\ UNCHANGED <<row, stalled>>
      /\ pc' = pc \/ CancelQueued
  BY DEF MainSweep, HandlerSweep, MainFrame, HandlerFrame
<1>2. /\ swept' /\ names' = {}
      /\ \A t \in Trials : box'[t] = "exited" => box[t] = "exited" /\ t \notin names
  BY <1>1 DEF RemoveAll
<1>3. \A t \in Trials : pc'[t] \in {"queued", "cancelled", "over"} => row'[t] # "running"
  BY <1>1 DEF CancelQueued, LeftInv
<1> QED
  BY <1>1, <1>2, <1>3 DEF LeftInv

LEMMA LeftOtherStep ==
  ASSUME LeftInv, SweepInv',
         \/ MainWait \/ MainFinal \/ MainSetStop \/ MainLock \/ MainPool \/ MainJoin
         \/ HandlerSet \/ HandlerLock \/ FatalStops \/ SetFatal
         \/ Signal \/ SignalAgain \/ SignalBlocks \/ SignalLost \/ UNCHANGED vars
  PROVE  LeftInv'
<1> USE DEF MainWait, MainFinal, MainSetStop, MainLock, MainPool, MainJoin, HandlerSet, HandlerLock,
            FatalStops, SetFatal, Signal, SignalAgain, SignalBlocks, SignalLost, MainFrame,
            MainGoto, HandlerFrame, boxVars, trialVars, mainVars, vars
<1>1. /\ UNCHANGED <<box, names, swept, row, stalled>>
      /\ main' = "over" => main = "over"
      /\ pc' = pc \/ CancelQueued \/ SignalAgain
  OBVIOUS
<1>2. \A t \in Trials : pc'[t] \in {"queued", "cancelled", "over"} => row[t] # "running"
  <2>1. CASE pc' = pc
    BY <2>1 DEF LeftInv
  <2>2. CASE CancelQueued
    BY <2>2 DEF CancelQueued, LeftInv
  <2>3. CASE SignalAgain
    BY <2>3 DEF LeftInv, Finished
  <2> QED
    BY <1>1, <2>1, <2>2, <2>3
<1> QED
  BY <1>1, <1>2 DEF LeftInv

\* When the program is over, no row still says running and no container is left, except an
\* exited one that a docker time-out kept from being removed.
THEOREM NothingLeft == Spec => []NothingLeftBehind
<1>1. Init => LeftInv
  BY InitInv DEF Init, LeftInv
<1>2. LeftInv /\ [Next]_vars => LeftInv'
  <2> SUFFICES ASSUME LeftInv, [Next]_vars PROVE LeftInv'
    OBVIOUS
  <2>1. SweepInv'
    BY NextInv DEF LeftInv
  <2> QED
    BY <2>1, LeftTrialStep, LeftSweep, LeftOtherStep DEF Next, MainStep, Disturbance, Terminating
<1>3. LeftInv => NothingLeftBehind
  <2> SUFFICES ASSUME LeftInv, main = "over", ProcessOver, NEW t \in Trials
               PROVE  /\ row[t] # "running"
                      /\ box[t] = "none" \/ (box[t] = "exited" /\ t \in stalled)
    BY DEF NothingLeftBehind
  <2>1. pc[t] \in {"over", "cancelled"} /\ names = {} /\ swept
    BY DEF ProcessOver, Finished, LeftInv
  <2>2. box[t] \in {"none", "exited"}
    BY <2>1 DEF LeftInv, SweepInv, NothingRunsAfterSweep, TypeOK
  <2> QED
    BY <2>1, <2>2 DEF LeftInv
<1> QED
  BY <1>1, <1>2, <1>3, PTL DEF Spec

-----------------------------------------------------------------------------
(* Why a trial is interrupted.                                              *)

LEMMA CauseTrialStep ==
  ASSUME CauseInv, NEW t \in Trials,
         TrialStep(t) \/ DockerRunFails(t) \/ InspectStalls(t) \/ FuzzerExits(t), BlameInv'
  PROVE  CauseInv'
<1> USE DEF Goto, Say, SetBox, TrialFrame, RunFrame, mainVars, flagVars, boxVars, Failures
<1>1. TypeOK /\ pc \in [Trials -> PcLabels] /\ outcome \in [Trials -> Outcomes]
  BY DEF CauseInv, BlameInv, SweepInv, TypeOK
<1>2. UNCHANGED <<main, handler, signals, stopEvent, fatal>> /\ expired \subseteq expired'
  BY DEF TrialStep, Prepare, Launch, Refuse, DockerRun, StartReturns, StartRaises, Expire,
     MonitorEnds, MonitorDecides, RaiseIfFailed, Outcome, Kill, Remove, Record, DockerRunFails,
     InspectStalls, FuzzerExits
<1>3. /\ \A s \in Trials \ {t} : pc'[s] = pc[s] /\ outcome'[s] = outcome[s]
      /\ \/ pc'[t] = pc[t] /\ outcome'[t] = outcome[t]
         \/ pc'[t] \notin {"decide", "killed"} /\ outcome[t] \notin Failures /\ outcome'[t] \notin Failures
         \/ pc'[t] \in {"record", "stop"} /\ outcome[t] \notin Failures
              /\ outcome'[t] \in {"failed_start", "failed_runtime"}
         \/ pc[t] \in {"stop", "remove", "record"} /\ pc'[t] \in {"remove", "record", "over"}
              /\ outcome'[t] = outcome[t]
         \/ RaiseIfFailed(t)
  <2>1. outcome[t] \in Failures => pc[t] \in {"stop", "remove", "record", "over", "killed"}
    BY DEF CauseInv
  <2>2. CASE \/ Prepare(t) \/ Launch(t) \/ Refuse(t) \/ DockerRun(t) \/ DockerRunFails(t)
             \/ StartReturns(t) \/ StartRaises(t)
    BY <1>1, <2>1, <2>2 DEF Prepare, Launch, Refuse, DockerRun, DockerRunFails, StartReturns, StartRaises
  <2>3. CASE Expire(t) \/ MonitorEnds(t) \/ MonitorDecides(t) \/ InspectStalls(t) \/ FuzzerExits(t)
    BY <1>1, <2>1, <2>3 DEF Expire, MonitorEnds, MonitorDecides, InspectStalls, FuzzerExits
  <2>4. CASE Outcome(t) \/ Kill(t) \/ Remove(t) \/ Record(t) \/ RaiseIfFailed(t)
    BY <1>1, <2>1, <2>4 DEF Outcome, Kill, Remove, Record, RaiseIfFailed
  <2> QED
    BY <2>2, <2>3, <2>4 DEF TrialStep
<1>4. StopCause => StopCause'
  <2>1. ASSUME NEW s \in Trials, outcome[s] \in {"failed_start", "failed_runtime"}
        PROVE  outcome'[s] \in {"failed_start", "failed_runtime"}
    <3>1. RaiseIfFailed(t) => outcome[t] \notin Failures
      BY <1>1 DEF RaiseIfFailed, CauseInv
    <3> QED
      BY <1>3, <2>1, <3>1
  <2> QED
    BY <1>2, <2>1 DEF StopCause
<1>5. CASE ~RaiseIfFailed(t)
  <2>1. \A s \in Trials :
          /\ outcome'[s] \in Failures => pc'[s] \in {"stop", "remove", "record", "over", "killed"}
          /\ outcome'[s] = "failed_measurement" => fatal'
          /\ pc'[s] = "decide" => s \in expired' \/ StopCause'
    BY <1>2, <1>3, <1>4, <1>5 DEF CauseInv
  <2> QED
    BY <1>2, <1>4, <2>1 DEF CauseInv
<1>6. CASE RaiseIfFailed(t)
  <2>1. pc[t] = "check" /\ (stopEvent \/ t \in expired) /\ outcome[t] \notin Failures
    BY <1>6 DEF RaiseIfFailed, CauseInv, BlameInv
  <2>2. \/ fatal /\ pc'[t] = "stop" /\ outcome'[t] = "failed_measurement"
        \/ ~fatal /\ pc'[t] = "decide" /\ outcome'[t] = outcome[t]
    BY <1>1, <1>6 DEF RaiseIfFailed
  <2>3. ~fatal => t \in expired \/ StopCause
    BY <2>1 DEF CauseInv
  <2>4. \A s \in Trials :
          /\ outcome'[s] \in Failures => pc'[s] \in {"stop", "remove", "record", "over", "killed"}
          /\ outcome'[s] = "failed_measurement" => fatal'
          /\ pc'[s] = "decide" => s \in expired' \/ StopCause'
    BY <1>2, <1>3, <1>4, <2>1, <2>2, <2>3 DEF CauseInv
  <2> QED
    BY <1>2, <1>4, <2>4 DEF CauseInv
<1> QED
  BY <1>5, <1>6

\* The other threads decide for no trial; each sets the stop event for a reason.
LEMMA CauseOtherStep ==
  ASSUME CauseInv, BlameInv',
         \/ MainStep \/ FatalStops \/ SetFatal
         \/ Signal \/ SignalAgain \/ SignalBlocks \/ SignalLost \/ UNCHANGED vars
  PROVE  CauseInv'
<1>1. TypeOK /\ Signals \in Nat /\ signals \in Nat
  BY ShutdownAssumption DEF CauseInv, BlameInv, SweepInv, TypeOK
<1>2. /\ UNCHANGED <<outcome, expired>> /\ (fatal => fatal') /\ signals' \in {signals, signals + 1, 1}
      /\ pc' = pc \/ CancelQueued \/ SignalAgain
  <2>1. CASE MainWait \/ MainFinal \/ MainSetStop \/ MainPool \/ MainJoin
    BY <2>1 DEF MainWait, MainFinal, MainSetStop, MainPool, MainJoin, MainFrame, MainGoto
  <2>2. CASE MainLock \/ MainSweep
    BY <2>2 DEF MainLock, MainSweep, MainFrame, mainVars
  <2>3. CASE HandlerSet \/ HandlerLock \/ HandlerSweep
    BY <2>3 DEF HandlerSet, HandlerLock, HandlerSweep, HandlerFrame
  <2>4. CASE FatalStops \/ SetFatal \/ UNCHANGED vars
    BY <2>4 DEF FatalStops, SetFatal, trialVars, flagVars, mainVars, vars
  <2>5. CASE Signal \/ SignalAgain \/ SignalBlocks \/ SignalLost
    <3>1. CASE Signal
      BY <3>1 DEF Signal, HandlerFrame
    <3>2. CASE SignalAgain
      BY <3>2 DEF SignalAgain, HandlerFrame
    <3>3. CASE SignalBlocks
      BY <3>3 DEF SignalBlocks, HandlerFrame
    <3>4. CASE SignalLost
      BY <3>4 DEF SignalLost, HandlerFrame
    <3> QED
      BY <2>5, <3>1, <3>2, <3>3, <3>4
  <2> QED
    BY <2>1, <2>2, <2>3, <2>4, <2>5 DEF MainStep
<1>3. StopCause => StopCause'
  BY <1>1, <1>2 DEF StopCause
<1>4. \A t \in Trials : pc'[t] = pc[t] \/ (pc[t] = "queued" /\ pc'[t] = "cancelled")
                        \/ pc'[t] = "killed"
  BY <1>2 DEF CancelQueued, SignalAgain
<1>5. \/ UNCHANGED <<handler, stopEvent>> /\ (main' = "set" => main = "set")
      \/ signals' > 0
      \/ HandlerSet \/ HandlerLock \/ HandlerSweep
      \/ MainSetStop \/ FatalStops
      \/ MainWait \/ MainFinal
  <2>1. CASE MainPool \/ MainJoin
    BY <2>1 DEF MainPool, MainJoin, MainFrame, MainGoto
  <2>2. CASE MainLock
    BY <2>2 DEF MainLock, MainFrame, mainVars
  <2>3. CASE MainSweep
    BY <2>3 DEF MainSweep, MainFrame, AfterSweep, SweepPhases
  <2>4. CASE SetFatal \/ UNCHANGED vars
    BY <2>4 DEF SetFatal, flagVars, mainVars, vars
  <2>5. CASE Signal \/ SignalAgain \/ SignalBlocks \/ SignalLost
    <3>1. signals' = 1 \/ signals' = signals + 1
      BY <2>5 DEF Signal, SignalAgain, SignalBlocks, SignalLost
    <3> QED
      BY <1>1, <3>1
  <2> QED
    BY <2>1, <2>2, <2>3, <2>4, <2>5 DEF MainStep
<1>6. /\ stopEvent' \/ main' = "set" => fatal' \/ StopCause'
      /\ handler' # "none" => signals' > 0
  <2>1. CASE signals' > 0
    BY <2>1 DEF StopCause
  <2>2. CASE UNCHANGED <<handler, stopEvent>> /\ (main' = "set" => main = "set")
    <3>1. signals > 0 => signals' > 0
      BY <1>1, <1>2
    <3> QED
      BY <1>2, <1>3, <2>2, <3>1 DEF CauseInv
  <2>3. CASE HandlerSet \/ HandlerLock \/ HandlerSweep
    <3>1. signals > 0 /\ signals' = signals
      BY <2>3 DEF HandlerSet, HandlerLock, HandlerSweep, HandlerFrame, CauseInv, mainVars
    <3> QED
      BY <2>1, <3>1
  <2>4. CASE MainSetStop \/ FatalStops
    <3>1. handler' = handler /\ signals' = signals /\ (fatal \/ main = "set")
      BY <2>4 DEF MainSetStop, FatalStops, MainGoto, mainVars
    <3> QED
      BY <1>2, <1>3, <3>1 DEF CauseInv
  <2>5. CASE MainWait \/ MainFinal
    <3>1. /\ UNCHANGED <<handler, signals, stopEvent>>
          /\ main' = "set" => fatal \/ \E t \in Trials : outcome[t] \in Failures
      BY <2>5 DEF MainWait, MainFinal, MainGoto
    <3>2. (\E t \in Trials : outcome[t] \in Failures) => fatal \/ StopCause
      BY DEF CauseInv, StopCause, Failures
    <3> QED
      BY <1>2, <1>3, <3>1, <3>2 DEF CauseInv
  <2> QED
    BY <1>5, <2>1, <2>2, <2>3, <2>4, <2>5
<1>7. \A t \in Trials :
        /\ outcome'[t] \in Failures => pc'[t] \in {"stop", "remove", "record", "over", "killed"}
        /\ outcome'[t] = "failed_measurement" => fatal'
        /\ pc'[t] = "decide" => t \in expired' \/ StopCause'
  BY <1>2, <1>3, <1>4 DEF CauseInv
<1> QED
  BY <1>6, <1>7 DEF CauseInv

\* A fatal measurement error is not passed off as an interruption: a trial that is recorded
\* so had its full time, or a signal or another trial's own failure stopped the run.
THEOREM InterruptionsCaused == Spec => InterruptionHasCause
<1>1. Init => CauseInv
  BY BlameInit DEF Init, CauseInv, Failures
<1>2. CauseInv /\ [Next]_vars => CauseInv'
  <2> SUFFICES ASSUME CauseInv, [Next]_vars PROVE CauseInv'
    OBVIOUS
  <2>1. BlameInv'
    BY BlameNext DEF CauseInv
  <2> QED
    BY <2>1, CauseTrialStep, CauseOtherStep DEF Next, Disturbance, Terminating
<1>3. CauseInv =>
        \A t \in Trials : pc[t] = "decide" /\ outcome'[t] = "interrupted" =>
          \/ signals > 0 \/ t \in expired
          \/ \E s \in Trials : outcome[s] \in {"failed_start", "failed_runtime"}
  BY DEF CauseInv, StopCause
<1> QED
  BY <1>1, <1>2, <1>3, PTL DEF Spec, InterruptionHasCause
=============================================================================
