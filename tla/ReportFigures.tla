---------------------------- MODULE ReportFigures ----------------------------
(***************************************************************************)
(* The figures a report shows for the trials of one fuzzer on one target,  *)
(* computed from the rows of the run database: the queries of              *)
(* db/report_views.py and the analyzers trial_analysis.py,                 *)
(* coverage_curves.py and metrics.py in reporting/.                        *)
(*                                                                         *)
(* The actions write the rows a campaign writes, tick by tick, in the      *)
(* order of TickPipeline and with the coverage SnapshotMeasurement shows   *)
(* to be cumulative.  A report can be made at every state: it reads one    *)
(* database snapshot (report_views.py:50).  Only completed ticks have      *)
(* their snapshots shown; bug hits and telemetry of every tick are.        *)
(***************************************************************************)
EXTENDS Integers, Sequences, FiniteSets, FiniteSetsExt, SequencesExt, Tallies

CONSTANTS
  Trials,      \* the repetitions of the fuzzer
  Elements,    \* branches a trial can cover
  Bugs,
  TimeLimit,   \* time_seconds of a trial
  Every,       \* seconds between two snapshots
  MaxPoints,   \* curve_max_points
  MaxTime,     \* bound: the clock
  MaxBacklog,  \* bound: ticks waiting for the worker while time passes
  NoCoverage   \* a snapshot or baseline without coverage counters

ASSUME ReportAssumption ==
  /\ IsFiniteSet(Trials) /\ IsFiniteSet(Elements) /\ IsFiniteSet(Bugs)
  /\ \A S \in SUBSET Elements : NoCoverage # S
  /\ TimeLimit \in Nat \ {0} /\ Every \in Nat \ {0}
  /\ MaxPoints \in Nat \ {0, 1} /\ MaxTime \in Nat /\ MaxBacklog \in Nat

VARIABLES
  clock,     \* int(time.time())
  seed,      \* coverage of the seed baseline
  started,   \* trials.started_ts, 0 before the trial
  ended,     \* trials.ended_ts, 0 while it runs
  nextDue,   \* _next_periodic_ts of the active trials, 0 when none is left
  due,       \* due_snapshots of the scheduler's pass, not yet recorded
  ticks,     \* snapshot_ticks, with the trials of each; its index is idx
  rows,      \* snapshots of each trial by idx, with their bug_hits
  agg,       \* agg_snapshots by idx
  stopping   \* the run was interrupted

\* What a seed baseline or a snapshot may have covered.
Coverage == {NoCoverage} \cup SUBSET Elements

vars == <<clock, seed, started, ended, nextDue, due, ticks, rows, agg, stopping>>

Init ==
  /\ clock = 1 /\ seed \in Coverage
  /\ started = [t \in Trials |-> 0] /\ ended = [t \in Trials |-> 0]
  /\ nextDue = [t \in Trials |-> 0] /\ due = <<>> /\ ticks = <<>>
  /\ rows = [t \in Trials |-> <<>>] /\ agg = <<>> /\ stopping = FALSE

Active == {t \in Trials : started[t] > 0 /\ ended[t] = 0}
FinalRecorded == \E i \in DOMAIN ticks : ~ticks[i].telemetry

Pending == {i \in DOMAIN ticks : ticks[i].status \in {"queued", "measured", "reproduced"}}
Current == Min(Pending)
Fatal == \E i \in DOMAIN ticks : ticks[i].status = "failed"

\* Bound: an interrupted run ends within the second.
Tock ==
  /\ clock < MaxTime /\ ~stopping /\ Cardinality(Pending) <= MaxBacklog
  /\ clock' = clock + 1
  /\ UNCHANGED <<seed, started, ended, nextDue, due, ticks, rows, agg, stopping>>

Start(t) ==
  /\ started[t] = 0 /\ ~stopping
  /\ started' = [started EXCEPT ![t] = clock]
  /\ nextDue' = [nextDue EXCEPT ![t] = IF Every < TimeLimit THEN clock + Every ELSE 0]
  /\ UNCHANGED <<clock, seed, ended, due, ticks, rows, agg, stopping>>

End(t) ==
  /\ t \in Active
  /\ stopping \/ clock >= started[t] + TimeLimit
  /\ ended' = [ended EXCEPT ![t] = clock] /\ nextDue' = [nextDue EXCEPT ![t] = 0]
  /\ UNCHANGED <<clock, seed, started, due, ticks, rows, agg, stopping>>

Stop ==
  /\ ~stopping /\ Active # {} /\ stopping' = TRUE
  /\ UNCHANGED <<clock, seed, started, ended, nextDue, due, ticks, rows, agg>>

\* The grid times of a trial that have come and are not yet taken.
DueTimes(t) ==
  IF nextDue[t] = 0 THEN {}
  ELSE {ts \in nextDue[t]..Min({clock, started[t] + TimeLimit - 1}) :
          (ts - nextDue[t]) % Every = 0}

\* _due_periodic_snapshots: one pass takes every time that has come, grouped.
TakeDue ==
  LET times == UNION {DueTimes(t) : t \in Active}
      order == Ascending(times)
  IN /\ due = <<>> /\ times # {}
     /\ due' = [i \in DOMAIN order |->
          [ts |-> order[i], trials |-> {t \in Active : order[i] \in DueTimes(t)}]]
     /\ nextDue' = [t \in Trials |->
          IF DueTimes(t) = {} THEN nextDue[t]
          ELSE IF Max(DueTimes(t)) + Every < started[t] + TimeLimit
               THEN Max(DueTimes(t)) + Every ELSE 0]
     /\ UNCHANGED <<clock, seed, started, ended, ticks, rows, agg, stopping>>

Record(ts, trials, telemetry) ==
  ticks' = Append(ticks,
    [ts |-> ts, trials |-> trials, telemetry |-> telemetry, status |-> "queued"])

\* The telemetry of a periodic tick is taken when it is recorded.
PeriodicTick ==
  /\ due # <<>> /\ Record(Head(due).ts, Head(due).trials, TRUE) /\ due' = Tail(due)
  /\ UNCHANGED <<clock, seed, started, ended, nextDue, rows, agg, stopping>>

\* After the last trial, for all of them; the scheduler may still hold due ticks.
FinalTick ==
  /\ \A t \in Trials : ended[t] > 0
  /\ ~stopping /\ ~FinalRecorded
  /\ Record(clock, Trials, FALSE)
  /\ UNCHANGED <<clock, seed, started, ended, nextDue, due, rows, agg, stopping>>

At(status) == Pending # {} /\ ~Fatal /\ ticks[Current].status = status
Set(status) == ticks' = [ticks EXCEPT ![Current].status = status]

\* What a trial has covered so far: its last row, or the seed baseline.
Carried(t) == IF DOMAIN rows[t] = {} THEN seed ELSE rows[t][Max(DOMAIN rows[t])].cov
CoveredBy(c) == IF c = NoCoverage THEN {} ELSE c
CampaignBefore == IF DOMAIN agg = {} THEN CoveredBy(seed) ELSE agg[Max(DOMAIN agg)]

\* Snapshot rows, trial coverage and campaign coverage of a tick.  A trial
\* without a measured input keeps what it had.
Measure ==
  /\ At("queued") /\ Set("measured")
  /\ \E more \in [ticks[Current].trials -> Coverage] :
       LET cov == [t \in DOMAIN more |->
             IF more[t] = NoCoverage THEN Carried(t) ELSE CoveredBy(Carried(t)) \cup more[t]]
       IN /\ rows' = [t \in Trials |->
               IF t \in DOMAIN cov
               THEN [i \in DOMAIN rows[t] \cup {Current} |->
                       IF i = Current THEN [cov |-> cov[t], hits |-> {}] ELSE rows[t][i]]
               ELSE rows[t]]
          /\ agg' = [i \in DOMAIN agg \cup {Current} |->
               IF i = Current
               THEN CampaignBefore \cup UNION {CoveredBy(cov[t]) : t \in DOMAIN cov}
               ELSE agg[i]]
  /\ UNCHANGED <<clock, seed, started, ended, nextDue, due, stopping>>

\* The bugs reproduced from the crashes of a tick.
Reproduce ==
  /\ At("measured") /\ Set("reproduced")
  /\ \E found \in [ticks[Current].trials -> SUBSET Bugs] :
       rows' = [t \in Trials |->
         IF t \in DOMAIN found THEN [rows[t] EXCEPT ![Current].hits = found[t]] ELSE rows[t]]
  /\ UNCHANGED <<clock, seed, started, ended, nextDue, due, agg, stopping>>

Complete ==
  /\ At("reproduced") /\ Set("completed")
  /\ UNCHANGED <<clock, seed, started, ended, nextDue, due, rows, agg, stopping>>

\* An error in a tick: while stopping it is aborted and the worker goes on,
\* otherwise it is failed, the queued ticks are aborted and the run stops.
Fail ==
  /\ Pending # {} /\ ~Fatal
  /\ IF stopping THEN Set("aborted")
     ELSE ticks' = [i \in DOMAIN ticks |-> [ticks[i] EXCEPT !.status =
            IF i = Current THEN "failed" ELSE IF i \in Pending THEN "aborted" ELSE @]]
  /\ stopping' = TRUE
  /\ UNCHANGED <<clock, seed, started, ended, nextDue, due, rows, agg>>

Next ==
  \/ Tock \/ Stop \/ TakeDue \/ PeriodicTick \/ FinalTick
  \/ Measure \/ Reproduce \/ Complete \/ Fail
  \/ \E t \in Trials : Start(t) \/ End(t)

Spec == Init /\ [][Next]_vars

-----------------------------------------------------------------------------
(* The report.                                                             *)

\* Seeded fault: the queries forget the status of the tick.
SnapshotRowsOfEveryTick(t) == DOMAIN rows[t]

SnapshotRows(t) == {i \in DOMAIN rows[t] : ticks[i].status = "completed"}
TelemetryRows(t) == {i \in DOMAIN ticks : ticks[i].telemetry /\ t \in ticks[i].trials}
AggRows == {i \in DOMAIN agg : ticks[i].status = "completed"}
Latest(t) == Max(SnapshotRows(t))

Shown == {t \in Trials : started[t] > 0}
Measured(t) == {i \in SnapshotRows(t) : rows[t][i].cov # NoCoverage}

\* Seeded fault: the time of a point counts from the start of the campaign.
ElapsedOfCampaign(t, ts) == Min({ts - Min({started[u] : u \in Shown}), TimeLimit})

Elapsed(t, ts) == Min({ts - started[t], TimeLimit})
At0(t, i) == Elapsed(t, ticks[i].ts)

\* _elapsed_seconds of a trial: the last snapshot, else its end, else nothing.
TrialElapsed(t) ==
  IF SnapshotRows(t) # {} THEN Min({ticks[Latest(t)].ts - started[t], TimeLimit})
  ELSE IF ended[t] > 0 THEN Min({ended[t] - started[t], TimeLimit}) ELSE 0

HasFinal(t) == SnapshotRows(t) # {} /\ Latest(t) \in Measured(t)
Covered(t, i) == Cardinality(rows[t][i].cov)
FinalCovered(t) == Covered(t, Latest(t))

\* bug_stats_by_trial, over the rows of every tick.
HitsTotal(t) == Cardinality(UNION {{i} \X rows[t][i].hits : i \in DOMAIN rows[t]})
UniqueTotal(t) == Cardinality(UNION {rows[t][i].hits : i \in DOMAIN rows[t]})

\* Seeded fault: the first discovery of a bug by any trial.
DeltaOfCampaign(t, i) ==
  Cardinality({b \in rows[t][i].hits : \A u \in Trials : \A j \in DOMAIN rows[u] :
                 j < i => b \notin rows[u][j].hits})

\* unique_bug_delta_by_snapshot: bugs whose first hit in the trial is here.
Delta(t, i) ==
  Cardinality({b \in rows[t][i].hits : \A j \in DOMAIN rows[t] : j < i => b \notin rows[t][j].hits})

Points(t) == SnapshotRows(t) \cup TelemetryRows(t)

\* bug_hits_total and unique_bugs_total of the point idx.
HitsUpTo(t, idx) ==
  Cardinality(UNION {{i} \X rows[t][i].hits : i \in {j \in SnapshotRows(t) : j <= idx}})
UniqueUpTo(t, idx) == Total([i \in {j \in SnapshotRows(t) : j <= idx} |-> Delta(t, i)])

\* trapezoid_auc, doubled: the points at equal times collapse to the last one,
\* the first stands at 0 with the seed coverage, the last holds until duration.
AreaAt(t, x) ==
  LET here == {i \in Measured(t) : At0(t, i) = x}
  IN IF here = {} THEN Cardinality(CoveredBy(seed)) ELSE Covered(t, Max(here))
DoubleArea(t) ==
  LET xs == {At0(t, i) : i \in Measured(t)} \cup {0}
      after(x) == {y \in xs : y > x}
  IN Total([x \in xs |->
       IF after(x) # {} THEN (Min(after(x)) - x) * (AreaAt(t, x) + AreaAt(t, Min(after(x))))
       ELSE IF TrialElapsed(t) > x THEN 2 * (TrialElapsed(t) - x) * AreaAt(t, x) ELSE 0])

\* build_curve: the times of all points, and at each what a trial last showed.
CurveTimes == Ascending(UNION {{At0(t, i) : i \in Points(t)} : t \in Shown})
PointAt(t, x) == Max({i \in Points(t) : At0(t, i) = x})
Seen(t, x) == {y \in {At0(t, i) : i \in Points(t)} : y <= x}

\* Seeded fault: a point without coverage clears what the trial last showed.
CoveredAtLastPoint(t, x) ==
  IF Seen(t, x) = {} \/ PointAt(t, Max(Seen(t, x))) \notin Measured(t) THEN 0
  ELSE Covered(t, PointAt(t, Max(Seen(t, x))))

CoveredAt(t, x) ==
  LET known == {y \in Seen(t, x) : PointAt(t, y) \in Measured(t)}
  IN IF known = {} THEN 0 ELSE Covered(t, PointAt(t, Max(known)))
UniqueAt(t, x) == IF Seen(t, x) = {} THEN 0 ELSE UniqueUpTo(t, PointAt(t, Max(Seen(t, x))))

\* downsample_curve: the ends, and the middle of each bucket of the interior.
Downsampled(curve, max) ==
  LET n == Len(curve) - 2  b == max - 2
      first(k) == ((k - 1) * n) \div b
      size(k) == Max({first(k) + 1, (k * n) \div b}) - first(k)
  IN IF Len(curve) <= max THEN curve
     ELSE <<Head(curve)>> \o [k \in 1..b |-> curve[2 + first(k) + size(k) \div 2]] \o <<Last(curve)>>

\* bug_hits_by_bug and bug_trials_by_bug; a bug has a row when a tick stored it.
FoundBy(b) == {t \in Trials : \E i \in DOMAIN rows[t] : b \in rows[t][i].hits}
HitsOf(b) ==
  Cardinality(UNION {{t} \X {i \in DOMAIN rows[t] : b \in rows[t][i].hits} : t \in FoundBy(b)})

\* collect_bugs: the bugs of the fuzzer, with the hits and trials of each.
BugEntries == {[bug |-> b, hits |-> HitsOf(b), trials |-> FoundBy(b)] : b \in {x \in Bugs : FoundBy(x) # {}}}

\* _convergence_pct: no figure for a trial without coverage or duration.
ConvergencePct(t) ==
  IF FinalCovered(t) = 0 \/ TrialElapsed(t) = 0 THEN 0
  ELSE (100 * DoubleArea(t)) \div (2 * FinalCovered(t) * TrialElapsed(t))

\* build_trial_rows: what the table of trials shows of one of them.
TrialRow(t) ==
  [elapsed |-> TrialElapsed(t), covered |-> IF HasFinal(t) THEN FinalCovered(t) ELSE 0,
   convergence |-> IF HasFinal(t) THEN ConvergencePct(t) ELSE 0,
   hits |-> HitsTotal(t), unique |-> UniqueTotal(t)]

\* aggregate_finals: a trial without points is in no distribution of counts.
Counted == {t \in Shown : Points(t) # {}}

\* build_fuzzer_entry with _build_aggregate_summary: the hits of the entry are
\* summed over the distribution, its bugs are the bugs of every trial.
Entry ==
  [hits |-> Total([t \in Counted |-> HitsTotal(t)]),
   elapsed |-> Total([t \in Counted |-> TrialElapsed(t)]),
   unique |-> Cardinality(BugEntries)]

-----------------------------------------------------------------------------
\* The snapshots of a trial are numbered in the order of their times: not so
\* when a due tick is recorded after the final one.
InTimeOrder(t) ==
  \A i, j \in SnapshotRows(t) : i < j => ticks[i].ts <= ticks[j].ts

\* The campaign coverage a report shows holds the coverage of each trial it
\* shows, at whatever moment of a running tick the report is made
\* (latest_snapshots_by_trial and latest_agg_snapshots_by_fuzzer_target).
AggregateCoversTrials ==
  \A t \in Shown : HasFinal(t) =>
    AggRows # {} /\ rows[t][Latest(t)].cov \subseteq agg[Max(AggRows)]

\* The last point of a trial's curve never counts more hits or bugs than the
\* trial itself, and as many when every tick with hits has completed.
CurveTotalsAgree ==
  \A t \in Shown : Points(t) # {} =>
    LET last == Max(Points(t))
    IN /\ HitsUpTo(t, last) <= HitsTotal(t)
       /\ UniqueUpTo(t, last) <= UniqueTotal(t)
       /\ (\A i \in DOMAIN rows[t] \ SnapshotRows(t) : rows[t][i].hits = {}) =>
            HitsUpTo(t, last) = HitsTotal(t) /\ UniqueUpTo(t, last) = UniqueTotal(t)

\* The bugs of an entry and the trials they are counted from tell one story: a
\* trial has the bugs listed with it, a bug is found by trials the report shows,
\* and the hits of the entry are those of its bugs, except for the hits of
\* trials without a point (collect_bugs against _build_aggregate_summary).
EntryTotalsAgree ==
  LET silent == {t \in Shown \ Counted : HitsTotal(t) > 0}
  IN /\ \A t \in Shown : UniqueTotal(t) = Cardinality({e \in BugEntries : t \in e.trials})
     /\ \A e \in BugEntries : e.trials \subseteq Shown
     /\ Entry.hits + Total([t \in silent |-> HitsTotal(t)])
          = Total([e \in BugEntries |-> e.hits])

\* The totals of hits and bugs that a curve, a trial and the entry of the
\* fuzzer show agree, although each comes from a query of its own
\* (unique_bug_delta_by_snapshot, bug_stats_by_trial, bug_hits_by_bug).
BugTotalsAgree == CurveTotalsAgree /\ EntryTotalsAgree

\* The area under the branch coverage of a trial is at most its final coverage
\* times its duration, so its convergence is a percentage (_convergence_pct),
\* unless its snapshots are numbered out of time order.
AreaBounded ==
  \A t \in Shown : HasFinal(t) /\ InTimeOrder(t) =>
    /\ DoubleArea(t) <= 2 * FinalCovered(t) * TrialElapsed(t)
    /\ TrialRow(t).convergence \in 0..100

\* The thinned curve keeps its ends and the order of time and at most MaxPoints
\* points, and ends at the final coverage and bugs of each trial although the
\* telemetry of a tick without snapshots makes points too (collect_timeseries,
\* build_curve, downsample_curve).
CurveEndsAtFinals ==
  LET thin == Downsampled(CurveTimes, MaxPoints)
  IN CurveTimes # <<>> =>
       /\ Len(thin) <= MaxPoints
       /\ Head(thin) = Head(CurveTimes) /\ Last(thin) = Last(CurveTimes)
       /\ \A i, j \in DOMAIN thin : i < j => thin[i] < thin[j]
       /\ \A t \in Shown : HasFinal(t) /\ InTimeOrder(t) =>
            /\ CoveredAt(t, Last(thin)) = FinalCovered(t)
            /\ UniqueAt(t, Last(thin)) = UniqueUpTo(t, Max(Points(t)))

-----------------------------------------------------------------------------
(* The inductive invariant behind these properties.                         *)

Statuses == {"queued", "measured", "reproduced", "completed", "aborted", "failed"}
Tick == [ts : Nat, trials : SUBSET Trials, telemetry : BOOLEAN, status : Statuses]
Row == [cov : Coverage, hits : SUBSET Bugs]

TypeOK ==
  /\ clock \in Nat \ {0} /\ seed \in Coverage /\ stopping \in BOOLEAN
  /\ started \in [Trials -> Nat] /\ ended \in [Trials -> Nat] /\ nextDue \in [Trials -> Nat]
  /\ due \in Seq([ts : Nat, trials : SUBSET Trials]) /\ ticks \in Seq(Tick)
  /\ rows \in [Trials -> UNION {[D -> Row] : D \in SUBSET (DOMAIN ticks)}]
  /\ agg \in UNION {[D -> SUBSET Elements] : D \in SUBSET (DOMAIN ticks)}

\* Ticks are measured in turn.
TicksInTurn ==
  \A i, j \in DOMAIN ticks : i < j /\ i \in Pending => ticks[j].status = "queued"

\* A tick that was measured has the coverage of the campaign, which grows and
\* covers that of each trial.
CampaignCovers ==
  /\ \A i \in DOMAIN agg : ticks[i].status # "queued"
  /\ \A i, j \in DOMAIN agg : i < j => agg[i] \subseteq agg[j]
  /\ \A i \in DOMAIN agg : CoveredBy(seed) \subseteq agg[i]
  /\ \A t \in Trials : \A i \in DOMAIN rows[t] :
       i \in DOMAIN agg /\ t \in ticks[i].trials /\ CoveredBy(rows[t][i].cov) \subseteq agg[i]

\* The coverage of a trial starts with the seeds and grows.
TrialsGrow ==
  \A t \in Trials : \A i \in DOMAIN rows[t] :
    /\ CoveredBy(seed) \subseteq CoveredBy(rows[t][i].cov)
    /\ \A j \in DOMAIN rows[t] :
         i < j => CoveredBy(rows[t][i].cov) \subseteq CoveredBy(rows[t][j].cov)

\* A trial starts before it ends, and a run that goes on lets it use its time.
TrialTimes ==
  \A t \in Trials :
    /\ started[t] <= clock
    /\ ended[t] > 0 => started[t] > 0
    /\ ended[t] > 0 /\ ~stopping => started[t] + TimeLimit <= clock
    /\ nextDue[t] > 0 => t \in Active /\ started[t] < nextDue[t] /\ nextDue[t] < started[t] + TimeLimit

\* The times of a pass lie inside the trials they are for, before the next one.
DueInTime ==
  /\ \A k, l \in DOMAIN due : k < l => due[k].ts < due[l].ts
  /\ \A k \in DOMAIN due : \A t \in due[k].trials :
       /\ started[t] > 0 /\ started[t] < due[k].ts /\ due[k].ts < started[t] + TimeLimit
       /\ nextDue[t] > 0 => due[k].ts < nextDue[t]

\* The periodic ticks of a trial come in the order of their times, within its
\* time limit; the only other tick comes after it.
TicksInTime ==
  /\ \A i \in DOMAIN ticks : \A t \in ticks[i].trials :
       /\ started[t] > 0 /\ started[t] < ticks[i].ts
       /\ ticks[i].telemetry =>
            /\ ticks[i].ts < started[t] + TimeLimit
            /\ nextDue[t] > 0 => ticks[i].ts < nextDue[t]
            /\ \A k \in DOMAIN due : t \in due[k].trials => ticks[i].ts < due[k].ts
            /\ \A j \in DOMAIN ticks :
                 j < i /\ ticks[j].telemetry /\ t \in ticks[j].trials => ticks[j].ts < ticks[i].ts
       /\ ~ticks[i].telemetry => started[t] + TimeLimit <= ticks[i].ts
  /\ \A i, j \in DOMAIN ticks : ~ticks[i].telemetry /\ ~ticks[j].telemetry => i = j

FiguresInv ==
  /\ TypeOK /\ TicksInTurn /\ CampaignCovers /\ TrialsGrow
  /\ TrialTimes /\ DueInTime /\ TicksInTime
=============================================================================
