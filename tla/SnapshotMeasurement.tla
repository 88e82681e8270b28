------------------------ MODULE SnapshotMeasurement ------------------------
(***************************************************************************)
(* The measurement of snapshot ticks (snapshot/collector.py, coverage.py,  *)
(* crashes.py, repro/ingest.py, bugs.py, coverage_state.py, db/snapshot.py *)
(* and db/bug.py), for a live run and for a replay (trial/replay.py).      *)
(*                                                                         *)
(* A tick detects the files every selected trial wrote in its window,      *)
(* copies them, inserts one snapshot row per trial, measures the new       *)
(* corpus of all trials, merges it into the cumulative profile of each,    *)
(* stores the summaries, merges the profiles of the campaign and records   *)
(* reproduced crashes.  Any step may fail; a stop request makes a failed   *)
(* tick an aborted one, after which the worker goes on with the queue.     *)
(* A profile, a coverage summary and a coverage artifact are the set of    *)
(* inputs they stand for; {} is a missing profile and a null summary.      *)
(***************************************************************************)
EXTENDS Integers, Sequences, FiniteSets, FiniteSetsExt, SequencesExt

CONSTANTS
  Trials,      \* the trials of one campaign case, 1..n in campaign order
  Files,       \* the files the trials may write
  Crashes,     \* those below the crash root; the others are corpus files
  Owner,       \* the trial a file belongs to
  BugOf,       \* the bug key a crash file reproduces, or NotReproduced
  NotReproduced,
  SeedInput,   \* the inputs of the seed baseline, as one input
  Baseline,    \* was the seed baseline measured?
  Ns,          \* clock units per second
  Modes,       \* the modes to consider: "live", "replay"
  LiveStart,   \* the start second of each trial of a live run
  LiveTicks,   \* the timestamps of the ticks of a live run, by index
  Overtake,    \* may a live tick be measured before one with a smaller index?
  Every,       \* every_seconds of a replay
  ReplayRoots, \* bound: modification times of replayed directories
  LastTime,    \* bound: no file is written after this clock value
  WriteTimes,  \* bound: the clock values at which a fuzzer may write a file
  Rewritten,   \* bound: files that may be written twice
  MaxFaults    \* bound: failing steps of a run

ASSUME MeasurementAssumption ==
  /\ Trials \subseteq Nat /\ IsFiniteSet(Trials) /\ IsFiniteSet(Files)
  /\ Crashes \subseteq Files
  /\ Owner \in [Files -> Trials]
  /\ SeedInput \notin Files
  /\ Baseline \in BOOLEAN /\ Overtake \in BOOLEAN
  /\ Modes \subseteq {"live", "replay"}
  /\ Ns \in Nat \ {0} /\ Every \in Nat \ {0} /\ LastTime \in Nat \ {0} /\ MaxFaults \in Nat
  /\ ReplayRoots \subseteq Nat
  /\ LiveStart \in [Trials -> Nat] /\ LiveTicks \in Seq(Nat)
  /\ \A i, j \in DOMAIN LiveTicks : i < j => LiveTicks[i] < LiveTicks[j]

VARIABLES
  mode,      \* "live" or "replay"
  clock,     \* wall clock of a live run
  writes,    \* the modification times each file has had
  root,      \* modification time of the replayed directory of each trial
  schedule,  \* the timestamps of the ticks, by index
  status,    \* the status of each tick row
  stopping,  \* the stop event
  faults,    \* faults still to come
  cur,       \* index of the tick in hand, 0 between ticks
  phase,     \* the step the tick is at
  todo,      \* the trials (jobs of a pool, or turns of a loop) still to go
  broken,    \* did a job of the current pool fail?
  before,    \* the newest snapshot row of each trial when it was detected
  found,     \* the file versions detected for each trial in this tick
  kept,      \* the files present in the snapshot directory of each trial
  rows,      \* table snapshots: for each trial a function of the tick index
  profile,   \* merged.profdata in the coverage state of each trial
  agg,       \* table agg_snapshots: a function of the tick index
  bugs,      \* table bugs: a function of the bug key
  hits       \* table bug_hits: a function of <<key, trial, index>>

environment == <<mode, clock, writes, root, schedule, stopping>>
tables == <<rows, profile, agg, bugs, hits>>
frame == <<cur, phase, todo, broken, before, found, kept>>
vars == <<environment, status, faults, frame, tables>>

Floor(x) == x \div Ns
Corpus == Files \ Crashes
Mtime(f) == Max(writes[f])
Written == {f \in Files : writes[f] # {}}

\* A replayed file is dated by its modification time, but not before that of
\* the replayed directory.
LogicalTime(f, x) ==
  IF mode = "replay" THEN Max({x, root[Owner[f]]}) ELSE x

FileTime(f) == LogicalTime(f, Mtime(f))

StartTs(t) == IF mode = "replay" THEN Floor(root[t]) ELSE LiveStart[t]

\* The end of a replayed trial: the newest of its files, or the directory.
EndTs(t) ==
  Floor(Max({root[t]} \cup {FileTime(f) : f \in {g \in Written : Owner[g] = t}}))

TicksOf(t) ==
  {StartTs(t) + k * Every : k \in {i \in 1..LastTime : StartTs(t) + i * Every < EndTs(t)}}
    \cup {Max({EndTs(t), StartTs(t)})}

\* Every timestamp once, in order.
Sorted(S) ==
  {s \in [1..Cardinality(S) -> S] : \A i, j \in 1..Cardinality(S) : i < j => s[i] < s[j]}

ReplaySchedules == Sorted(UNION {TicksOf(t) : t \in Trials})

LatestRow(t) == IF DOMAIN rows[t] = {} THEN 0 ELSE Max(DOMAIN rows[t])

\* Up to which second the files of a trial were counted.
Horizon(t) ==
  IF LatestRow(t) = 0 THEN StartTs(t) - 1 ELSE rows[t][LatestRow(t)].ts

\* Seeded fault: the window starts at the previous tick, not at the trial's row.
WindowSinceLastTick(t) ==
  LET from == IF cur = 1 THEN StartTs(t) - 1 ELSE schedule[cur - 1]
  IN {<<f, FileTime(f)>> : f \in {g \in Written : /\ Owner[g] = t
                                                  /\ from * Ns < FileTime(g)
                                                  /\ FileTime(g) <= schedule[cur] * Ns}}

\* The files of a trial in the window that ends with the tick, with their times.
Window(t) ==
  {<<f, FileTime(f)>> : f \in {g \in Written : /\ Owner[g] = t
                                              /\ Horizon(t) * Ns < FileTime(g)
                                              /\ FileTime(g) <= schedule[cur] * Ns}}

FilesIn(versions) == {v[1] : v \in versions}

\* The trials of the tick with a coverage snapshot, and with a crash snapshot.
Measured == {t \in DOMAIN kept : kept[t] \cap Corpus # {}}
Crashed == {t \in DOMAIN kept : kept[t] \cap Crashes # {}}

\* Seeded fault: only the trials of the tick.
CampaignTrialsOfTick == DOMAIN kept

CampaignTrials ==
  {t \in Trials : mode = "live" \/ StartTs(t) <= schedule[cur]}

\* The recorded seed baseline of the campaign, row 0 of agg_snapshots.
SeedCoverage == IF Baseline THEN {SeedInput} ELSE {}

\* The newest other row of a trial that has any coverage.
PreviousCoverage(t) ==
  LET known == {i \in DOMAIN rows[t] \ {cur} : rows[t][i].cov # {}}
  IN IF known = {} THEN {} ELSE rows[t][Max(known)].cov

\* The coverage a row without new corpus starts with.
Carried(t) == IF before[t] = 0 THEN SeedCoverage ELSE PreviousCoverage(t)

\* A trial without a profile starts from that of the seed baseline.
Bootstrapped(t) ==
  IF profile[t] = {} THEN SeedCoverage ELSE profile[t]

\* Seeded fault: a bug that is known already gets no hits.
KeysOfNewBugs(t) == {BugOf[f] : f \in kept[t] \cap Crashes} \ (DOMAIN bugs \cup {NotReproduced})

\* Summed hits of one snapshot: bug keys, their counts and their first time.
Reproduced(t) == {f \in kept[t] \cap Crashes : BugOf[f] # NotReproduced}
KeysOf(t) == {BugOf[f] : f \in Reproduced(t)}
HitFiles(t, key) == {f \in Reproduced(t) : BugOf[f] = key}
FirstSeen(t, key) == Min({rows[t][cur].dates[f] : f \in HitFiles(t, key)})

Put(table, key, value) == [k \in DOMAIN table \cup {key} |-> IF k = key THEN value ELSE table[k]]

\* Seeded fault: the last writer wins.
EnsureBugsLastWins(t, keys) ==
  [key \in DOMAIN bugs \cup keys |->
     IF key \in keys THEN [ts |-> FirstSeen(t, key), trial |-> t, idx |-> cur]
     ELSE bugs[key]]

\* ON CONFLICT ... DO UPDATE ... WHERE excluded.first_seen_ts < bugs.first_seen_ts
EnsureBugs(t, keys) ==
  [key \in DOMAIN bugs \cup keys |->
     IF key \in keys /\ (key \in DOMAIN bugs => FirstSeen(t, key) < bugs[key].ts)
     THEN [ts |-> FirstSeen(t, key), trial |-> t, idx |-> cur]
     ELSE bugs[key]]

UpsertHits(t, keys) ==
  LET ids == {<<key, t, cur>> : key \in keys}
  IN [id \in DOMAIN hits \cup ids |->
        IF id \in ids THEN Cardinality(HitFiles(t, id[1])) ELSE hits[id]]

-----------------------------------------------------------------------------
NoTrial == [t \in {} |-> {}]

InitFrame ==
  /\ cur = 0 /\ phase = "idle" /\ todo = {} /\ broken = FALSE
  /\ before = NoTrial /\ found = NoTrial /\ kept = NoTrial

InitTables ==
  /\ rows = [t \in Trials |-> [i \in {} |-> {}]]
  /\ profile = [t \in Trials |-> {}]
  /\ agg = NoTrial /\ bugs = NoTrial /\ hits = NoTrial

\* A replay finds all files and their times; prepared trials last longer than
\* zero seconds.
InitReplay ==
  /\ root \in [Trials -> ReplayRoots]
  /\ writes \in [Files -> {{}} \cup {{x} : x \in 1..LastTime}]
  /\ \A t \in Trials : EndTs(t) > StartTs(t)
  /\ schedule \in ReplaySchedules

InitLive ==
  /\ root = [t \in Trials |-> 0]
  /\ writes = [f \in Files |-> {}]
  /\ schedule = LiveTicks

Init ==
  /\ mode \in Modes
  /\ clock = 1 /\ stopping = FALSE /\ faults = MaxFaults
  /\ IF mode = "replay" THEN InitReplay ELSE InitLive
  /\ status = [i \in DOMAIN schedule |-> "pending"]
  /\ InitFrame /\ InitTables

-----------------------------------------------------------------------------
(* The environment of a live run.  The times of files a fuzzer may still    *)
(* write are read by the scan of a tick and, for crashes, with their copies  *)
(* right after it, so fuzzers need not move in the later steps of a tick.    *)

ScanPhases == {"idle", "detect"}

Tock ==
  /\ mode = "live" /\ phase \in ScanPhases /\ clock < LastTime
  /\ clock' = clock + 1
  /\ UNCHANGED <<mode, writes, root, schedule, stopping, status, faults, frame, tables>>

\* A fuzzer writes a file, or writes it again.
Write(f) ==
  /\ mode = "live" /\ phase \in ScanPhases /\ ~stopping
  /\ clock \in WriteTimes[f] /\ clock > LiveStart[Owner[f]] * Ns
  /\ writes[f] = {} \/ (f \in Rewritten /\ Cardinality(writes[f]) = 1 /\ clock \notin writes[f])
  /\ writes' = [writes EXCEPT ![f] = @ \cup {clock}]
  /\ UNCHANGED <<mode, clock, root, schedule, stopping, status, faults, frame, tables>>

\* The stop event; the sweep after it may kill the container of the tick in
\* hand, which is one of the faults a run may meet at any step.
Stop ==
  /\ mode = "live" /\ ~stopping
  /\ stopping' = TRUE
  /\ UNCHANGED <<mode, clock, writes, root, schedule, status, faults, frame, tables>>

-----------------------------------------------------------------------------
(* The tick worker.                                                        *)

\* A tick is taken up.  The scan comes after the second the tick is named for.
Begin(i, selected) ==
  /\ phase = "idle" /\ i \in DOMAIN schedule /\ status[i] = "pending"
  /\ IF mode = "replay"
     THEN selected = {t \in Trials : StartTs(t) <= schedule[i] /\ schedule[i] <= EndTs(t)}
     ELSE /\ clock > schedule[i] * Ns /\ selected # {}
          /\ \A t \in selected : LiveStart[t] < schedule[i]
  /\ \A j \in 1..(i - 1) :
       status[j] # "pending" \/ (mode = "live" /\ Overtake /\ i = Len(schedule))
  /\ cur' = i /\ phase' = "detect" /\ todo' = selected
  /\ broken' = FALSE
  /\ before' = [t \in selected |-> 0] /\ found' = [t \in selected |-> {}] /\ kept' = found'
  /\ UNCHANGED <<environment, status, faults, tables>>

\* Merges run one at a time, summaries and hits are stored in turn; the jobs of
\* the other pools touch their own trial only, so that one order stands for all.
IsNext(t) == t \in todo /\ \A u \in todo : t <= u

Detect(t) ==
  /\ phase = "detect" /\ IsNext(t)
  /\ before' = [before EXCEPT ![t] = LatestRow(t)]
  /\ found' = [found EXCEPT ![t] = Window(t)]
  /\ todo' = todo \ {t}
  /\ UNCHANGED <<environment, status, faults, cur, phase, broken, kept, tables>>

\* The files are copied; a file that cannot be copied is left out.
Prepare ==
  /\ phase = "detect" /\ todo = {}
  /\ \E lost \in SUBSET UNION {FilesIn(found[t]) : t \in DOMAIN found} :
       /\ Cardinality(lost) <= faults
       /\ faults' = faults - Cardinality(lost)
       /\ kept' = [t \in DOMAIN found |-> FilesIn(found[t]) \ lost]
  /\ phase' = "save" /\ todo' = DOMAIN found
  /\ UNCHANGED <<environment, status, cur, broken, before, found, tables>>

\* The snapshot row; its fields found, kept, dates and prev are history.
NewRow(t) ==
  [ts |-> schedule[cur],
   corpus |-> (IF before[t] = 0 THEN 0 ELSE rows[t][before[t]].corpus)
                + Cardinality(FilesIn(found[t]) \cap Corpus),
   found |-> found[t],
   kept |-> kept[t],
   dates |-> [f \in kept[t] \cap Crashes |-> Floor(Mtime(f))],
   prev |-> before[t],
   cov |-> IF t \in Measured THEN {} ELSE Carried(t)]

\* INSERT of the row, with the coverage carried forward if nothing is measured.
Save(t) ==
  /\ phase = "save" /\ IsNext(t)
  /\ rows' = [rows EXCEPT ![t] = Put(@, cur, NewRow(t))]
  /\ todo' = todo \ {t}
  /\ UNCHANGED <<environment, status, faults, cur, phase, broken, before, found, kept,
                 profile, agg, bugs, hits>>

\* A job of a pool raises; the others still run to their end.
JobFails(t) ==
  /\ phase \in {"save", "merge"} /\ IsNext(t) /\ faults > 0
  /\ faults' = faults - 1 /\ broken' = TRUE /\ todo' = todo \ {t}
  /\ UNCHANGED <<environment, status, cur, phase, before, found, kept, tables>>

\* Coverage is planned if any trial has new corpus; else the crashes are next.
EnterCrashes == phase' = "crashes" /\ todo' = Crashed

PlanCoverage ==
  /\ phase = "save" /\ todo = {} /\ ~broken /\ Measured # {}
  /\ phase' = "execute"
  /\ profile' = [t \in Trials |-> IF t \in Measured THEN Bootstrapped(t) ELSE profile[t]]
  /\ UNCHANGED <<environment, status, faults, cur, todo, broken, before, found, kept,
                 rows, agg, bugs, hits>>

SkipCoverage ==
  /\ phase = "save" /\ todo = {} /\ ~broken /\ Measured = {}
  /\ EnterCrashes
  /\ UNCHANGED <<environment, status, faults, cur, broken, before, found, kept, tables>>

\* All batches of all trials share one pool.
Execute ==
  /\ phase = "execute"
  /\ phase' = "merge" /\ todo' = Measured
  /\ UNCHANGED <<environment, status, faults, cur, broken, before, found, kept, tables>>

\* Seeded fault: the cumulative profile is not among the inputs.
MergeNewOnly(t) ==
  /\ phase = "merge" /\ IsNext(t)
  /\ profile' = [profile EXCEPT ![t] = kept[t] \cap Corpus]
  /\ todo' = todo \ {t}
  /\ UNCHANGED <<environment, status, faults, cur, phase, broken, before, found, kept,
                 rows, agg, bugs, hits>>

\* The new corpus is merged into the cumulative profile of the trial.
Merge(t) ==
  /\ phase = "merge" /\ IsNext(t)
  /\ profile' = [profile EXCEPT ![t] = @ \cup (kept[t] \cap Corpus)]
  /\ todo' = todo \ {t}
  /\ UNCHANGED <<environment, status, faults, cur, phase, broken, before, found, kept,
                 rows, agg, bugs, hits>>

\* Seeded fault: summaries are stored although a merge has failed.
MergedSome ==
  /\ phase = "merge" /\ todo = {}
  /\ phase' = "persist" /\ todo' = Measured
  /\ UNCHANGED <<environment, status, faults, cur, broken, before, found, kept, tables>>

MergedAll ==
  /\ phase = "merge" /\ todo = {} /\ ~broken
  /\ phase' = "persist" /\ todo' = Measured
  /\ UNCHANGED <<environment, status, faults, cur, broken, before, found, kept, tables>>

\* set_snapshot_coverage_fields, for the row of the tick
WithCoverage(t, cov) == [rows EXCEPT ![t][cur].cov = cov]

Persist(t) ==
  /\ phase = "persist" /\ IsNext(t)
  /\ rows' = WithCoverage(t, profile[t])
  /\ todo' = todo \ {t}
  /\ UNCHANGED <<environment, status, faults, cur, phase, broken, before, found, kept,
                 profile, agg, bugs, hits>>

CampaignCoverage == UNION {profile[t] : t \in CampaignTrials}

\* The campaign: every trial that has a profile, measured in this tick or not.
Aggregate ==
  /\ phase = "persist" /\ todo = {}
  /\ agg' = Put(agg, cur, CampaignCoverage)
  /\ EnterCrashes
  /\ UNCHANGED <<environment, status, faults, cur, broken, before, found, kept,
                 rows, profile, bugs, hits>>

\* Reproduced crashes are stored snapshot by snapshot, bug by bug; a failure
\* leaves some bugs of a snapshot out, never a part of a count.
SaveHits(t) ==
  /\ phase = "crashes" /\ IsNext(t)
  /\ \E keys \in SUBSET KeysOf(t) :
       /\ bugs' = EnsureBugs(t, keys)
       /\ hits' = UpsertHits(t, keys)
       /\ \/ keys = KeysOf(t) /\ UNCHANGED <<faults, broken>> /\ todo' = todo \ {t}
          \/ keys # KeysOf(t) /\ faults > 0 /\ faults' = faults - 1
             /\ broken' = TRUE /\ todo' = {}
  /\ UNCHANGED <<environment, status, cur, phase, before, found, kept, rows, profile, agg>>

\* Seeded fault: the inputs of the last tick stay.
EndFrameKeepsInputs(next) ==
  /\ cur' = 0 /\ phase' = next /\ todo' = {} /\ broken' = FALSE
  /\ before' = NoTrial /\ found' = NoTrial /\ kept' = kept

EndFrame(next) ==
  /\ cur' = 0 /\ phase' = next /\ todo' = {} /\ broken' = FALSE
  /\ before' = NoTrial /\ found' = NoTrial /\ kept' = NoTrial

Complete ==
  /\ phase = "crashes" /\ todo = {} /\ ~broken
  /\ status' = [status EXCEPT ![cur] = "completed"]
  /\ EndFrame("idle")
  /\ UNCHANGED <<environment, faults, tables>>

\* An exception: recorded as aborted while the run is stopping, after which the
\* queue goes on; else the tick has failed and so has the run.  A replay ends.
Raise ==
  /\ phase \notin {"idle", "over"}
  /\ \/ broken /\ todo = {} /\ UNCHANGED faults
     \/ /\ ~broken /\ (phase \in {"save", "merge"} => todo = {})
        /\ faults > 0 /\ faults' = faults - 1
  /\ status' = [status EXCEPT ![cur] = IF stopping THEN "aborted" ELSE "failed"]
  /\ EndFrame(IF stopping THEN "idle" ELSE "over")
  /\ UNCHANGED <<environment, tables>>

Next ==
  \/ Tock \/ Stop
  \/ \E f \in Files : Write(f)
  \/ \E i \in DOMAIN schedule, selected \in SUBSET Trials : Begin(i, selected)
  \/ \E t \in Trials : Detect(t) \/ Save(t) \/ JobFails(t) \/ Merge(t) \/ Persist(t) \/ SaveHits(t)
  \/ Prepare \/ PlanCoverage \/ SkipCoverage \/ Execute \/ MergedAll \/ Aggregate \/ Complete \/ Raise

Spec == Init /\ [][Next]_vars

-----------------------------------------------------------------------------
(* Properties.                                                             *)

Phases == {"idle", "detect", "save", "execute", "merge", "persist", "crashes", "over"}

\* Type invariant: a tick in hand has a frame for each of its trials.
TypeOK ==
  /\ mode \in Modes /\ clock \in 1..LastTime /\ stopping \in BOOLEAN /\ broken \in BOOLEAN
  /\ writes \in [Files -> SUBSET (1..LastTime)]
  /\ faults \in 0..MaxFaults
  /\ status \in [DOMAIN schedule -> {"pending", "completed", "failed", "aborted"}]
  /\ phase \in Phases /\ cur \in {0} \cup DOMAIN schedule
  /\ cur = 0 <=> phase \in {"idle", "over"}
  /\ todo \subseteq Trials
  /\ DOMAIN kept = DOMAIN found /\ DOMAIN kept = DOMAIN before /\ DOMAIN kept \subseteq Trials
  /\ \A t \in DOMAIN kept : kept[t] \subseteq {f \in Files : Owner[f] = t}
  /\ \A t \in Trials :
       /\ DOMAIN rows[t] \subseteq DOMAIN schedule
       /\ profile[t] \subseteq Corpus \cup {SeedInput}
  /\ DOMAIN agg \subseteq DOMAIN schedule

\* The rows of a trial as a ledger of its files (collector.py:142-154): windows
\* join without gap or overlap whatever the order, the failures and the aborts
\* of the ticks, and no file version is counted twice or passed over.
Dated == [f \in Files |-> {LogicalTime(f, x) : x \in writes[f]}]
Horizons == [t \in Trials |-> Horizon(t)]
Counted == [t \in Trials |-> UNION {rows[t][i].found : i \in DOMAIN rows[t]}]

Ledger == INSTANCE SnapshotLedger WITH writes <- Dated, horizon <- Horizons, counted <- Counted
LedgerSpec == Ledger!Spec

\* The inductive invariant behind LedgerSpec.  A pending tick has no rows, but for
\* those the tick in hand has inserted; a row stands for its tick's second; and
\* what a tick has detected and not yet stored is the window since the horizon,
\* because the tick came after the second it is named for.
RowFields == {"ts", "corpus", "found", "kept", "dates", "prev", "cov"}

RowsFollowTicks ==
  /\ \A i, j \in DOMAIN schedule : i < j => schedule[i] < schedule[j]
  /\ cur # 0 => status[cur] = "pending"
  /\ \A t \in Trials, i \in DOMAIN schedule :
       status[i] = "pending" /\ (i = cur => phase = "detect" \/ (phase = "save" /\ t \in todo))
         => i \notin DOMAIN rows[t]
  /\ \A t \in Trials : \A i \in DOMAIN rows[t] :
       /\ DOMAIN rows[t][i] = RowFields
       /\ rows[t][i].ts = schedule[i]
       /\ rows[t][i].found \subseteq Files \X Int
       /\ \A v \in rows[t][i].found : v[2] <= schedule[i] * Ns

Staged(t) == (phase = "detect" /\ t \notin todo) \/ (phase = "save" /\ t \in todo)

WindowsAreStaged ==
  cur # 0 =>
    /\ mode # "replay" => clock > schedule[cur] * Ns
    /\ \A t \in DOMAIN kept :
         /\ StartTs(t) <= schedule[cur]
         /\ Staged(t) =>
              /\ Window(t) \subseteq found[t]
              /\ \A v \in found[t] :
                   /\ Owner[v[1]] = t /\ \E x \in writes[v[1]] : v[2] = LogicalTime(v[1], x)
                   /\ Horizon(t) * Ns < v[2] /\ v[2] <= schedule[cur] * Ns

Versions(t) == {f \in Files : Owner[f] = t} \X Int

FrameOK ==
  /\ root \in [Trials -> Nat]
  /\ schedule \in Seq(Int)
  /\ rows = [t \in Trials |-> rows[t]] /\ profile = [t \in Trials |-> profile[t]]
  /\ todo \subseteq DOMAIN kept
  /\ \A t \in DOMAIN found : found[t] \subseteq Versions(t)

LedgerInv == TypeOK /\ FrameOK /\ RowsFollowTicks /\ WindowsAreStaged

\* The inductive invariant behind the coverage properties.  The profile of a trial
\* whose rows came in index order and whose ticks completed counts the corpus of its
\* earlier rows, the seeds once the tick in hand has bootstrapped it, and the new
\* corpus once merged; a new row lies above all others or is out of order.
Sound(t) ==
  \A j \in DOMAIN rows[t] \ {cur} : rows[t][j].prev < j /\ status[j] = "completed"

Earlier(t) == UNION {rows[t][j].kept \cap Corpus : j \in DOMAIN rows[t] \ {cur}}

CoverPhases == {"execute", "merge", "persist", "crashes"}
Bootstraps(t) == phase \in CoverPhases /\ t \in Measured
Merges(t) ==
  Bootstraps(t) /\ (phase \in {"persist", "crashes"} \/ (phase = "merge" /\ ~broken /\ t \notin todo))

ProfileFollowsRows(t) ==
  /\ ~Bootstraps(t) => profile[t] = IF Earlier(t) = {} THEN {} ELSE SeedCoverage \cup Earlier(t)
  /\ Bootstraps(t) /\ phase \in {"execute", "merge"} /\ (phase = "merge" => t \in todo) =>
       profile[t] = SeedCoverage \cup Earlier(t)
  /\ Merges(t) => profile[t] = SeedCoverage \cup Earlier(t) \cup (kept[t] \cap Corpus)

RowsOfFrame ==
  /\ phase \in {"merge", "persist"} => todo \subseteq Measured
  /\ \A t \in DOMAIN kept :
       /\ phase \in CoverPhases \/ (phase = "save" /\ ~broken /\ t \notin todo) => cur \in DOMAIN rows[t]
       /\ Staged(t) => before[t] = LatestRow(t)
       /\ phase # "detect" => kept[t] \subseteq FilesIn(found[t])
  /\ \A t \in Trials : cur \in DOMAIN rows[t] =>
       /\ rows[t][cur].prev \in Nat
       /\ \A j \in DOMAIN rows[t] \ {cur} : j <= rows[t][cur].prev
       /\ t \in Measured /\ (phase = "crashes" \/ (phase = "persist" /\ t \notin todo))
            => rows[t][cur].cov = profile[t]

CoverageFollowsTicks ==
  \A t \in Trials : Sound(t) =>
    /\ ProfileFollowsRows(t)
    /\ cur \in DOMAIN rows[t] /\ rows[t][cur].prev < cur /\ t \notin Measured
         => rows[t][cur].cov = SeedCoverage \cup Earlier(t)

InOrder(t, i) == \A j \in DOMAIN rows[t] : j <= i => rows[t][j].prev < j

\* As long as every tick so far completed in index order, the coverage of a row
\* is that of the seeds and of every corpus file copied up to it, whether it was
\* measured, merged or carried forward (collector.py:243-265, coverage.py:249-253).
CumulativeCoverage ==
  \A t \in Trials, i \in DOMAIN schedule :
    /\ i \in DOMAIN rows[t] /\ InOrder(t, i)
    /\ \A j \in DOMAIN rows[t] : j <= i => status[j] = "completed"
    => rows[t][i].cov = SeedCoverage
         \cup UNION {rows[t][j].kept \cap Corpus : j \in {k \in DOMAIN rows[t] : k <= i}}

\* "Persist trial summaries only after every merge has succeeded" (coverage.py:136):
\* one measured row of a tick with coverage means that no trial of the tick
\* has lost its new corpus.
PersistedAfterMerges ==
  \A t, u \in Trials : \A i \in DOMAIN rows[t] \cap DOMAIN rows[u] :
    rows[t][i].kept \cap Corpus # {} /\ rows[t][i].cov # {}
      => rows[u][i].kept \cap Corpus \subseteq profile[u]

\* The inductive invariant behind it: a measured row of the tick in hand has no
\* coverage until the tick persists, and by then every trial has merged.
MergesComeFirst ==
  /\ \A t \in Trials :
       cur \in DOMAIN rows[t] => t \in DOMAIN kept /\ rows[t][cur].kept = kept[t]
  /\ \A t \in Trials : phase \in {"save", "execute", "merge"} /\ cur \in DOMAIN rows[t] =>
       rows[t][cur].kept \cap Corpus = {} \/ rows[t][cur].cov = {}
  /\ phase = "merge" /\ ~broken => \A t \in DOMAIN kept \ todo : kept[t] \cap Corpus \subseteq profile[t]
  /\ phase \in {"persist", "crashes"} => \A t \in DOMAIN kept : kept[t] \cap Corpus \subseteq profile[t]

MergeInv == LedgerInv /\ MergesComeFirst /\ PersistedAfterMerges

\* A new campaign summary covers every measured row of its tick and every earlier
\* campaign summary, although ticks in between may be aborted in any step and
\* trials of the campaign left out of the tick (coverage.py:154-227).
CampaignCoverageGrows ==
  [][\A i \in DOMAIN agg' \ DOMAIN agg :
       /\ \A j \in DOMAIN agg : agg[j] \subseteq agg'[i]
       /\ \A t \in Trials : i \in DOMAIN rows[t] /\ rows[t][i].kept \cap Corpus # {}
            => rows[t][i].cov # {} /\ rows[t][i].cov \subseteq agg'[i]]_<<agg, rows>>

\* The inductive invariant behind it: the campaign summary of a tick stays below the
\* profiles of the trials it was made of, and a replay takes its ticks in turn.
CampaignFollowsTicks ==
  /\ mode = "replay" =>
       \A i, j \in DOMAIN status : i < j /\ status[i] = "pending" => status[j] = "pending" /\ j # cur
  /\ \A j \in DOMAIN agg :
       /\ status[j] # "pending" \/ (j = cur /\ phase = "crashes")
       /\ agg[j] \subseteq UNION {profile[t] : t \in {u \in Trials : mode = "live" \/ StartTs(u) <= schedule[j]}}

CampaignInv == MergeInv /\ RowsOfFrame /\ CampaignFollowsTicks

CoverageInv == MergeInv /\ RowsOfFrame /\ CoverageFollowsTicks /\ CumulativeCoverage

\* A bug is dated by the earliest stored crash that hits it, in whatever tick and
\* trial, and names its snapshot; the date lies in the snapshot's window, whose
\* first second it shares with the window before (db/bug.py:103-121, bugs.py:193).
DatesOf(id, key) ==
  {rows[id[2]][id[3]].dates[f] : f \in {g \in rows[id[2]][id[3]].kept \cap Crashes : BugOf[g] = key}}
HitsOf(key) == {id \in DOMAIN hits : id[1] = key}
Rewrites(S) == \E f \in S : \E x, y \in writes[f] : x # y

BugsDatedByFirstHit ==
  \A key \in DOMAIN bugs :
    LET bug == bugs[key]
        id  == <<key, bug.trial, bug.idx>>
        row == rows[bug.trial][bug.idx]
    IN /\ id \in HitsOf(key) /\ bug.ts \in DatesOf(id, key)
       /\ bug.ts = Min(UNION {DatesOf(other, key) : other \in HitsOf(key)})
       /\ bug.ts <= row.ts \/ Rewrites({f \in row.kept \cap Crashes : BugOf[f] = key})
       /\ mode = "live" /\ row.prev # 0 => rows[bug.trial][row.prev].ts <= bug.ts

\* The inductive invariant behind it: what every row dates, and where hits belong.
RowsAreDated ==
  \A t \in Trials : \A i \in DOMAIN rows[t] :
    LET row == rows[t][i]
    IN /\ row.prev \in {0} \cup DOMAIN rows[t]
       /\ row.kept \subseteq Files /\ row.dates \in [row.kept \cap Crashes -> Nat]
       /\ \A f \in row.kept \cap Crashes :
            /\ row.dates[f] <= row.ts \/ Rewrites({f})
            /\ mode = "live" /\ row.prev # 0 => rows[t][row.prev].ts <= row.dates[f]

HitsHaveRows ==
  \A id \in DOMAIN hits :
    /\ id = <<id[1], id[2], id[3]>> /\ id[2] \in Trials /\ id[3] \in DOMAIN rows[id[2]]
    /\ DatesOf(id, id[1]) # {} /\ id[1] \in DOMAIN bugs

BugsInv == MergeInv /\ RowsOfFrame /\ RowsAreDated /\ HitsHaveRows /\ BugsDatedByFirstHit

\* "without persisting partial snapshot hit counts" (bugs.py:97): the hits of all
\* snapshots of a bug add up to the copied crash files that reproduce it, except
\* those of ticks that did not complete.
HitsAreComplete ==
  \A key \in {BugOf[f] : f \in Crashes} \ {NotReproduced}, t \in Trials :
    \A i \in DOMAIN rows[t] :
      LET n == Cardinality({f \in rows[t][i].kept \cap Crashes : BugOf[f] = key})
      IN /\ <<key, t, i>> \in DOMAIN hits => hits[<<key, t, i>>] = n
         /\ status[i] = "completed" /\ n > 0 => <<key, t, i>> \in DOMAIN hits

\* The inductive invariant behind it: hits are stored for the tick in hand only, and
\* a tick none of whose saves failed has those of all trials it is done with.
HitsFollowTicks ==
  /\ \A id \in DOMAIN hits :
       id[3] \in DOMAIN status /\ (status[id[3]] = "pending" => id[3] = cur /\ phase = "crashes")
  /\ phase = "crashes" /\ ~broken =>
       \A t \in DOMAIN kept \ todo : \A key \in KeysOf(t) : <<key, t, cur>> \in DOMAIN hits

HitsInv == MergeInv /\ HitsFollowTicks /\ HitsAreComplete

\* Replay "runs coverage, crash reproduction, ... over the historical artifacts"
\* (README.rst:299-301): a replay that completed all its ticks has counted every file.
ReplayCountsEveryFile ==
  mode = "replay" /\ (\A i \in DOMAIN status : status[i] = "completed")
    => \A f \in Written : \E i \in DOMAIN rows[Owner[f]] : f \in FilesIn(rows[Owner[f]][i].found)

=============================================================================
