----------------------------- MODULE CoverageRoot -----------------------------
(***************************************************************************)
(* Measuring the coverage of one output root, in successive ticks:         *)
(* repro/coverage_measure.py on the host, coverage_worker.py in its        *)
(* containers, and the callers in snapshot/coverage.py and                 *)
(* artifacts/seeds.py.  A root belongs to a trial (its cumulative profile  *)
(* lies in the snapshot directory), to a campaign or to a seed baseline    *)
(* (the profile lies in a state directory inside the root itself).         *)
(*                                                                         *)
(* The inputs of a tick are executed in batches, a container each; then    *)
(* one container merges the profiles and renders the artifacts into a      *)
(* temporary root, which replaces the old one by renames that take the     *)
(* state directory and, without a new report, the last report along.       *)
(* Each batch and the merge are tried three times and any step may fail.   *)
(* A profile is the number of times it counts each input; the profile      *)
(* that counts nothing is a missing or an unusable one.                    *)
(***************************************************************************)
EXTENDS Integers, Sequences, FiniteSets, FiniteSetsExt, SequencesExt

CONSTANTS
  Inputs,      \* the corpus inputs
  SeedInput,   \* the inputs of the seed baseline, as one input
  Corpora,     \* the new inputs of each tick, sorted by path
  BatchSize,   \* DEFAULT_COVERAGE_BATCH_SIZE
  Attempts,    \* COVERAGE_PIPELINE_ATTEMPTS
  Kinds,       \* the roots to consider: "trial", "campaign", "seed"
  Modes,       \* the input modes to consider: "in_process", "file"
  Absent,      \* a file or directory that does not exist
  MaxFaults    \* bound: failing steps of a behaviour

All == Inputs \cup {SeedInput}

\* What a root or its snapshot directory may hold.
Result == [tick : Nat, covered : SUBSET All, sets : {Absent} \cup Nat, source : {Absent} \cup Nat]
Report == [tick : Nat, shown : BOOLEAN]
StateDir == [profile : [All -> Nat], candidate : [All -> Nat]]
Contents == [result : {Absent} \cup Result, html : {Absent} \cup Report,
             state : {Absent} \cup StateDir, work : BOOLEAN]
Directory == {Absent} \cup Contents

\* An input is the copy of a file in the snapshot directory of one tick.
ASSUME CoverageRootAssumption ==
  /\ IsFiniteSet(Inputs) /\ SeedInput \notin Inputs
  /\ Corpora \in Seq(Seq(Inputs))
  /\ \A i \in DOMAIN Corpora : Len(Corpora[i]) > 0
  /\ \A i, j \in DOMAIN Corpora : \A m \in DOMAIN Corpora[i], n \in DOMAIN Corpora[j] :
       Corpora[i][m] = Corpora[j][n] => i = j /\ m = n
  /\ BatchSize \in Nat \ {0} /\ Attempts \in Nat \ {0} /\ MaxFaults \in Nat
  /\ Kinds \subseteq {"trial", "campaign", "seed"} /\ Modes \subseteq {"in_process", "file"}
  /\ Absent \notin Result \cup Report \cup StateDir \cup Contents /\ Absent \notin Nat

VARIABLES
  kind,       \* the kind of the root
  mode,       \* the input mode of the fuzz target
  baseline,   \* was a seed baseline measured?
  faults,     \* faults still to come
  tick,       \* the number of measurements begun
  export,     \* does this tick write sets (and, but for a trial, a report)?
  batches,    \* the batches of the tick
  step,       \* the next step of the measurement
  tries,      \* the failed attempts to merge
  merged,     \* the candidate profile in the temporary root
  dir,        \* the contents of the directories
  undone,     \* did every failed replacement restore what it had moved?
  outcome,    \* how the last measurement ended
  old         \* history: the directories when the measurement began

inputs == <<kind, mode, baseline>>
vars == <<inputs, faults, tick, export, batches, step, tries, merged, dir, undone, outcome, old>>

NoProfile == [i \in All |-> 0]
ProfileOf(S) == [i \in All |-> IF i \in S THEN 1 ELSE 0]
Covered(p) == {i \in All : p[i] > 0}
Usable(p) == p # NoProfile

\* llvm-profdata merge adds the counts of the profiles of a sequence: the merged
\* profile counts an input as often as all of them together.
Merge(ps) == [i \in All |-> Cardinality(UNION {{k} \X (1..ps[k][i]) : k \in DOMAIN ps})]

Render == export /\ kind # "trial"
StateHome == IF kind = "trial" THEN "snapshots" ELSE "root"
HasState(d) == d # Absent /\ d.state # Absent
State == dir[StateHome].state

Empty == [result |-> Absent, html |-> Absent, state |-> Absent, work |-> FALSE]
NoState == [profile |-> NoProfile, candidate |-> NoProfile]
Made(d) == IF d = Absent THEN Empty ELSE d
MadeState(d) == IF HasState(d) THEN d ELSE [Made(d) EXCEPT !.state = NoState]

-----------------------------------------------------------------------------
\* Seeded fault: an input that exits with zero is taken to have a profile.
StatusByExitCode(result) ==
  CASE result[1] = "none" -> "timeout"
    [] result[1] = "error" -> "failed"
    [] OTHER -> "ok"

Status(result) ==
  CASE result[1] = "none" -> "timeout"
    [] result[1] = "error" -> "failed"
    [] result[1] = "zero" /\ ~result[2] -> "missing_profraw"
    [] OTHER -> "ok"

\* Return code class and "did it leave a raw profile?" of each input; a batch
\* executed in one process has one result, and no time limit of its own.
Results(files) ==
  IF mode = "in_process"
  THEN {[i \in files |-> r] : r \in {"zero", "error"} \X BOOLEAN}
  ELSE [files -> {"zero", "error", "none"} \X BOOLEAN]

\* What input_exec_diagnostics.json says of a batch.
Diagnosed(results) == [i \in DOMAIN results |-> Status(results[i])]

\* Consecutive files, BatchSize to a batch.
Planned(files) ==
  [k \in 1..((Len(files) + BatchSize - 1) \div BatchSize) |->
     LET part == {files[n] : n \in {m \in DOMAIN files : (m - 1) \div BatchSize = k - 1}}
     IN [files |-> part, state |-> "waiting", tries |-> 0,
         profile |-> NoProfile, status |-> [i \in part |-> "unknown"]]]

\* An attempt first removes the profile of the one before.
Cleared(b) == NoProfile

Init ==
  /\ kind \in Kinds /\ mode \in Modes
  /\ baseline \in (IF kind = "trial" THEN BOOLEAN ELSE {FALSE})
  /\ faults = MaxFaults /\ tick = 0 /\ export = FALSE
  /\ batches = <<>> /\ step = "idle" /\ tries = 0 /\ merged = NoProfile
  /\ dir = [d \in {"root", "tmp", "backup", "snapshots"} |-> Absent]
  /\ undone = TRUE /\ outcome = "none" /\ old = dir

\* bootstrap_from_seed_baseline: the baseline is tick 0.
Bootstrap(d) ==
  IF kind = "trial" /\ baseline /\ ~Usable(d["snapshots"].state.profile)
  THEN [d EXCEPT !["snapshots"].state.profile = ProfileOf({SeedInput}),
                 !["root"].result = IF @ = Absent
                                    THEN [tick |-> 0, covered |-> {SeedInput}, sets |-> 0, source |-> 0]
                                    ELSE @]
  ELSE d

Begin ==
  /\ step = "idle" /\ tick < Len(Corpora)
  /\ kind = "seed" => tick = 0
  /\ tick' = tick + 1
  /\ export' \in (IF kind = "seed" THEN {TRUE} ELSE BOOLEAN)
  /\ dir' = CASE kind = "trial" ->
                   Bootstrap([dir EXCEPT !["root"] = Made(@), !["snapshots"] = MadeState(@)])
              [] kind = "seed" -> [dir EXCEPT !["root"] = [Empty EXCEPT !.work = TRUE]]
              [] OTHER -> [dir EXCEPT !["root"] = MadeState(@)]
  /\ old' = dir'
  /\ IF kind = "campaign"
     THEN batches' = <<>> /\ step' = "merge"
     ELSE batches' = Planned(Corpora[tick + 1]) /\ step' = "batches"
  /\ tries' = 0 /\ undone' = TRUE /\ outcome' = "none"
  /\ UNCHANGED <<inputs, faults, merged>>

rest == <<inputs, tick, export, undone, old>>

RunBatch(b) ==
  /\ step = "batches" /\ batches[b].state = "waiting"
  /\ \E results \in Results(batches[b].files) :
       LET raw == {i \in DOMAIN results : results[i][2]}
       IN batches' = [batches EXCEPT
            ![b].state = "done",
            ![b].status = Diagnosed(results),
            ![b].profile = IF raw = {} THEN Cleared(b) ELSE ProfileOf(raw)]
  /\ UNCHANGED <<rest, faults, step, tries, merged, dir, outcome>>

\* The container fails, before or after it wrote the profile of the batch.
FailBatch(b) ==
  /\ step = "batches" /\ batches[b].state = "waiting" /\ faults > 0
  /\ faults' = faults - 1
  /\ \E profile \in {NoProfile, ProfileOf(batches[b].files)} :
       batches' = [batches EXCEPT
         ![b].tries = @ + 1, ![b].profile = profile,
         ![b].state = IF batches[b].tries + 1 = Attempts THEN "failed" ELSE "waiting"]
  /\ UNCHANGED <<rest, step, tries, merged, dir, outcome>>

\* Every batch has ended; one that failed ends the measurement.
BatchesDone ==
  /\ step = "batches"
  /\ \A b \in DOMAIN batches : batches[b].state # "waiting"
  /\ IF \E b \in DOMAIN batches : batches[b].state = "failed"
     THEN step' = "idle" /\ outcome' = "failed" /\ dir' = dir
     ELSE /\ step' = "merge" /\ outcome' = outcome
          /\ dir' = [dir EXCEPT ![StateHome] = MadeState(@)]
  /\ UNCHANGED <<rest, faults, batches, tries, merged>>

-----------------------------------------------------------------------------
Measured == UNION {ToSet(Corpora[k]) : k \in 1..tick}

\* The profiles to merge.  The batches of a seed baseline lie in its root; a
\* campaign merges the profiles of its trials.
Sources ==
  LET ofBatches == [b \in DOMAIN batches |-> batches[b].profile]
  IN CASE kind = "trial" -> <<State.profile>> \o ofBatches
       [] kind = "campaign" -> <<ProfileOf(Measured)>>
       [] OTHER -> IF dir["root"] # Absent /\ dir["root"].work THEN ofBatches ELSE <<NoProfile>>

Cleanup(d) == IF HasState(d[StateHome]) THEN [d EXCEPT ![StateHome].state.candidate = NoProfile] ELSE d

\* Seeded fault: one attempt more.
AttemptFailsOnceMore(d) ==
  /\ tries' = tries + 1
  /\ IF tries = Attempts
     THEN step' = "idle" /\ outcome' = "failed" /\ dir' = Cleanup(d)
     ELSE step' = "merge" /\ outcome' = outcome /\ dir' = d

\* An exception of one attempt: the next one, or the error.
AttemptFails(d) ==
  /\ tries' = tries + 1
  /\ IF tries + 1 = Attempts
     THEN step' = "idle" /\ outcome' = "failed" /\ dir' = Cleanup(d)
     ELSE step' = "merge" /\ outcome' = outcome /\ dir' = d

\* Whatever an earlier attempt left in the temporary root is deleted.
StartAttempt ==
  /\ step = "merge"
  /\ step' = "work"
  /\ dir' = [dir EXCEPT !["tmp"] = Empty]
  /\ merged' = Merge(Sources)
  /\ UNCHANGED <<rest, faults, batches, tries, outcome>>

Previous == IF dir["root"] = Absent THEN Absent ELSE dir["root"].result

\* The sets the worker wrote, or the last ones if they can be copied.
Sets(copied) ==
  CASE export -> tick
    [] ~export /\ Previous # Absent /\ copied -> Previous.sets
    [] OTHER -> Absent

\* The tick of the sets, as the provenance record has it.
SourceTick ==
  CASE export -> tick
    [] ~export /\ Previous # Absent -> Previous.source
    [] OTHER -> Absent

NewResult(copied) ==
  [tick |-> tick, covered |-> Covered(merged), sets |-> Sets(copied), source |-> SourceTick]

\* A report renderer that fails leaves an empty report.
Html(shown) == IF Render THEN [tick |-> tick, shown |-> shown] ELSE Absent

Work ==
  /\ step = "work"
  /\ \E shown, copied \in BOOLEAN :
       /\ ~shown => Render
       /\ ~copied => ~export /\ Previous # Absent
       /\ (~shown \/ ~copied) => faults > 0
       /\ faults' = IF shown /\ copied THEN faults ELSE faults - 1
       /\ IF ~Usable(merged) THEN AttemptFails(dir)
          ELSE /\ dir' = [dir EXCEPT
                    !["tmp"].result = NewResult(copied),
                    !["tmp"].html = Html(shown)]
               /\ step' = "save"
               /\ UNCHANGED <<tries, outcome>>
  /\ UNCHANGED <<rest, batches, merged>>

\* Seeded fault: the cumulative profile is replaced before the root is.
SaveProfileEarly ==
  /\ step = "save"
  /\ IF HasState(dir[StateHome])
     THEN /\ dir' = [dir EXCEPT ![StateHome].state = [candidate |-> merged, profile |-> merged]]
          /\ step' = "state"
          /\ UNCHANGED <<tries, outcome>>
     ELSE AttemptFails(dir)
  /\ UNCHANGED <<rest, faults, batches, merged>>

\* The candidate goes to the state directory, which a failed restore loses.
Save ==
  /\ step = "save"
  /\ IF HasState(dir[StateHome])
     THEN /\ dir' = [dir EXCEPT ![StateHome].state.candidate = merged]
          /\ step' = "state"
          /\ UNCHANGED <<tries, outcome>>
     ELSE AttemptFails(dir)
  /\ UNCHANGED <<rest, faults, batches, merged>>

\* path.rename(target) for a carried directory of the old root.
Carried(name) == dir["root"] # Absent /\ dir["root"][name] # Absent
Carry(name, next) ==
  /\ dir' = IF Carried(name)
            THEN [dir EXCEPT !["tmp"][name] = dir["root"][name], !["root"][name] = Absent]
            ELSE dir
  /\ step' = next
  /\ UNCHANGED <<rest, faults, batches, tries, merged, outcome>>

CarryState == step = "state" /\ Carry("state", "html")
CarryHtml == step = "html" /\ ~Render /\ Carry("html", "retire")
SkipHtml ==
  /\ step = "html" /\ Render /\ step' = "retire"
  /\ UNCHANGED <<rest, faults, batches, tries, merged, dir, outcome>>

\* _promote_dir: the old root is renamed to a backup of a new name ...
Retire ==
  /\ step = "retire" /\ step' = "publish"
  /\ dir' = [dir EXCEPT !["backup"] = dir["root"], !["root"] = Absent]
  /\ UNCHANGED <<rest, faults, batches, tries, merged, outcome>>

\* ... the temporary root to the root, and the backup is deleted.
Publish ==
  /\ step = "publish" /\ step' = "commit"
  /\ dir' = [dir EXCEPT !["root"] = dir["tmp"], !["tmp"] = Absent, !["backup"] = Absent]
  /\ UNCHANGED <<rest, faults, batches, tries, merged, outcome>>

\* The candidate replaces the profile, and the measurement has a summary.
Commit ==
  /\ step = "commit" /\ step' = "idle" /\ outcome' = "done"
  /\ dir' = [dir EXCEPT ![StateHome].state = [profile |-> State.candidate, candidate |-> NoProfile]]
  /\ UNCHANGED <<rest, faults, batches, tries, merged>>

-----------------------------------------------------------------------------
FailAttempt ==
  /\ step \in {"merge", "work", "save", "commit"} /\ faults > 0
  /\ faults' = faults - 1
  /\ AttemptFails(dir)
  /\ UNCHANGED <<rest, batches, merged>>

\* A rename fails, if there is anything to rename.
FailReplacement ==
  /\ step \in {"state", "html", "retire", "publish"} /\ faults > 0
  /\ step = "state" => Carried("state")
  /\ step = "html" => ~Render /\ Carried("html")
  /\ step = "retire" => dir["root"] # Absent
  /\ faults' = faults - 1 /\ step' = "undo"
  /\ UNCHANGED <<rest, batches, tries, merged, dir, outcome>>

\* The renames that undo a failed replacement: the backup first, then what
\* was carried, the last one first.
MoveBack(d, name) ==
  [d EXCEPT !["root"][name] = d["tmp"][name], !["tmp"][name] = Absent]
Moved(name) == dir["tmp"][name] # Absent
Restore(d) ==
  IF d["root"] = Absent /\ d["backup"] # Absent
  THEN [d EXCEPT !["root"] = d["backup"], !["backup"] = Absent] ELSE d
GiveBackHtml(d) == IF Moved("html") /\ ~Render THEN MoveBack(d, "html") ELSE d
GiveBackState(d) == IF Moved("state") THEN MoveBack(d, "state") ELSE d

\* Seeded fault: the carried directories stay in the temporary root.
RestoreOnly(d) == Restore(d)

Restored(d) == GiveBackState(GiveBackHtml(Restore(d)))

Undo ==
  /\ step = "undo"
  /\ AttemptFails(Restored(dir))
  /\ UNCHANGED <<rest, faults, batches, merged>>

\* One of these renames fails, and the ones after it do not happen.
FailUndo ==
  /\ step = "undo" /\ faults > 0
  /\ \E d \in {dir, Restore(dir), GiveBackHtml(Restore(dir))} :
       /\ Restore(dir)["root"] # Absent /\ d # Restored(dir)
       /\ AttemptFails(d)
  /\ faults' = faults - 1 /\ undone' = FALSE
  /\ UNCHANGED <<inputs, tick, export, old, batches, merged>>

Next ==
  \/ Begin \/ BatchesDone
  \/ \E b \in DOMAIN batches : RunBatch(b) \/ FailBatch(b)
  \/ StartAttempt \/ Work \/ Save
  \/ CarryState \/ CarryHtml \/ SkipHtml \/ Retire \/ Publish \/ Commit
  \/ FailAttempt \/ FailReplacement \/ Undo \/ FailUndo

Spec == Init /\ [][Next]_vars

-----------------------------------------------------------------------------
DirNames == {"root", "tmp", "backup", "snapshots"}
Steps == {"idle", "batches", "merge", "work", "save", "state", "html",
          "retire", "publish", "commit", "undo"}
Statuses == {"unknown", "ok", "failed", "timeout", "missing_profraw"}
Batch == [files : SUBSET Inputs, state : {"waiting", "done", "failed"}, tries : 0..Attempts,
          profile : [All -> {0, 1}], status : UNION {[files -> Statuses] : files \in SUBSET Inputs}]

\* Type invariant: the values every variable may take, and no attempt is counted
\* beyond the limit (merge_coverage_outputs, execute_coverage_batch).
TypeOK ==
  /\ kind \in Kinds /\ mode \in Modes /\ baseline \in BOOLEAN
  /\ faults \in 0..MaxFaults /\ tick \in 0..Len(Corpora) /\ export \in BOOLEAN
  /\ step \in Steps /\ tries \in 0..Attempts
  /\ merged \in [All -> Nat]
  /\ undone \in BOOLEAN /\ outcome \in {"none", "done", "failed"}
  /\ dir \in [DirNames -> Directory] /\ old \in [DirNames -> Directory]
  /\ batches \in Seq(Batch)

Over == step = "idle" /\ tick > 0

\* coverage_measurement_context: an in-process batch has one result, which is
\* the batch's; the profiles lost to a batch mate are all those of its inputs.
Problematic(b) == {i \in batches[b].files : batches[b].status[i] # "ok"}
Lost(b) ==
  IF mode = "in_process" /\ Problematic(b) # {} THEN batches[b].files ELSE Problematic(b)
LostProfiles == Cardinality(UNION {{b} \X Lost(b) : b \in DOMAIN batches})

\* The root holds what it held when the measurement began, or one complete new
\* measurement with the last rendered report and the state directory; carried
\* coverage sets are dated by the tick that wrote them.  Only a replacement
\* whose undoing fails as well is exempt (_replace_out_root, _promote_dir).
OldOrNew ==
  Over /\ undone =>
    LET root == dir["root"]  was == old["root"]
    IN /\ root # Absent
       /\ \/ root.result = was.result /\ root.html = was.html
          \/ /\ root.result # Absent /\ root.result.tick = tick
             /\ IF Render THEN root.html.tick = tick ELSE root.html = was.html
       /\ outcome = "done" => /\ root.result # Absent
                              /\ root.result.tick = tick
                              /\ root.result.covered = Covered(State.profile)
       /\ HasState(was) => HasState(root)
       /\ root.result # Absent /\ root.result.sets # Absent => root.result.source = root.result.sets

\* However often a merge is retried, and whether or not its root could be
\* restored, the cumulative profile of a trial counts an input at most once,
\* keeps all it had, and is untouched by a measurement that fails.
CumulativeProfile ==
  kind = "trial" /\ tick > 0 =>
    LET now == State.profile  was == old["snapshots"].state.profile
    IN /\ \A i \in All : was[i] <= now[i] /\ now[i] <= 1
       /\ Over => now = IF outcome = "done"
                        THEN Merge(<<was>> \o [b \in DOMAIN batches |-> batches[b].profile])
                        ELSE was

\* The diagnostics stored with a measurement tell which inputs its profile
\* lacks: an input reported ok is counted, one reported to have left no raw
\* profile is not, whatever an earlier attempt wrote (coverage_worker.py), and
\* the provenance accounts for every input the profiles lack.
DiagnosticsHonest ==
  /\ (\A b \in DOMAIN batches : batches[b].state = "done") =>
       Cardinality(UNION {{b} \X {i \in batches[b].files : batches[b].profile[i] = 0} :
                            b \in DOMAIN batches}) <= LostProfiles
  /\ \A b \in DOMAIN batches : batches[b].state = "done" =>
       \A i \in batches[b].files :
         /\ batches[b].status[i] = "ok" => batches[b].profile[i] = 1
         /\ batches[b].status[i] = "missing_profraw" => batches[b].profile[i] = 0

-----------------------------------------------------------------------------
(* The inductive invariant behind these properties.                         *)

Attempting == {"merge", "work", "save", "state", "html", "retire", "publish", "commit", "undo"}
Replacing == {"state", "html", "retire", "publish", "undo"}

\* The batches of a tick share no input, and their profiles count their own.
BatchesOK ==
  /\ \A b \in DOMAIN batches :
       /\ batches[b].state = "waiting" => batches[b].tries < Attempts
       /\ batches[b].files \subseteq ToSet(Corpora[tick])
       /\ Covered(batches[b].profile) \subseteq batches[b].files
       /\ \A c \in DOMAIN batches : b # c => batches[b].files \cap batches[c].files = {}
  /\ tick = 0 => batches = <<>> /\ dir["snapshots"] = Absent
  /\ step # "idle" => tick > 0 /\ tries < Attempts

\* The profile of a trial is that at the start of the measurement until the commit.
SeenBefore(k) == {SeedInput} \cup UNION {ToSet(Corpora[m]) : m \in 1..k}
TrialOK ==
  kind = "trial" /\ tick > 0 =>
    /\ HasState(dir["snapshots"]) /\ HasState(old["snapshots"])
    /\ LET now == State.profile  was == old["snapshots"].state.profile
       IN /\ was \in [All -> {0, 1}] /\ Covered(was) \subseteq SeenBefore(tick - 1)
          /\ now = IF step = "idle" /\ outcome = "done"
                   THEN Merge(<<was>> \o [b \in DOMAIN batches |-> batches[b].profile]) ELSE was
          /\ step \in Attempting \ {"merge"} =>
               merged = Merge(<<was>> \o [b \in DOMAIN batches |-> batches[b].profile])

\* The old root while it is replaced, and the last report wherever it is.
Home == Restore(dir)["root"]
LastHtml == IF ~Render /\ Moved("html") THEN dir["tmp"].html ELSE Home.html

\* The state directory, wherever it is.
Held ==
  IF kind = "trial" THEN dir["snapshots"]
  ELSE IF step \in {"html", "retire", "publish"} THEN dir["tmp"] ELSE dir["root"]

Whole(d) ==
  /\ d # Absent /\ d.result # Absent
  /\ d.result.tick = tick /\ d.result.covered = Covered(merged)
  /\ Render => d.html # Absent /\ d.html.tick = tick

\* The new root is complete before the old one is touched, and what was moved out
\* of the old root has a place to be moved back to.
NewRootOK ==
  /\ step \in {"save"} \cup Replacing => Whole(dir["tmp"])
  /\ step = "commit" => Whole(dir["root"])
  /\ step \in {"work", "save", "state"} => dir["tmp"] # Absent /\ dir["tmp"].state = Absent
  /\ step \in {"save", "state", "html"} /\ ~Render => dir["tmp"].html = Absent
  /\ step \in {"state", "html", "retire", "publish", "commit"} =>
       HasState(Held) /\ Held.state.candidate = merged
  /\ step \in {"html", "retire"} /\ (Moved("state") \/ (Moved("html") /\ ~Render)) =>
       dir["root"] # Absent
  /\ step \in {"publish", "undo"} /\ (Moved("state") \/ (Moved("html") /\ ~Render)) =>
       Home # Absent
  /\ step = "publish" => dir["root"] = Absent

\* Sets that were carried over are dated by the tick that wrote them.
SetsDated ==
  \A d \in DirNames :
    dir[d] # Absent /\ dir[d].result # Absent /\ dir[d].result.sets # Absent
      => dir[d].result.source = dir[d].result.sets

\* A root with this result and this report is the old one or a complete new one.
Acceptable(result, html) ==
  LET was == old["root"]
  IN \/ result = was.result /\ html = was.html
     \/ /\ result # Absent /\ result.tick = tick
        /\ IF Render THEN html # Absent /\ html.tick = tick ELSE html = was.html

\* As long as every failed replacement was undone, an acceptable root is in place,
\* or all its parts lie where the replacement put them.
OldRootOK ==
  undone /\ tick > 0 =>
    LET was == old["root"]  root == dir["root"]
    IN /\ was # Absent
       /\ step \in {"idle", "batches", "merge", "work", "save", "state", "html", "retire", "commit"} => root # Absent
       /\ step \in {"idle", "batches", "merge", "work", "save", "state", "commit"} =>
            /\ Acceptable(root.result, root.html)
            /\ HasState(was) => HasState(root)
       /\ step \in {"html", "retire", "publish", "undo"} =>
            /\ Home # Absent /\ Acceptable(Home.result, LastHtml)
            /\ HasState(was) => Moved("state") \/ HasState(Home)
       /\ step \in {"html", "retire", "publish"} /\ HasState(was) => Moved("state")
       /\ step \in {"retire", "publish"} /\ ~Render => dir["tmp"].html = was.html
       /\ step = "idle" /\ outcome = "done" =>
            /\ root.result # Absent /\ root.result.tick = tick
            /\ root.result.covered = Covered(State.profile)

RootInv == TypeOK /\ BatchesOK /\ TrialOK /\ NewRootOK /\ SetsDated /\ OldRootOK

=============================================================================
