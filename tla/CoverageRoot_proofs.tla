------------------------- MODULE CoverageRoot_proofs -------------------------
(***************************************************************************)
(* Proofs about CoverageRoot: the type invariant and the four properties   *)
(* of one output root, for any inputs, batch size, number of attempts and  *)
(* number of failing steps, from the inductive invariant RootInv.          *)
(***************************************************************************)
EXTENDS CoverageRoot, FiniteSetTheorems, TLAPS

-----------------------------------------------------------------------------
(* Directories.                                                             *)

\* Replacing one part of a directory keeps the others.
LEMMA ContentsExcept ==
  ASSUME NEW c \in Contents,
         NEW r \in {Absent} \cup Result, NEW h \in {Absent} \cup Report,
         NEW s \in {Absent} \cup StateDir
  PROVE  /\ [c EXCEPT !.result = r] \in Contents /\ [c EXCEPT !.html = h] \in Contents
         /\ [c EXCEPT !.state = s] \in Contents
         /\ [c EXCEPT !.result = r].result = r /\ [c EXCEPT !.result = r].html = c.html
         /\ [c EXCEPT !.result = r].state = c.state /\ [c EXCEPT !.result = r].work = c.work
         /\ [c EXCEPT !.html = h].result = c.result /\ [c EXCEPT !.html = h].html = h
         /\ [c EXCEPT !.html = h].state = c.state /\ [c EXCEPT !.html = h].work = c.work
         /\ [c EXCEPT !.state = s].result = c.result /\ [c EXCEPT !.state = s].html = c.html
         /\ [c EXCEPT !.state = s].state = s /\ [c EXCEPT !.state = s].work = c.work
  BY DEF Contents

LEMMA WorkExcept ==
  ASSUME NEW c \in Contents, NEW w \in BOOLEAN
  PROVE  /\ [c EXCEPT !.work = w] \in Contents
         /\ [c EXCEPT !.work = w].result = c.result /\ [c EXCEPT !.work = w].html = c.html
         /\ [c EXCEPT !.work = w].state = c.state
  BY DEF Contents

LEMMA StateExcept ==
  ASSUME NEW s \in StateDir, NEW p \in [All -> Nat]
  PROVE  /\ [s EXCEPT !.candidate = p] \in StateDir /\ [s EXCEPT !.profile = p] \in StateDir
         /\ [s EXCEPT !.candidate = p].candidate = p /\ [s EXCEPT !.candidate = p].profile = s.profile
         /\ [s EXCEPT !.profile = p].profile = p /\ [s EXCEPT !.profile = p].candidate = s.candidate
  BY DEF StateDir

LEMMA AbsentApart ==
  /\ Absent \notin Contents /\ Absent \notin Result /\ Absent \notin Report /\ Absent \notin StateDir
  /\ Absent \notin Nat
  BY CoverageRootAssumption

LEMMA NoProfileType == NoProfile \in [All -> {0, 1}] /\ NoProfile \in [All -> Nat]
  BY DEF NoProfile

LEMMA ProfileOfType ==
  ASSUME NEW S
  PROVE  /\ ProfileOf(S) \in [All -> {0, 1}] /\ ProfileOf(S) \in [All -> Nat]
         /\ Covered(ProfileOf(S)) = S \cap All
  BY DEF ProfileOf, Covered

LEMMA EmptyType ==
  /\ Empty \in Contents /\ Empty # Absent
  /\ Empty.result = Absent /\ Empty.html = Absent /\ Empty.state = Absent
<1>1. Empty \in Contents
  BY Zenon DEF Empty, Contents
<1>2. Empty.result = Absent /\ Empty.html = Absent /\ Empty.state = Absent
  BY DEF Empty
<1> QED
  BY <1>1, <1>2, AbsentApart

LEMMA NoStateType == NoState \in StateDir /\ NoState.profile = NoProfile /\ NoState # Absent
  BY NoProfileType, AbsentApart DEF NoState, StateDir

\* A directory is made if it was missing, and then has no result and no report.
LEMMA MadeType ==
  ASSUME NEW d \in Directory
  PROVE  /\ Made(d) \in Contents /\ Made(d) # Absent
         /\ d # Absent => Made(d) = d
         /\ d = Absent => Made(d) = Empty
  BY EmptyType, AbsentApart DEF Made, Directory

LEMMA MadeStateType ==
  ASSUME NEW d \in Directory
  PROVE  /\ MadeState(d) \in Contents /\ HasState(MadeState(d)) /\ MadeState(d) # Absent
         /\ MadeState(d).state \in StateDir
         /\ HasState(d) => MadeState(d) = d
         /\ ~HasState(d) => MadeState(d).state = NoState
         /\ MadeState(d).result = Made(d).result /\ MadeState(d).html = Made(d).html
<1>1. CASE HasState(d)
  BY <1>1, AbsentApart DEF MadeState, HasState, Made, Directory, Contents
<1>2. CASE ~HasState(d)
  <2>1. MadeState(d) = [Made(d) EXCEPT !.state = NoState]
    BY <1>2 DEF MadeState
  <2>2. Made(d) \in Contents
    BY MadeType
  <2> DEFINE m == Made(d)
  <2>3. /\ [m EXCEPT !.state = NoState] \in Contents
        /\ [m EXCEPT !.state = NoState].state = NoState
        /\ [m EXCEPT !.state = NoState].result = m.result
        /\ [m EXCEPT !.state = NoState].html = m.html
    BY <2>2, NoStateType DEF Contents
  <2> QED
    BY <1>2, <2>1, <2>3, NoStateType, AbsentApart DEF HasState
<1> QED
  BY <1>1, <1>2

-----------------------------------------------------------------------------
(* Merging profiles.                                                        *)

LEMMA MergeFinite ==
  ASSUME NEW ps \in Seq([All -> {0, 1}]), NEW i \in All
  PROVE  /\ IsFiniteSet(UNION {{k} \X (1..ps[k][i]) : k \in DOMAIN ps})
         /\ Cardinality(UNION {{k} \X (1..ps[k][i]) : k \in DOMAIN ps}) \in Nat
<1> DEFINE C == UNION {{k} \X (1..ps[k][i]) : k \in DOMAIN ps}
<1>1. IsFiniteSet((1..Len(ps)) \X {1})
  <2>1. Len(ps) \in Nat
    OBVIOUS
  <2>2. IsFiniteSet(1..Len(ps))
    BY <2>1, FS_Interval
  <2>3. IsFiniteSet({1})
    BY FS_Singleton
  <2> QED
    BY <2>2, <2>3, FS_Product
<1>2. C \subseteq (1..Len(ps)) \X {1}
  <2> SUFFICES ASSUME NEW k \in DOMAIN ps, NEW n \in 1..ps[k][i]
               PROVE  k \in 1..Len(ps) /\ n = 1
    OBVIOUS
  <2>1. ps[k][i] \in {0, 1}
    OBVIOUS
  <2> QED
    BY <2>1
<1>3. IsFiniteSet(C)
  BY <1>1, <1>2, FS_Subset
<1> QED
  BY <1>3, FS_CardinalityType

LEMMA MergeType ==
  ASSUME NEW ps \in Seq([All -> {0, 1}])
  PROVE  Merge(ps) \in [All -> Nat]
  BY MergeFinite DEF Merge

\* Profiles that count different inputs merge to one that counts each once.
LEMMA MergeDisjoint ==
  ASSUME NEW ps \in Seq([All -> {0, 1}]),
         \A k, l \in DOMAIN ps : k # l => Covered(ps[k]) \cap Covered(ps[l]) = {}
  PROVE  /\ Merge(ps) \in [All -> {0, 1}]
         /\ \A k \in DOMAIN ps, i \in All : ps[k][i] <= Merge(ps)[i]
         /\ \A i \in Covered(Merge(ps)) : \E k \in DOMAIN ps : i \in Covered(ps[k])
<1> DEFINE C(i) == UNION {{k} \X (1..ps[k][i]) : k \in DOMAIN ps}
<1>0. \A i \in All : Merge(ps)[i] = Cardinality(C(i))
  BY DEF Merge
<1>1. ASSUME NEW i \in All, \A k \in DOMAIN ps : i \notin Covered(ps[k])
      PROVE  Merge(ps)[i] = 0 /\ \A k \in DOMAIN ps : ps[k][i] = 0
  <2>1. \A k \in DOMAIN ps : ps[k][i] = 0
    BY <1>1 DEF Covered
  <2>2. C(i) = {}
    BY <2>1
  <2> QED
    BY <1>0, <2>1, <2>2, FS_EmptySet
<1>2. ASSUME NEW i \in All, NEW k \in DOMAIN ps, i \in Covered(ps[k])
      PROVE  Merge(ps)[i] = 1
  <2>1. ps[k][i] = 1
    BY <1>2 DEF Covered
  <2>2. \A l \in DOMAIN ps : l # k => ps[l][i] = 0
    BY <1>2 DEF Covered
  <2>3. C(i) = {<<k, 1>>}
    <3>1. <<k, 1>> \in C(i)
      <4>1. <<k, 1>> \in {k} \X (1..ps[k][i])
        BY <2>1
      <4> QED
        BY <4>1
    <3>2. ASSUME NEW c \in C(i) PROVE c = <<k, 1>>
      <4>1. PICK l \in DOMAIN ps : c \in {l} \X (1..ps[l][i])
        OBVIOUS
      <4>2. PICK n \in 1..ps[l][i] : c = <<l, n>>
        BY <4>1
      <4>3. l = k
        BY <2>2, <4>2
      <4> QED
        BY <2>1, <4>2, <4>3
    <3> QED
      BY <3>1, <3>2
  <2> QED
    BY <1>0, <2>3, FS_Singleton
<1>3. \A i \in All : Merge(ps)[i] \in {0, 1}
  BY <1>1, <1>2
<1>4. Merge(ps) \in [All -> {0, 1}]
  BY <1>3 DEF Merge
<1>5. ASSUME NEW k \in DOMAIN ps, NEW i \in All
      PROVE  ps[k][i] <= Merge(ps)[i]
  <2>1. ps[k] \in [All -> {0, 1}]
    OBVIOUS
  <2> QED
    BY <1>1, <1>2, <2>1 DEF Covered
<1>6. ASSUME NEW i \in Covered(Merge(ps))
      PROVE  \E k \in DOMAIN ps : i \in Covered(ps[k])
  <2>1. i \in All /\ Merge(ps)[i] > 0
    BY DEF Covered
  <2> QED
    BY <1>1, <2>1
<1> QED
  BY <1>4, <1>5, <1>6

-----------------------------------------------------------------------------
(* The inputs of a tick and its batches.                                    *)

LEMMA CorporaFacts ==
  /\ \A t \in 1..Len(Corpora) : Corpora[t] \in Seq(Inputs) /\ ToSet(Corpora[t]) \subseteq Inputs
  /\ \A t, u \in 1..Len(Corpora) : t # u => ToSet(Corpora[t]) \cap ToSet(Corpora[u]) = {}
  /\ SeedInput \notin Inputs /\ SeedInput \in All /\ Inputs \subseteq All
<1>1. DOMAIN Corpora = 1..Len(Corpora) /\ \A t \in 1..Len(Corpora) : Corpora[t] \in Seq(Inputs)
  BY CoverageRootAssumption
<1>2. \A t \in 1..Len(Corpora) : ToSet(Corpora[t]) \subseteq Inputs
  BY <1>1 DEF ToSet
<1>3. ASSUME NEW t \in 1..Len(Corpora), NEW u \in 1..Len(Corpora), t # u
      PROVE  ToSet(Corpora[t]) \cap ToSet(Corpora[u]) = {}
  <2> SUFFICES ASSUME NEW m \in DOMAIN Corpora[t], NEW n \in DOMAIN Corpora[u]
               PROVE  Corpora[t][m] # Corpora[u][n]
    BY DEF ToSet
  <2> QED
    BY <1>1, <1>3, CoverageRootAssumption
<1> QED
  BY <1>1, <1>2, <1>3, CoverageRootAssumption DEF All

LEMMA DivNat ==
  ASSUME NEW a \in Nat, NEW b \in Nat \ {0}
  PROVE  a \div b \in Nat
  OBVIOUS

LEMMA PlannedBatches ==
  ASSUME NEW t \in 1..Len(Corpora)
  PROVE  /\ Planned(Corpora[t]) \in Seq(Batch)
         /\ \A b \in DOMAIN Planned(Corpora[t]) :
              LET p == Planned(Corpora[t])[b]
              IN /\ p.state = "waiting" /\ p.tries = 0 /\ p.profile = NoProfile
                 /\ p.files \subseteq ToSet(Corpora[t])
                 /\ \A c \in DOMAIN Planned(Corpora[t]) :
                      b # c => p.files \cap Planned(Corpora[t])[c].files = {}
<1> DEFINE files == Corpora[t]
           n == (Len(files) + BatchSize - 1) \div BatchSize
           Part(k) == {files[x] : x \in {m \in DOMAIN files : (m - 1) \div BatchSize = k - 1}}
           Plan(k) == [files |-> Part(k), state |-> "waiting", tries |-> 0,
                       profile |-> NoProfile, status |-> [i \in Part(k) |-> "unknown"]]
<1>1. Planned(files) = [k \in 1..n |-> Plan(k)]
  BY DEF Planned
<1>2. files \in Seq(Inputs) /\ DOMAIN files = 1..Len(files) /\ Len(files) \in Nat
  BY CorporaFacts
<1>3. n \in Nat
  <2>1. Len(files) + BatchSize - 1 \in Nat /\ BatchSize \in Nat \ {0}
    BY <1>2, CoverageRootAssumption
  <2> QED
    BY <2>1, DivNat
<1>4. \A k \in 1..n : Part(k) \subseteq Inputs /\ Part(k) \subseteq ToSet(files)
  BY <1>2 DEF ToSet
<1>5. \A k \in 1..n : Plan(k) \in Batch
  <2> SUFFICES ASSUME NEW k \in 1..n
               PROVE  Plan(k) \in Batch
    OBVIOUS
  <2>1. Part(k) \in SUBSET Inputs
    BY <1>4
  <2> HIDE DEF Part
  <2>2. [i \in Part(k) |-> "unknown"] \in [Part(k) -> Statuses]
    BY DEF Statuses
  <2>3. [i \in Part(k) |-> "unknown"] \in UNION {[fs -> Statuses] : fs \in SUBSET Inputs}
    BY <2>1, <2>2
  <2>4. 0 \in 0..Attempts
    BY CoverageRootAssumption
  <2> QED
    BY <2>1, <2>3, <2>4, NoProfileType DEF Batch
<1>6. \A k, l \in 1..n : k # l => Part(k) \cap Part(l) = {}
  <2> SUFFICES ASSUME NEW k \in 1..n, NEW l \in 1..n, k # l,
                      NEW x \in DOMAIN files, NEW y \in DOMAIN files,
                      (x - 1) \div BatchSize = k - 1, (y - 1) \div BatchSize = l - 1
               PROVE  files[x] # files[y]
    OBVIOUS
  <2>1. x # y
    BY <1>3
  <2>2. t \in DOMAIN Corpora
    BY CoverageRootAssumption
  <2> QED
    BY <2>1, <2>2, CoverageRootAssumption
<1> HIDE DEF files, n, Part
<1>7. DOMAIN Planned(files) = 1..n /\ \A k \in 1..n : Planned(files)[k] = Plan(k)
  BY <1>1
<1>8. Planned(files) \in Seq(Batch)
  BY <1>1, <1>3, <1>5
<1>9. \A k \in 1..n : /\ Plan(k).files = Part(k) /\ Plan(k).state = "waiting"
                      /\ Plan(k).tries = 0 /\ Plan(k).profile = NoProfile
  OBVIOUS
<1> HIDE DEF Plan
<1>10. \A b \in DOMAIN Planned(files) :
         LET p == Planned(files)[b]
         IN /\ p.state = "waiting" /\ p.tries = 0 /\ p.profile = NoProfile
            /\ p.files \subseteq ToSet(files)
            /\ \A c \in DOMAIN Planned(files) : b # c => p.files \cap Planned(files)[c].files = {}
  BY <1>4, <1>6, <1>7, <1>9
<1> QED
  BY <1>8, <1>10 DEF files

-----------------------------------------------------------------------------
(* The end of an attempt.                                                   *)

Dirs == [DirNames -> Directory]

\* The parts of a directory that a change of its profiles leaves alone.
Alike(c, e) ==
  /\ c = Absent <=> e = Absent
  /\ c # Absent => /\ e.result = c.result /\ e.html = c.html
                   /\ c.state = Absent <=> e.state = Absent
                   /\ c.state # Absent => e.state.profile = c.state.profile

LEMMA StateHomeType == StateHome \in DirNames
  BY DEF StateHome, DirNames

\* Replacing the candidate in the state directory.
LEMMA CandidateExcept ==
  ASSUME NEW d \in Dirs, HasState(d[StateHome]), NEW p \in [All -> Nat]
  PROVE  LET e == [d EXCEPT ![StateHome].state.candidate = p]
         IN /\ e \in Dirs /\ \A x \in DirNames : Alike(d[x], e[x])
            /\ HasState(e[StateHome]) /\ e[StateHome].state.candidate = p
            /\ \A x \in DirNames : x # StateHome => e[x] = d[x]
<1> DEFINE h == StateHome
           s == d[h].state
           t == [s EXCEPT !.candidate = p]
           c == [d[h] EXCEPT !.state = t]
           e == [d EXCEPT ![h] = c]
<1>1. h \in DirNames
  BY StateHomeType
<1>2. d[h] \in Contents /\ s \in StateDir
  BY <1>1 DEF Dirs, Directory, HasState, Contents
<1>3. t \in StateDir /\ t.candidate = p /\ t.profile = s.profile
  BY <1>2, StateExcept
<1>4. /\ c \in Contents /\ c.result = d[h].result /\ c.html = d[h].html /\ c.state = t
  BY <1>2, <1>3, AbsentApart DEF Contents
<1>5. [d EXCEPT ![h].state.candidate = p] = e
  OBVIOUS
<1> HIDE DEF t, s, c
<1>6. e \in Dirs /\ e[h] = c /\ \A x \in DirNames : x # h => e[x] = d[x]
  BY <1>1, <1>4 DEF Dirs, Directory
<1>7. Alike(d[h], e[h])
  BY <1>1, <1>2, <1>3, <1>4, <1>6, AbsentApart DEF Alike, s, HasState
<1>8. \A x \in DirNames : x # h => Alike(d[x], e[x])
  BY <1>6 DEF Alike
<1>9. HasState(e[h]) /\ e[h].state.candidate = p
  BY <1>3, <1>4, <1>6, AbsentApart DEF HasState
<1> HIDE DEF e, h
<1> QED
  BY <1>5, <1>6, <1>7, <1>8, <1>9 DEF h

LEMMA CleanupFacts ==
  ASSUME NEW d \in Dirs
  PROVE  Cleanup(d) \in Dirs /\ \A x \in DirNames : Alike(d[x], Cleanup(d)[x])
<1>1. CASE HasState(d[StateHome])
  BY <1>1, CandidateExcept, NoProfileType DEF Cleanup
<1>2. CASE ~HasState(d[StateHome])
  BY <1>2 DEF Cleanup, Alike
<1> QED
  BY <1>1, <1>2

\* Sets are dated by the tick that wrote them (a part of SetsDated).
Dated(c) ==
  c # Absent /\ c.result # Absent /\ c.result.sets # Absent => c.result.source = c.result.sets

\* A root is the old one or a complete new one.
Good(c) ==
  /\ c # Absent /\ Acceptable(c.result, c.html)
  /\ HasState(old["root"]) => HasState(c)

\* Whatever ends an attempt, it leaves a good root behind if it could be undone.
LEMMA AttemptEnds ==
  ASSUME RootInv, step \in Attempting, NEW d \in Dirs, AttemptFails(d),
         d["snapshots"] = dir["snapshots"], \A x \in DirNames : Dated(d[x]),
         undone' \in BOOLEAN, undone' => undone /\ Good(d["root"]), faults' \in 0..MaxFaults,
         UNCHANGED <<inputs, tick, export, old, batches, merged>>
  PROVE  RootInv'
<1> USE DEF RootInv
<1>1. tries < Attempts /\ tries \in Nat /\ tick > 0 /\ Attempts \in Nat
  BY CoverageRootAssumption DEF BatchesOK, TypeOK, Attempting
<1>2. /\ step' \in {"merge", "idle"} /\ tries' \in 0..Attempts
      /\ step' = "merge" => tries' < Attempts /\ dir' = d /\ outcome' = outcome
      /\ step' = "idle" => dir' = Cleanup(d) /\ outcome' = "failed"
  BY <1>1 DEF AttemptFails
<1>3. dir' \in Dirs /\ \A x \in DirNames : Alike(d[x], dir'[x])
  BY <1>2, CleanupFacts DEF Alike
<1>4. TypeOK'
  BY <1>2, <1>3 DEF TypeOK, inputs, Steps, Dirs
<1>5. BatchesOK'
  BY <1>1, <1>2 DEF BatchesOK, inputs
<1>6. TrialOK'
  <2> SUFFICES ASSUME kind = "trial"
               PROVE  TrialOK'
    BY DEF TrialOK, inputs
  <2>1. /\ HasState(dir["snapshots"]) /\ HasState(old["snapshots"])
        /\ dir["snapshots"].state.profile = old["snapshots"].state.profile
        /\ old["snapshots"].state.profile \in [All -> {0, 1}]
        /\ Covered(old["snapshots"].state.profile) \subseteq SeenBefore(tick - 1)
    BY <1>1 DEF TrialOK, State, StateHome, Attempting
  <2>2. HasState(dir'["snapshots"]) /\ dir'["snapshots"].state.profile = dir["snapshots"].state.profile
    BY <1>3, <2>1 DEF Alike, HasState, DirNames
  <2>3. ~(step' = "idle" /\ outcome' = "done") /\ step' \notin Attempting \ {"merge"}
    BY <1>2 DEF Attempting
  <2> QED
    BY <2>1, <2>2, <2>3 DEF TrialOK, inputs, State, StateHome, HasState, SeenBefore
<1>7. NewRootOK'
  BY <1>2 DEF NewRootOK, Replacing
<1>8. SetsDated'
  BY <1>3 DEF SetsDated, Dated, Alike
<1>9. OldRootOK'
  <2> SUFFICES ASSUME undone'
               PROVE  OldRootOK'
    BY DEF OldRootOK
  <2>1. old["root"] # Absent
    BY <1>1 DEF OldRootOK
  <2>2. /\ dir'["root"] # Absent /\ Acceptable(dir'["root"].result, dir'["root"].html)
        /\ HasState(old["root"]) => HasState(dir'["root"])
    BY <1>3 DEF Alike, Good, HasState, DirNames
  <2>3. step' \notin {"retire", "publish", "html", "undo"} /\ ~(step' = "idle" /\ outcome' = "done")
    BY <1>2
  <2> QED
    BY <2>1, <2>2, <2>3 DEF OldRootOK, Acceptable, Render, inputs, HasState
<1> QED
  BY <1>4, <1>5, <1>6, <1>7, <1>8, <1>9

-----------------------------------------------------------------------------
(* The beginning of a measurement.                                          *)

LEMMA InitInv == Init => RootInv
<1> SUFFICES ASSUME Init
             PROVE  RootInv
  OBVIOUS
<1> USE DEF Init
<1>1. TypeOK
  <2>1. dir \in Dirs
    BY DEF Dirs, DirNames, Directory
  <2>2. tick \in 0..Len(Corpora) /\ faults \in 0..MaxFaults /\ tries \in 0..Attempts
    BY CoverageRootAssumption
  <2>3. merged \in [All -> Nat] /\ batches \in Seq(Batch)
    BY NoProfileType
  <2>4. baseline \in BOOLEAN /\ export \in BOOLEAN /\ undone \in BOOLEAN
    OBVIOUS
  <2> QED
    BY <2>1, <2>2, <2>3, <2>4 DEF TypeOK, Dirs, Steps
<1>2. BatchesOK /\ TrialOK /\ NewRootOK
  BY DEF BatchesOK, TrialOK, NewRootOK, DirNames, Replacing
<1>3. SetsDated /\ OldRootOK
  BY DEF SetsDated, OldRootOK, DirNames
<1> QED
  BY <1>1, <1>2, <1>3 DEF RootInv

LEMMA BootstrapFacts ==
  ASSUME NEW d \in Dirs, HasState(d["snapshots"]), d["root"] # Absent, Dated(d["root"])
  PROVE  /\ Bootstrap(d) \in Dirs
         /\ Bootstrap(d)["root"] # Absent /\ Dated(Bootstrap(d)["root"])
         /\ Bootstrap(d)["tmp"] = d["tmp"] /\ Bootstrap(d)["backup"] = d["backup"]
         /\ HasState(Bootstrap(d)["snapshots"])
         /\ Dated(d["snapshots"]) => Dated(Bootstrap(d)["snapshots"])
         /\ Bootstrap(d)["snapshots"].state.profile
              \in {d["snapshots"].state.profile, ProfileOf({SeedInput})}
<1>1. CASE Bootstrap(d) = d
  BY <1>1
<1>2. CASE Bootstrap(d) # d
  <2> DEFINE s == [d["snapshots"].state EXCEPT !.profile = ProfileOf({SeedInput})]
             S == [d["snapshots"] EXCEPT !.state = s]
             r == [tick |-> 0, covered |-> {SeedInput}, sets |-> 0, source |-> 0]
             R == [d["root"] EXCEPT !.result = IF d["root"].result = Absent THEN r
                                               ELSE d["root"].result]
  <2>1. Bootstrap(d) = [d EXCEPT !["snapshots"] = S, !["root"] = R]
    BY <1>2 DEF Bootstrap
  <2>2. /\ d["snapshots"] \in Contents /\ d["snapshots"].state \in StateDir
        /\ d["root"] \in Contents /\ d["root"].result \in {Absent} \cup Result
    BY DEF Dirs, DirNames, Directory, HasState, Contents
  <2>3. s \in StateDir /\ s.profile = ProfileOf({SeedInput})
    BY <2>2, StateExcept, ProfileOfType
  <2> HIDE DEF s
  <2>4. S \in Contents /\ S.state = s /\ S.result = d["snapshots"].result
    BY <2>2, <2>3 DEF Contents
  <2>5. r \in Result /\ r.sets = r.source
    BY CorporaFacts DEF Result
  <2> HIDE DEF r
  <2>6. R \in Contents /\ R.result \in {d["root"].result, r} /\ (d["root"].result # Absent => R.result = d["root"].result)
    BY <2>2, <2>5 DEF Contents
  <2>7. Dated(R)
    BY <2>5, <2>6 DEF Dated
  <2> HIDE DEF S, R
  <2>8. /\ Bootstrap(d)["snapshots"] = S /\ Bootstrap(d)["root"] = R
        /\ Bootstrap(d)["tmp"] = d["tmp"] /\ Bootstrap(d)["backup"] = d["backup"]
        /\ Bootstrap(d) \in Dirs
    BY <2>1, <2>4, <2>6 DEF Dirs, DirNames, Directory
  <2>9. HasState(S) /\ (Dated(d["snapshots"]) => Dated(S))
    BY <2>2, <2>3, <2>4, AbsentApart DEF HasState, Dated
  <2> QED
    BY <2>3, <2>4, <2>6, <2>7, <2>8, <2>9, AbsentApart
<1> QED
  BY <1>1, <1>2

\* The directories when a measurement begins.
LEMMA BeginDirs ==
  ASSUME RootInv, Begin
  PROVE  /\ dir' \in Dirs /\ dir'["root"] # Absent
         /\ \A x \in DirNames : Dated(dir'[x])
         /\ kind = "trial" =>
              /\ HasState(dir'["snapshots"])
              /\ dir'["snapshots"].state.profile
                   \in {MadeState(dir["snapshots"]).state.profile, ProfileOf({SeedInput})}
<1> USE DEF RootInv
<1>1. dir \in Dirs /\ \A x \in DirNames : dir[x] \in Directory /\ Dated(dir[x])
  BY DEF TypeOK, Dirs, SetsDated, Dated
<1>2. CASE kind = "trial"
  <2> DEFINE R == Made(dir["root"])
             S == MadeState(dir["snapshots"])
             d == [dir EXCEPT !["root"] = R, !["snapshots"] = S]
  <2>1. dir' = Bootstrap(d)
    BY <1>2 DEF Begin
  <2>2. R \in Contents /\ R # Absent /\ Dated(R)
    BY <1>1, MadeType, EmptyType DEF Dated, DirNames
  <2>3. S \in Contents /\ HasState(S) /\ Dated(S)
    BY <1>1, MadeStateType, MadeType, EmptyType DEF Dated, DirNames
  <2> HIDE DEF R, S
  <2>4. /\ d \in Dirs /\ d["root"] = R /\ d["snapshots"] = S
        /\ d["tmp"] = dir["tmp"] /\ d["backup"] = dir["backup"]
    BY <1>1, <2>2, <2>3 DEF Dirs, DirNames, Directory
  <2> HIDE DEF d
  <2>5. /\ dir' \in Dirs /\ dir'["root"] # Absent /\ Dated(dir'["root"])
        /\ dir'["tmp"] = dir["tmp"] /\ dir'["backup"] = dir["backup"]
        /\ HasState(dir'["snapshots"])
        /\ dir'["snapshots"].state.profile \in {S.state.profile, ProfileOf({SeedInput})}
    BY <2>1, <2>2, <2>3, <2>4, BootstrapFacts
  <2>6. Dated(dir'["snapshots"])
    BY <2>1, <2>2, <2>3, <2>4, BootstrapFacts
  <2> QED
    BY <1>1, <2>5, <2>6 DEF DirNames, S
<1>3. CASE kind = "seed"
  <2> DEFINE R == [Empty EXCEPT !.work = TRUE]
  <2>1. dir' = [dir EXCEPT !["root"] = R]
    BY <1>3 DEF Begin
  <2>2. R \in Contents /\ R.result = Absent
    BY EmptyType, WorkExcept
  <2> HIDE DEF R
  <2>3. R # Absent /\ Dated(R)
    BY <2>2, AbsentApart DEF Dated
  <2> QED
    BY <1>1, <1>3, <2>1, <2>2, <2>3 DEF Dirs, DirNames, Directory
<1>4. CASE kind \notin {"trial", "seed"}
  <2> DEFINE R == MadeState(dir["root"])
  <2>1. dir' = [dir EXCEPT !["root"] = R]
    BY <1>4 DEF Begin
  <2>2. R \in Contents /\ R # Absent /\ Dated(R)
    BY <1>1, MadeStateType, MadeType, EmptyType DEF Dated, DirNames
  <2> HIDE DEF R
  <2> QED
    BY <1>1, <1>4, <2>1, <2>2 DEF Dirs, DirNames, Directory
<1> QED
  BY <1>2, <1>3, <1>4

\* What the profile of a trial becomes when its measurement succeeds.
NextProfile == Merge(<<old["snapshots"].state.profile>> \o [b \in DOMAIN batches |-> batches[b].profile])

LEMMA SeenGrows ==
  ASSUME NEW t \in 1..Len(Corpora)
  PROVE  /\ SeenBefore(t - 1) \subseteq SeenBefore(t) /\ ToSet(Corpora[t]) \subseteq SeenBefore(t)
         /\ SeenBefore(t - 1) \cap ToSet(Corpora[t]) = {}
<1>1. SeenBefore(t) = SeenBefore(t - 1) \cup ToSet(Corpora[t])
  BY DEF SeenBefore
<1>2. SeedInput \notin ToSet(Corpora[t])
  BY CorporaFacts
<1>3. \A m \in 1..(t - 1) : ToSet(Corpora[m]) \cap ToSet(Corpora[t]) = {}
  <2> SUFFICES ASSUME NEW m \in 1..(t - 1)
               PROVE  ToSet(Corpora[m]) \cap ToSet(Corpora[t]) = {}
    OBVIOUS
  <2>1. m \in 1..Len(Corpora) /\ m # t
    OBVIOUS
  <2> QED
    BY <2>1, CorporaFacts
<1> QED
  BY <1>1, <1>2, <1>3 DEF SeenBefore

LEMMA TrialMerge ==
  ASSUME RootInv, kind = "trial", tick > 0
  PROVE  LET was == old["snapshots"].state.profile
         IN /\ <<was>> \o [b \in DOMAIN batches |-> batches[b].profile] \in Seq([All -> {0, 1}])
            /\ NextProfile \in [All -> {0, 1}] /\ \A i \in All : was[i] <= NextProfile[i]
            /\ Covered(NextProfile) \subseteq SeenBefore(tick)
<1> DEFINE was == old["snapshots"].state.profile
           bs == [b \in DOMAIN batches |-> batches[b].profile]
           ps == <<was>> \o bs
<1>1. tick \in 1..Len(Corpora) /\ batches \in Seq(Batch)
  BY CoverageRootAssumption DEF RootInv, TypeOK
<1>2. was \in [All -> {0, 1}] /\ Covered(was) \subseteq SeenBefore(tick - 1)
  BY DEF RootInv, TrialOK
<1>3. DOMAIN batches = 1..Len(batches) /\ Len(batches) \in Nat
      /\ \A b \in DOMAIN batches : batches[b] \in Batch
  BY <1>1
<1>4. \A b \in DOMAIN batches : batches[b].profile \in [All -> {0, 1}]
  BY <1>3 DEF Batch
<1>5. /\ \A b \in DOMAIN batches : Covered(batches[b].profile) \subseteq ToSet(Corpora[tick])
      /\ \A b, c \in DOMAIN batches : b # c =>
           Covered(batches[b].profile) \cap Covered(batches[c].profile) = {}
  BY DEF RootInv, BatchesOK
<1>6. bs \in Seq([All -> {0, 1}]) /\ Len(bs) = Len(batches)
  BY <1>3, <1>4
<1> HIDE DEF was
<1>7. /\ ps \in Seq([All -> {0, 1}]) /\ Len(ps) = Len(batches) + 1
      /\ ps[1] = was /\ \A k \in 2..Len(ps) : ps[k] = bs[k - 1]
  BY <1>2, <1>3, <1>6
<1>8. DOMAIN ps = 1..Len(ps) /\ \A k \in 2..Len(ps) : k - 1 \in DOMAIN batches /\ ps[k] = batches[k - 1].profile
  BY <1>3, <1>7
<1> HIDE DEF ps, bs
<1>9. \A k \in DOMAIN ps : Covered(ps[k]) \subseteq SeenBefore(tick)
  <2> SUFFICES ASSUME NEW k \in DOMAIN ps
               PROVE  Covered(ps[k]) \subseteq SeenBefore(tick)
    OBVIOUS
  <2>1. CASE k = 1
    BY <1>1, <1>2, <1>7, <2>1, SeenGrows
  <2>2. CASE k \in 2..Len(ps)
    <3>1. Covered(ps[k]) \subseteq ToSet(Corpora[tick])
      BY <1>5, <1>8, <2>2
    <3> QED
      BY <1>1, <3>1, SeenGrows
  <2> QED
    BY <1>3, <1>7, <1>8, <2>1, <2>2
<1>10. \A k, l \in DOMAIN ps : k # l => Covered(ps[k]) \cap Covered(ps[l]) = {}
  <2>1. \A k \in 2..Len(ps) : Covered(ps[1]) \cap Covered(ps[k]) = {}
    <3> SUFFICES ASSUME NEW k \in 2..Len(ps)
                 PROVE  Covered(ps[1]) \cap Covered(ps[k]) = {}
      OBVIOUS
    <3>1. Covered(ps[k]) \subseteq ToSet(Corpora[tick])
      BY <1>5, <1>8
    <3>2. Covered(ps[1]) \subseteq SeenBefore(tick - 1)
      BY <1>2, <1>7
    <3>3. SeenBefore(tick - 1) \cap ToSet(Corpora[tick]) = {}
      BY <1>1, SeenGrows
    <3> QED
      BY <3>1, <3>2, <3>3
  <2>2. \A k, l \in 2..Len(ps) : k # l => Covered(ps[k]) \cap Covered(ps[l]) = {}
    <3> SUFFICES ASSUME NEW k \in 2..Len(ps), NEW l \in 2..Len(ps), k # l
                 PROVE  Covered(ps[k]) \cap Covered(ps[l]) = {}
      OBVIOUS
    <3>1. k - 1 # l - 1
      OBVIOUS
    <3> QED
      BY <1>5, <1>8, <3>1
  <2>3. \A k \in DOMAIN ps : k = 1 \/ k \in 2..Len(ps)
    BY <1>3, <1>7, <1>8
  <2> QED
    BY <2>1, <2>2, <2>3
<1>11. 1 \in DOMAIN ps
  BY <1>3, <1>7, <1>8
<1>12. NextProfile = Merge(ps)
  BY DEF NextProfile, ps, bs, was
<1>13. /\ Merge(ps) \in [All -> {0, 1}]
       /\ \A k \in DOMAIN ps, i \in All : ps[k][i] <= Merge(ps)[i]
       /\ \A i \in Covered(Merge(ps)) : \E k \in DOMAIN ps : i \in Covered(ps[k])
  BY <1>7, <1>10, MergeDisjoint
<1>14. /\ NextProfile \in [All -> {0, 1}] /\ \A i \in All : was[i] <= NextProfile[i]
       /\ Covered(NextProfile) \subseteq SeenBefore(tick)
  BY <1>7, <1>9, <1>11, <1>12, <1>13
<1> QED
  BY <1>7, <1>14 DEF ps, was, bs

LEMMA BeginInv ==
  ASSUME RootInv, Begin
  PROVE  RootInv'
<1> USE DEF RootInv
<1>1. /\ dir' \in Dirs /\ dir'["root"] # Absent /\ old' = dir'
      /\ \A x \in DirNames : Dated(dir'[x])
  BY BeginDirs DEF Begin
<1>2. /\ tick + 1 \in 1..Len(Corpora) /\ tick' = tick + 1 /\ tick \in Nat
      /\ step' \in {"batches", "merge"} /\ tries' = 0 /\ undone' = TRUE /\ outcome' = "none"
      /\ step = "idle" /\ UNCHANGED <<kind, mode, baseline, faults, merged>>
  BY CoverageRootAssumption DEF Begin, TypeOK, inputs
<1>3. batches' = <<>> \/ batches' = Planned(Corpora[tick + 1])
  BY DEF Begin
<1>4. TypeOK'
  <2>1. batches' \in Seq(Batch)
    <3>1. Planned(Corpora[tick + 1]) \in Seq(Batch)
      BY <1>2, PlannedBatches
    <3>2. <<>> \in Seq(Batch)
      OBVIOUS
    <3> HIDE DEF Batch
    <3> QED
      BY <1>3, <3>1, <3>2, Zenon
  <2>2. export' \in BOOLEAN
    BY DEF Begin
  <2>3. tries' \in 0..Attempts /\ tick' \in 0..Len(Corpora)
    BY <1>2, CoverageRootAssumption
  <2> QED
    BY <1>1, <1>2, <2>1, <2>2, <2>3 DEF TypeOK, Dirs, Steps
<1>5. BatchesOK'
  <2>1. CASE batches' = <<>>
    BY <1>2, <2>1, CoverageRootAssumption DEF BatchesOK
  <2>2. CASE batches' = Planned(Corpora[tick + 1])
    <3>1. \A b \in DOMAIN batches' :
            /\ batches'[b].tries = 0 /\ batches'[b].profile = NoProfile
            /\ batches'[b].files \subseteq ToSet(Corpora[tick'])
            /\ \A c \in DOMAIN batches' : b # c => batches'[b].files \cap batches'[c].files = {}
      BY <1>2, <2>2, PlannedBatches
    <3>2. Covered(NoProfile) = {}
      BY DEF Covered, NoProfile
    <3> QED
      BY <1>2, <3>1, <3>2, CoverageRootAssumption DEF BatchesOK
  <2> QED
    BY <1>3, <2>1, <2>2
<1>6. TrialOK'
  <2> SUFFICES ASSUME kind = "trial"
               PROVE  TrialOK'
    BY <1>2 DEF TrialOK
  <2> DEFINE p == MadeState(dir["snapshots"]).state.profile
             q == dir'["snapshots"].state.profile
  <2>1. HasState(dir'["snapshots"]) /\ q \in {p, ProfileOf({SeedInput})}
    BY BeginDirs
  <2>2. p \in [All -> {0, 1}] /\ Covered(p) \subseteq SeenBefore(tick)
    <3>1. CASE tick = 0
      <4>1. ~HasState(dir["snapshots"]) /\ dir["snapshots"] \in Directory
        BY <3>1 DEF BatchesOK, HasState, TypeOK, DirNames
      <4>2. p = NoProfile
        BY <4>1, MadeStateType, NoStateType
      <4> QED
        BY <4>2, NoProfileType DEF Covered, NoProfile
    <3>2. CASE tick > 0
      <4>1. HasState(dir["snapshots"]) /\ dir["snapshots"] \in Directory
        BY <3>2 DEF TrialOK, TypeOK, DirNames
      <4>2. p = State.profile
        BY <4>1, MadeStateType DEF State, StateHome
      <4>3. p \in {old["snapshots"].state.profile, NextProfile}
        BY <3>2, <4>2 DEF TrialOK, NextProfile
      <4>4. /\ old["snapshots"].state.profile \in [All -> {0, 1}]
            /\ Covered(old["snapshots"].state.profile) \subseteq SeenBefore(tick - 1)
        BY <3>2 DEF TrialOK
      <4>5. NextProfile \in [All -> {0, 1}] /\ Covered(NextProfile) \subseteq SeenBefore(tick)
        BY <3>2, TrialMerge
      <4>6. SeenBefore(tick - 1) \subseteq SeenBefore(tick)
        BY <1>2, <3>2, SeenGrows
      <4> QED
        BY <4>3, <4>4, <4>5, <4>6
    <3> QED
      BY <1>2, <3>1, <3>2
  <2>3. ProfileOf({SeedInput}) \in [All -> {0, 1}] /\ Covered(ProfileOf({SeedInput})) \subseteq SeenBefore(tick)
    BY ProfileOfType DEF SeenBefore
  <2> HIDE DEF p
  <2>4. q \in [All -> {0, 1}] /\ Covered(q) \subseteq SeenBefore(tick)
    BY <2>1, <2>2, <2>3
  <2>5. tick = tick' - 1
    BY <1>2
  <2>6. step' \notin Attempting \ {"merge"} /\ ~(step' = "idle")
    BY <1>2 DEF Attempting
  <2> QED
    BY <1>1, <1>2, <2>1, <2>4, <2>5, <2>6 DEF TrialOK, State, StateHome, HasState, SeenBefore
<1>7. NewRootOK'
  BY <1>2 DEF NewRootOK, Replacing
<1>8. SetsDated'
  BY <1>1 DEF SetsDated, Dated
<1>9. OldRootOK'
  BY <1>1, <1>2 DEF OldRootOK, Acceptable
<1> QED
  BY <1>4, <1>5, <1>6, <1>7, <1>8, <1>9

-----------------------------------------------------------------------------
(* The batches.                                                             *)

\* Replacing one field of a batch keeps the others.
LEMMA BatchState ==
  ASSUME NEW o \in Batch, NEW v \in {"waiting", "done", "failed"}
  PROVE  LET n == [o EXCEPT !.state = v]
         IN /\ n \in Batch /\ n.state = v
            /\ n.files = o.files /\ n.tries = o.tries /\ n.profile = o.profile /\ n.status = o.status
<1> DEFINE V == {"waiting", "done", "failed"}
           X == UNION {[files -> Statuses] : files \in SUBSET Inputs}
<1>1. v \in V
  OBVIOUS
<1>2. Batch = [files : SUBSET Inputs, state : V, tries : 0..Attempts, profile : [All -> {0, 1}], status : X]
  BY DEF Batch
<1> HIDE DEF V, X
<1> QED
  BY <1>1, <1>2

LEMMA BatchTries ==
  ASSUME NEW o \in Batch, NEW v \in 0..Attempts
  PROVE  LET n == [o EXCEPT !.tries = v]
         IN /\ n \in Batch /\ n.tries = v
            /\ n.files = o.files /\ n.state = o.state /\ n.profile = o.profile /\ n.status = o.status
<1> DEFINE V == 0..Attempts
           X == UNION {[files -> Statuses] : files \in SUBSET Inputs}
<1>1. v \in V
  OBVIOUS
<1>2. Batch = [files : SUBSET Inputs, state : {"waiting", "done", "failed"}, tries : V, profile : [All -> {0, 1}], status : X]
  BY DEF Batch
<1> HIDE DEF V, X
<1> QED
  BY <1>1, <1>2

LEMMA BatchProfile ==
  ASSUME NEW o \in Batch, NEW v \in [All -> {0, 1}]
  PROVE  LET n == [o EXCEPT !.profile = v]
         IN /\ n \in Batch /\ n.profile = v
            /\ n.files = o.files /\ n.state = o.state /\ n.tries = o.tries /\ n.status = o.status
<1> DEFINE V == [All -> {0, 1}]
           X == UNION {[files -> Statuses] : files \in SUBSET Inputs}
<1>1. v \in V
  OBVIOUS
<1>2. Batch = [files : SUBSET Inputs, state : {"waiting", "done", "failed"}, tries : 0..Attempts, profile : V, status : X]
  BY DEF Batch
<1> HIDE DEF V, X
<1> QED
  BY <1>1, <1>2

LEMMA BatchStatus ==
  ASSUME NEW o \in Batch, NEW v \in UNION {[files -> Statuses] : files \in SUBSET Inputs}
  PROVE  LET n == [o EXCEPT !.status = v]
         IN /\ n \in Batch /\ n.status = v
            /\ n.files = o.files /\ n.state = o.state /\ n.tries = o.tries /\ n.profile = o.profile
<1> DEFINE V == UNION {[files -> Statuses] : files \in SUBSET Inputs}
<1>1. v \in V
  OBVIOUS
<1>2. Batch = [files : SUBSET Inputs, state : {"waiting", "done", "failed"}, tries : 0..Attempts, profile : [All -> {0, 1}], status : V]
  BY DEF Batch
<1> HIDE DEF V
<1> QED
  BY <1>1, <1>2

LEMMA ResultsType ==
  ASSUME NEW files, NEW results \in Results(files)
  PROVE  /\ DOMAIN results = files
         /\ \A i \in files : results[i] \in {"zero", "error", "none"} \X BOOLEAN
  BY DEF Results

\* A step that changes one batch which is not done, and counts only its inputs.
LEMMA BatchStep ==
  ASSUME RootInv, step = "batches", NEW b \in DOMAIN batches, NEW c \in Batch,
         batches' = [batches EXCEPT ![b] = c], c.files = batches[b].files,
         Covered(c.profile) \subseteq c.files, c.state = "waiting" => c.tries < Attempts,
         faults' \in 0..MaxFaults,
         UNCHANGED <<rest, step, tries, merged, dir, outcome>>
  PROVE  RootInv'
<1> USE DEF RootInv, rest, inputs
<1>1. TypeOK'
  BY DEF TypeOK
<1>2. BatchesOK'
  <2>1. DOMAIN batches' = DOMAIN batches /\ batches'[b] = c
        /\ \A x \in DOMAIN batches : x # b => batches'[x] = batches[x]
    BY DEF TypeOK
  <2>2. \A x \in DOMAIN batches : batches'[x].files = batches[x].files
    BY <2>1
  <2>3. batches # <<>>
    OBVIOUS
  <2> QED
    BY <2>1, <2>2, <2>3 DEF BatchesOK
<1>3. TrialOK'
  BY DEF TrialOK, State, StateHome, Attempting, SeenBefore, HasState
<1>4. NewRootOK' /\ SetsDated' /\ OldRootOK'
  BY DEF NewRootOK, SetsDated, OldRootOK, Replacing, Acceptable, Render, HasState
<1> QED
  BY <1>1, <1>2, <1>3, <1>4

\* What the execution of a batch leaves in it.
LEMMA RunBatchEffect ==
  ASSUME RootInv, NEW b \in DOMAIN batches, RunBatch(b)
  PROVE  \E results \in Results(batches[b].files), c \in Batch :
           /\ batches' = [batches EXCEPT ![b] = c]
           /\ c.files = batches[b].files /\ c.state = "done" /\ c.status = Diagnosed(results)
           /\ c.profile = IF {i \in DOMAIN results : results[i][2]} = {} THEN NoProfile
                          ELSE ProfileOf({i \in DOMAIN results : results[i][2]})
           /\ Covered(c.profile) \subseteq c.files
<1>1. PICK results \in Results(batches[b].files) :
        batches' = [batches EXCEPT
            ![b].state = "done",
            ![b].status = Diagnosed(results),
            ![b].profile = IF {i \in DOMAIN results : results[i][2]} = {} THEN Cleared(b)
                           ELSE ProfileOf({i \in DOMAIN results : results[i][2]})]
  BY DEF RunBatch
<1> DEFINE o == batches[b]
           raw == {i \in DOMAIN results : results[i][2]}
           p == IF raw = {} THEN NoProfile ELSE ProfileOf(raw)
           d == [o EXCEPT !.state = "done"]
           e == [d EXCEPT !.status = Diagnosed(results)]
           c == [e EXCEPT !.profile = p]
<1>2. o \in Batch /\ batches \in Seq(Batch)
  BY DEF RootInv, TypeOK
<1>3. p \in [All -> {0, 1}] /\ Covered(p) \subseteq o.files
  <2>1. raw \subseteq o.files
    BY ResultsType
  <2>2. Covered(ProfileOf(raw)) \subseteq raw /\ ProfileOf(raw) \in [All -> {0, 1}]
    BY ProfileOfType
  <2>3. Covered(NoProfile) = {} /\ NoProfile \in [All -> {0, 1}]
    BY NoProfileType DEF Covered, NoProfile
  <2> HIDE DEF raw
  <2> QED
    BY <2>1, <2>2, <2>3
<1>4. Diagnosed(results) \in UNION {[files -> Statuses] : files \in SUBSET Inputs}
  <2>1. \A r : Status(r) \in Statuses
    BY DEF Status, Statuses
  <2>2. Diagnosed(results) \in [o.files -> Statuses]
    BY <2>1, ResultsType DEF Diagnosed
  <2>3. o.files \in SUBSET Inputs
    BY <1>2 DEF Batch
  <2> QED
    BY <2>2, <2>3
<1>5. batches' = [batches EXCEPT ![b] = c]
  BY <1>1 DEF Cleared
<1> HIDE DEF p
<1>6. d \in Batch /\ d.files = o.files /\ d.state = "done"
  BY <1>2, BatchState
<1> HIDE DEF d
<1>7. e \in Batch /\ e.files = o.files /\ e.state = "done" /\ e.status = Diagnosed(results)
  BY <1>4, <1>6, BatchStatus
<1> HIDE DEF e
<1>8. /\ c \in Batch /\ c.files = o.files /\ c.profile = p /\ c.state = "done"
      /\ c.status = Diagnosed(results)
  BY <1>3, <1>7, BatchProfile
<1> HIDE DEF c
<1> QED
  BY <1>3, <1>5, <1>8 DEF p

LEMMA RunBatchInv ==
  ASSUME RootInv, NEW b \in DOMAIN batches, RunBatch(b)
  PROVE  RootInv'
<1>1. PICK c \in Batch : /\ batches' = [batches EXCEPT ![b] = c] /\ c.files = batches[b].files
                         /\ c.state = "done" /\ Covered(c.profile) \subseteq c.files
  BY RunBatchEffect
<1>2. faults' \in 0..MaxFaults
  BY DEF RunBatch, RootInv, TypeOK
<1> QED
  BY <1>1, <1>2, BatchStep DEF RunBatch

LEMMA FailBatchInv ==
  ASSUME RootInv, NEW b \in DOMAIN batches, FailBatch(b)
  PROVE  RootInv'
<1>1. PICK p \in {NoProfile, ProfileOf(batches[b].files)} :
        batches' = [batches EXCEPT
         ![b].tries = @ + 1, ![b].profile = p,
         ![b].state = IF batches[b].tries + 1 = Attempts THEN "failed" ELSE "waiting"]
  BY DEF FailBatch
<1> DEFINE o == batches[b]
           st == IF o.tries + 1 = Attempts THEN "failed" ELSE "waiting"
           d == [o EXCEPT !.tries = o.tries + 1]
           e == [d EXCEPT !.profile = p]
           c == [e EXCEPT !.state = st]
<1>2. o \in Batch /\ batches \in Seq(Batch)
  BY DEF RootInv, TypeOK
<1>3. p \in [All -> {0, 1}] /\ Covered(p) \subseteq o.files
  <2>1. Covered(NoProfile) = {}
    BY DEF Covered, NoProfile
  <2> QED
    BY <2>1, NoProfileType, ProfileOfType
<1>4. o.tries \in Nat /\ o.tries < Attempts
  <2>1. o.tries \in 0..Attempts
    BY <1>2 DEF Batch
  <2>2. o.tries < Attempts
    BY DEF FailBatch, RootInv, BatchesOK
  <2> QED
    BY <2>1, <2>2, CoverageRootAssumption
<1>5. batches' = [batches EXCEPT ![b] = c]
  BY <1>1
<1>6. d \in Batch /\ d.files = o.files /\ d.tries = o.tries + 1
  <2>1. o.tries + 1 \in 0..Attempts
    BY <1>4, CoverageRootAssumption
  <2> QED
    BY <1>2, <2>1, BatchTries
<1> HIDE DEF d
<1>7. /\ e \in Batch /\ e.files = o.files /\ e.tries = o.tries + 1 /\ e.profile = p
      /\ c \in Batch /\ c.files = o.files /\ c.tries = o.tries + 1 /\ c.profile = p /\ c.state = st
  <2>1. e \in Batch /\ e.files = o.files /\ e.tries = o.tries + 1 /\ e.profile = p
    BY <1>3, <1>6, BatchProfile
  <2>2. st \in {"waiting", "done", "failed"}
    OBVIOUS
  <2> HIDE DEF e, st
  <2> QED
    BY <2>1, <2>2, BatchState
<1>8. st = "waiting" => o.tries + 1 < Attempts
  BY <1>4, CoverageRootAssumption
<1> HIDE DEF c, st
<1>9. faults' \in 0..MaxFaults
  BY CoverageRootAssumption DEF FailBatch, RootInv, TypeOK
<1> QED
  BY <1>3, <1>5, <1>7, <1>8, <1>9, BatchStep DEF FailBatch

LEMMA DirFacts ==
  ASSUME RootInv
  PROVE  /\ dir \in Dirs /\ \A x \in DirNames : dir[x] \in Directory /\ Dated(dir[x])
         /\ \A x \in DirNames : dir[x] # Absent =>
              /\ dir[x] \in Contents /\ dir[x].result \in {Absent} \cup Result
              /\ dir[x].html \in {Absent} \cup Report /\ dir[x].state \in {Absent} \cup StateDir
         /\ "root" \in DirNames /\ "tmp" \in DirNames /\ "backup" \in DirNames /\ "snapshots" \in DirNames
<1>1. dir \in Dirs /\ \A x \in DirNames : dir[x] \in Directory /\ Dated(dir[x])
  BY DEF RootInv, TypeOK, SetsDated, Dirs, Dated
<1> QED
  BY <1>1 DEF Directory, Contents, DirNames

LEMMA BatchesDoneInv ==
  ASSUME RootInv, BatchesDone
  PROVE  RootInv'
<1> USE DEF RootInv
<1>0. /\ step = "batches" /\ tick > 0 /\ tries < Attempts /\ dir \in Dirs
      /\ UNCHANGED <<rest, faults, batches, tries, merged>>
  BY DirFacts DEF BatchesDone, BatchesOK
<1>1. /\ step' \in {"idle", "merge"} /\ outcome' \in {outcome, "failed"}
      /\ step' = "idle" => outcome' = "failed"
  BY DEF BatchesDone
<1>2. dir' = dir \/ dir' = [dir EXCEPT ![StateHome] = MadeState(@)]
  BY DEF BatchesDone
<1> DEFINE H == StateHome
           m == MadeState(dir[H])
<1>3. H \in DirNames /\ dir[H] \in Directory /\ Dated(dir[H])
  BY StateHomeType, DirFacts
<1>4. m \in Contents /\ m # Absent /\ HasState(m) /\ (HasState(dir[H]) => m = dir[H])
      /\ m.result = Made(dir[H]).result /\ m.html = Made(dir[H]).html
  BY <1>3, MadeStateType
<1>5. (dir[H] # Absent => m.result = dir[H].result /\ m.html = dir[H].html) /\ Dated(m)
  BY <1>3, <1>4, MadeType, EmptyType DEF Dated
<1> HIDE DEF m
<1>6. dir' = dir \/ dir' = [dir EXCEPT ![H] = m]
  BY <1>2 DEF m
<1>7. /\ dir' \in Dirs /\ \A x \in DirNames : x # H => dir'[x] = dir[x]
      /\ dir'[H] \in {m, dir[H]}
  BY <1>0, <1>3, <1>4, <1>6 DEF Dirs, Directory
<1>8. TypeOK'
  BY <1>0, <1>1, <1>7 DEF TypeOK, rest, inputs, Dirs, Steps
<1>9. BatchesOK'
  BY <1>0, <1>1 DEF BatchesOK, rest, inputs
<1>10. TrialOK'
  <2> SUFFICES ASSUME kind = "trial"
               PROVE  TrialOK'
    BY <1>0 DEF TrialOK, rest, inputs
  <2>1. HasState(dir["snapshots"]) /\ H = "snapshots"
    BY <1>0 DEF TrialOK, StateHome
  <2>2. dir'["snapshots"] = dir["snapshots"]
    BY <1>4, <1>7, <2>1
  <2>3. step' \notin Attempting \ {"merge"} /\ ~(step' = "idle" /\ outcome' = "done")
    BY <1>1 DEF Attempting
  <2> QED
    BY <1>0, <2>2, <2>3 DEF TrialOK, State, StateHome, rest, inputs, HasState, SeenBefore
<1>11. NewRootOK'
  BY <1>1 DEF NewRootOK, Replacing
<1>12. SetsDated'
  <2>1. \A x \in DirNames : Dated(dir'[x])
    BY <1>3, <1>5, <1>7, DirFacts
  <2> QED
    BY <2>1 DEF SetsDated, Dated
<1>13. OldRootOK'
  <2> SUFFICES ASSUME undone
               PROVE  OldRootOK'
    BY <1>0 DEF OldRootOK, rest
  <2>1. old["root"] # Absent /\ Good(dir["root"])
    BY <1>0 DEF OldRootOK, Good
  <2>2. Good(dir'["root"])
    <3>1. CASE dir'["root"] = dir["root"]
      BY <2>1, <3>1
    <3>2. CASE dir'["root"] # dir["root"]
      <4>1. H = "root" /\ dir'["root"] = m
        BY <1>7, <3>2, DirFacts
      <4> QED
        BY <1>4, <1>5, <2>1, <4>1 DEF Good
    <3> QED
      BY <3>1, <3>2
  <2> QED
    BY <1>0, <1>1, <2>1, <2>2 DEF OldRootOK, Good, Acceptable, Render, rest, inputs, HasState
<1> QED
  BY <1>8, <1>9, <1>10, <1>11, <1>12, <1>13

\* A step of an attempt that fails before the directories are touched, or after.
LEMMA FailHere ==
  ASSUME RootInv, step \in {"merge", "work", "save", "commit"}, AttemptFails(dir),
         faults' \in 0..MaxFaults, UNCHANGED <<rest, batches, merged>>
  PROVE  RootInv'
<1>1. undone /\ tick > 0 => Good(dir["root"])
  BY DEF RootInv, OldRootOK, Good
<1>2. tick > 0 /\ undone \in BOOLEAN
  BY DEF RootInv, BatchesOK, TypeOK
<1>3. step \in Attempting
  BY DEF Attempting
<1>4. UNCHANGED <<inputs, tick, export, old, batches, merged>> /\ undone' = undone
  BY DEF rest
<1> QED
  BY <1>1, <1>2, <1>3, <1>4, AttemptEnds, DirFacts

LEMMA FailAttemptInv ==
  ASSUME RootInv, FailAttempt
  PROVE  RootInv'
<1>1. faults' \in 0..MaxFaults
  BY CoverageRootAssumption DEF FailAttempt, RootInv, TypeOK
<1> QED
  BY <1>1, FailHere DEF FailAttempt

-----------------------------------------------------------------------------
(* One attempt to merge.                                                    *)

LEMMA SourcesType ==
  ASSUME RootInv, tick > 0
  PROVE  Merge(Sources) \in [All -> Nat]
<1> DEFINE bs == [b \in DOMAIN batches |-> batches[b].profile]
<1>1. batches \in Seq(Batch)
  BY DEF RootInv, TypeOK
<1>2. DOMAIN batches = 1..Len(batches) /\ Len(batches) \in Nat
      /\ \A b \in DOMAIN batches : batches[b].profile \in [All -> {0, 1}]
  <2>1. DOMAIN batches = 1..Len(batches) /\ Len(batches) \in Nat
        /\ \A b \in DOMAIN batches : batches[b] \in Batch
    BY <1>1
  <2> QED
    BY <2>1 DEF Batch
<1>3. bs \in Seq([All -> {0, 1}])
  BY <1>2
<1>4. CASE kind = "trial"
  <2>1. State.profile \in [All -> {0, 1}]
    <3>1. State.profile \in {old["snapshots"].state.profile, NextProfile}
      BY <1>4 DEF RootInv, TrialOK, NextProfile
    <3>2. old["snapshots"].state.profile \in [All -> {0, 1}]
      BY <1>4 DEF RootInv, TrialOK
    <3> QED
      BY <1>4, <3>1, <3>2, TrialMerge
  <2>2. Sources = <<State.profile>> \o bs
    BY <1>4 DEF Sources
  <2> HIDE DEF bs
  <2>3. Sources \in Seq([All -> {0, 1}])
    BY <1>3, <2>1, <2>2
  <2> QED
    BY <2>3, MergeType
<1>5. CASE kind # "trial"
  <2>1. Sources \in {<<ProfileOf(Measured)>>, bs, <<NoProfile>>}
    BY <1>5 DEF Sources
  <2> HIDE DEF bs
  <2>2. <<ProfileOf(Measured)>> \in Seq([All -> {0, 1}]) /\ <<NoProfile>> \in Seq([All -> {0, 1}])
    BY ProfileOfType, NoProfileType
  <2>3. Sources \in Seq([All -> {0, 1}])
    BY <1>3, <2>1, <2>2
  <2> QED
    BY <2>3, MergeType
<1> QED
  BY <1>4, <1>5

LEMMA StartAttemptInv ==
  ASSUME RootInv, StartAttempt
  PROVE  RootInv'
<1> USE DEF RootInv
<1>0. /\ step = "merge" /\ step' = "work" /\ tick > 0 /\ tries < Attempts /\ outcome' = outcome
      /\ UNCHANGED <<rest, faults, batches, tries>>
      /\ merged' = Merge(Sources)
  BY DEF StartAttempt, BatchesOK
<1>1. dir' \in Dirs /\ dir'["tmp"] = Empty /\ \A x \in DirNames : x # "tmp" => dir'[x] = dir[x]
  <2>1. dir' = [dir EXCEPT !["tmp"] = Empty]
    BY DEF StartAttempt
  <2> QED
    BY <2>1, DirFacts, EmptyType DEF Dirs, Directory
<1>2. TypeOK'
  <2>1. merged' \in [All -> Nat]
    BY <1>0, SourcesType
  <2> QED
    BY <1>0, <1>1, <2>1 DEF TypeOK, rest, inputs, Dirs, Steps
<1>3. BatchesOK'
  BY <1>0 DEF BatchesOK, rest, inputs
<1>4. TrialOK'
  <2> SUFFICES ASSUME kind = "trial"
               PROVE  TrialOK'
    BY <1>0 DEF TrialOK, rest, inputs
  <2>1. State.profile = old["snapshots"].state.profile /\ HasState(dir["snapshots"])
    BY <1>0 DEF TrialOK, Attempting
  <2>2. dir'["snapshots"] = dir["snapshots"]
    BY <1>1, DirFacts
  <2>3. merged' = NextProfile
    BY <1>0, <2>1 DEF Sources, NextProfile
  <2>4. step' \in Attempting \ {"merge"}
    BY <1>0 DEF Attempting
  <2> QED
    BY <1>0, <2>1, <2>2, <2>3, <2>4
       DEF TrialOK, State, StateHome, rest, inputs, HasState, SeenBefore, NextProfile
<1>5. NewRootOK'
  <2>1. dir'["tmp"] # Absent /\ dir'["tmp"].state = Absent
    BY <1>1, EmptyType
  <2> QED
    BY <1>0, <2>1 DEF NewRootOK, Replacing
<1>6. SetsDated'
  <2>1. Dated(Empty)
    BY EmptyType DEF Dated
  <2>2. \A x \in DirNames : Dated(dir'[x])
    BY <1>1, <2>1, DirFacts
  <2> QED
    BY <2>2 DEF SetsDated, Dated
<1>7. OldRootOK'
  <2>1. dir'["root"] = dir["root"]
    BY <1>1, DirFacts
  <2> QED
    BY <1>0, <2>1 DEF OldRootOK, Acceptable, Render, rest, inputs, HasState
<1> QED
  BY <1>2, <1>3, <1>4, <1>5, <1>6, <1>7

\* The result and the report of a new root.
LEMMA NewRootType ==
  ASSUME RootInv, NEW shown \in BOOLEAN, NEW copied \in BOOLEAN
  PROVE  /\ NewResult(copied) \in Result /\ NewResult(copied).tick = tick
         /\ NewResult(copied).covered = Covered(merged)
         /\ NewResult(copied).sets # Absent => NewResult(copied).source = NewResult(copied).sets
         /\ Html(shown) \in {Absent} \cup Report
         /\ Render => Html(shown) # Absent /\ Html(shown).tick = tick
         /\ ~Render => Html(shown) = Absent
<1>1. tick \in Nat /\ export \in BOOLEAN
  BY CoverageRootAssumption DEF RootInv, TypeOK
<1>2. Previous # Absent => Previous \in Result /\ (Previous.sets # Absent => Previous.source = Previous.sets)
  BY DirFacts DEF Previous, Dated
<1>3. /\ Sets(copied) \in {Absent} \cup Nat /\ SourceTick \in {Absent} \cup Nat
      /\ Sets(copied) # Absent => SourceTick = Sets(copied)
  <2>1. CASE export
    BY <1>1, <2>1 DEF Sets, SourceTick
  <2>2. CASE ~export /\ Previous # Absent
    BY <1>2, <2>2 DEF Sets, SourceTick, Result
  <2>3. CASE ~export /\ Previous = Absent
    BY <2>3 DEF Sets, SourceTick
  <2> QED
    BY <1>1, <2>1, <2>2, <2>3
<1>4. Covered(merged) \subseteq All
  BY DEF Covered
<1>5. NewResult(copied) \in Result
  BY <1>1, <1>3, <1>4 DEF NewResult, Result
<1>6. /\ NewResult(copied).tick = tick /\ NewResult(copied).covered = Covered(merged)
      /\ NewResult(copied).sets = Sets(copied) /\ NewResult(copied).source = SourceTick
  BY DEF NewResult
<1>7. [tick |-> tick, shown |-> shown] \in Report
  BY <1>1 DEF Report
<1> QED
  BY <1>3, <1>5, <1>6, <1>7, AbsentApart DEF Html

LEMMA WorkInv ==
  ASSUME RootInv, Work
  PROVE  RootInv'
<1>1. PICK shown \in BOOLEAN, copied \in BOOLEAN :
       /\ (~shown \/ ~copied) => faults > 0
       /\ faults' = IF shown /\ copied THEN faults ELSE faults - 1
       /\ IF ~Usable(merged) THEN AttemptFails(dir)
          ELSE /\ dir' = [dir EXCEPT
                    !["tmp"].result = NewResult(copied),
                    !["tmp"].html = Html(shown)]
               /\ step' = "save"
               /\ UNCHANGED <<tries, outcome>>
  BY DEF Work
<1>0. step = "work" /\ UNCHANGED <<rest, batches, merged>>
  BY DEF Work
<1>2. faults' \in 0..MaxFaults
  <2>1. faults \in 0..MaxFaults /\ MaxFaults \in Nat
    BY CoverageRootAssumption DEF RootInv, TypeOK
  <2> QED
    BY <1>1, <2>1
<1>3. CASE ~Usable(merged)
  BY <1>0, <1>1, <1>2, <1>3, FailHere
<1>4. CASE Usable(merged)
  <2> DEFINE R == [dir["tmp"] EXCEPT !.result = NewResult(copied)]
             T == [R EXCEPT !.html = Html(shown)]
  <2>1. dir' = [dir EXCEPT !["tmp"] = T] /\ step' = "save" /\ UNCHANGED <<tries, outcome>>
    <3>1. dir' = [dir EXCEPT !["tmp"].result = NewResult(copied), !["tmp"].html = Html(shown)]
      BY <1>1, <1>4
    <3>2. dir \in Dirs /\ "tmp" \in DirNames
      BY DirFacts
    <3> QED
      BY <1>1, <1>4, <3>1, <3>2 DEF Dirs
  <2>2. dir["tmp"] \in Contents /\ dir["tmp"].state = Absent /\ tick > 0 /\ tries < Attempts
    BY <1>0, DirFacts DEF RootInv, NewRootOK, BatchesOK
  <2>3. R \in Contents /\ R.result = NewResult(copied) /\ R.state = Absent
    BY <2>2, NewRootType DEF Contents
  <2> HIDE DEF R
  <2>4. T \in Contents /\ T.result = NewResult(copied) /\ T.html = Html(shown) /\ T.state = Absent
    BY <2>3, NewRootType DEF Contents
  <2> HIDE DEF T
  <2>5. dir' \in Dirs /\ dir'["tmp"] = T /\ \A x \in DirNames : x # "tmp" => dir'[x] = dir[x]
    BY <2>1, <2>4, DirFacts DEF Dirs, Directory
  <2>6. T # Absent /\ T.result # Absent
    BY <2>4, NewRootType, AbsentApart
  <2> USE DEF RootInv
  <2>7. TypeOK'
    BY <1>0, <1>2, <2>1, <2>5 DEF TypeOK, rest, inputs, Dirs, Steps
  <2>8. BatchesOK'
    BY <1>0, <2>1, <2>2 DEF BatchesOK, rest, inputs
  <2>9. TrialOK'
    <3>1. dir'["snapshots"] = dir["snapshots"]
      BY <2>5, DirFacts
    <3>2. step \in Attempting \ {"merge"} /\ step' \in Attempting \ {"merge"}
      BY <1>0, <2>1 DEF Attempting
    <3> QED
      BY <1>0, <2>1, <2>2, <3>1, <3>2
         DEF TrialOK, State, StateHome, rest, inputs, HasState, SeenBefore
  <2>10. NewRootOK'
    <3>1. Whole(dir["tmp"])'
      BY <1>0, <2>4, <2>5, <2>6, NewRootType DEF Whole, Render, rest, inputs
    <3>2. dir'["tmp"].state = Absent /\ (~Render => dir'["tmp"].html = Absent)
      BY <2>4, <2>5, NewRootType
    <3> QED
      BY <1>0, <2>1, <2>5, <2>6, <3>1, <3>2 DEF NewRootOK, Replacing, Render, rest, inputs
  <2>11. SetsDated'
    <3>1. Dated(T)
      BY <2>4, NewRootType DEF Dated
    <3>2. \A x \in DirNames : Dated(dir'[x])
      BY <2>5, <3>1, DirFacts
    <3> QED
      BY <3>2 DEF SetsDated, Dated
  <2>12. OldRootOK'
    <3>1. dir'["root"] = dir["root"]
      BY <2>5, DirFacts
    <3> QED
      BY <1>0, <2>1, <3>1 DEF OldRootOK, Acceptable, Render, rest, inputs, HasState
  <2> QED
    BY <2>7, <2>8, <2>9, <2>10, <2>11, <2>12
<1> QED
  BY <1>3, <1>4

LEMMA SaveInv ==
  ASSUME RootInv, Save
  PROVE  RootInv'
<1>0. step = "save" /\ UNCHANGED <<rest, faults, batches, merged>>
  BY DEF Save
<1>1. faults' \in 0..MaxFaults
  BY <1>0 DEF RootInv, TypeOK
<1>2. CASE ~HasState(dir[StateHome])
  BY <1>0, <1>1, <1>2, FailHere DEF Save
<1>3. CASE HasState(dir[StateHome])
  <2>1. /\ dir' = [dir EXCEPT ![StateHome].state.candidate = merged]
        /\ step' = "state" /\ UNCHANGED <<tries, outcome>>
    BY <1>3 DEF Save
  <2>2. dir \in Dirs /\ merged \in [All -> Nat] /\ tick > 0 /\ tries < Attempts
    BY <1>0, DirFacts DEF RootInv, TypeOK, BatchesOK
  <2>3. /\ dir' \in Dirs /\ \A x \in DirNames : Alike(dir[x], dir'[x])
        /\ HasState(dir'[StateHome]) /\ dir'[StateHome].state.candidate = merged
        /\ \A x \in DirNames : x # StateHome => dir'[x] = dir[x]
    <3> DEFINE e == [dir EXCEPT ![StateHome].state.candidate = merged]
    <3>1. /\ e \in Dirs /\ \A x \in DirNames : Alike(dir[x], e[x])
          /\ HasState(e[StateHome]) /\ e[StateHome].state.candidate = merged
          /\ \A x \in DirNames : x # StateHome => e[x] = dir[x]
      BY <1>3, <2>2, CandidateExcept
    <3>2. dir' = e
      BY <2>1
    <3> HIDE DEF e
    <3> QED
      BY <3>1, <3>2
  <2> USE DEF RootInv
  <2>4. TypeOK'
    BY <1>0, <1>1, <2>1, <2>3 DEF TypeOK, rest, inputs, Dirs, Steps
  <2>5. BatchesOK'
    BY <1>0, <2>1, <2>2 DEF BatchesOK, rest, inputs
  <2>6. TrialOK'
    <3> SUFFICES ASSUME kind = "trial"
                 PROVE  TrialOK'
      BY <1>0 DEF TrialOK, rest, inputs
    <3>1. HasState(dir["snapshots"]) /\ HasState(dir'["snapshots"])
          /\ dir'["snapshots"].state.profile = dir["snapshots"].state.profile
      BY <2>2, <2>3, DirFacts DEF TrialOK, Alike, HasState
    <3>2. step \in Attempting \ {"merge"} /\ step' \in Attempting \ {"merge"}
      BY <1>0, <2>1 DEF Attempting
    <3> QED
      BY <1>0, <2>1, <2>2, <3>1, <3>2
         DEF TrialOK, State, StateHome, rest, inputs, HasState, SeenBefore
  <2>7. NewRootOK'
    <3>1. dir'["tmp"] = dir["tmp"]
      BY <2>3, DirFacts DEF StateHome
    <3>2. Held' = dir'[StateHome]
      BY <1>0, <2>1 DEF Held, StateHome, rest, inputs
    <3> QED
      BY <1>0, <2>1, <2>3, <3>1, <3>2 DEF NewRootOK, Replacing, Whole, Render, rest, inputs, HasState
  <2>8. SetsDated'
    <3>1. \A x \in DirNames : Dated(dir'[x])
      BY <2>3, DirFacts DEF Dated, Alike
    <3> QED
      BY <3>1 DEF SetsDated, Dated
  <2>9. OldRootOK'
    <3>1. Alike(dir["root"], dir'["root"])
      BY <2>3, DirFacts
    <3> QED
      BY <1>0, <2>1, <3>1 DEF OldRootOK, Acceptable, Render, rest, inputs, HasState, Alike
  <2> QED
    BY <2>4, <2>5, <2>6, <2>7, <2>8, <2>9
<1> QED
  BY <1>2, <1>3

-----------------------------------------------------------------------------
(* The replacement of the root.                                             *)

\* Moving the state directory from one directory to another.
StateMoved(d, a, b) == [d EXCEPT ![b]["state"] = d[a]["state"], ![a]["state"] = Absent]

LEMMA MoveState ==
  ASSUME NEW d \in Dirs, NEW a \in DirNames, NEW b \in DirNames, a # b,
         d[a] # Absent, d[b] # Absent
  PROVE  LET e == StateMoved(d, a, b)
         IN /\ e \in Dirs /\ \A x \in DirNames : x \notin {a, b} => e[x] = d[x]
            /\ e[a] # Absent /\ e[a].result = d[a].result /\ e[a].html = d[a].html /\ e[a].state = Absent
            /\ e[b] # Absent /\ e[b].result = d[b].result /\ e[b].html = d[b].html /\ e[b].state = d[a].state
<1> DEFINE B == [d[b] EXCEPT !.state = d[a].state]
           A == [d[a] EXCEPT !.state = Absent]
           e == StateMoved(d, a, b)
<1>1. d[a] \in Contents /\ d[b] \in Contents
  BY DEF Dirs, Directory
<1>2. /\ B \in Contents /\ B.result = d[b].result /\ B.html = d[b].html /\ B.state = d[a].state
      /\ A \in Contents /\ A.result = d[a].result /\ A.html = d[a].html /\ A.state = Absent
  BY <1>1 DEF Contents
<1>3. e = [d EXCEPT ![b] = B, ![a] = A]
  BY DEF Dirs, StateMoved
<1> HIDE DEF A, B, e
<1>4. e \in Dirs /\ e[a] = A /\ e[b] = B /\ \A x \in DirNames : x \notin {a, b} => e[x] = d[x]
  BY <1>2, <1>3 DEF Dirs, Directory
<1> QED
  BY <1>2, <1>4, AbsentApart DEF e

\* Moving the report.
HtmlMoved(d, a, b) == [d EXCEPT ![b]["html"] = d[a]["html"], ![a]["html"] = Absent]

LEMMA MoveHtml ==
  ASSUME NEW d \in Dirs, NEW a \in DirNames, NEW b \in DirNames, a # b,
         d[a] # Absent, d[b] # Absent
  PROVE  LET e == HtmlMoved(d, a, b)
         IN /\ e \in Dirs /\ \A x \in DirNames : x \notin {a, b} => e[x] = d[x]
            /\ e[a] # Absent /\ e[a].result = d[a].result /\ e[a].state = d[a].state /\ e[a].html = Absent
            /\ e[b] # Absent /\ e[b].result = d[b].result /\ e[b].state = d[b].state /\ e[b].html = d[a].html
<1> DEFINE B == [d[b] EXCEPT !.html = d[a].html]
           A == [d[a] EXCEPT !.html = Absent]
           e == HtmlMoved(d, a, b)
<1>1. d[a] \in Contents /\ d[b] \in Contents
  BY DEF Dirs, Directory
<1>2. /\ B \in Contents /\ B.result = d[b].result /\ B.state = d[b].state /\ B.html = d[a].html
      /\ A \in Contents /\ A.result = d[a].result /\ A.state = d[a].state /\ A.html = Absent
  BY <1>1 DEF Contents
<1>3. e = [d EXCEPT ![b] = B, ![a] = A]
  BY DEF Dirs, HtmlMoved
<1> HIDE DEF A, B, e
<1>4. e \in Dirs /\ e[a] = A /\ e[b] = B /\ \A x \in DirNames : x \notin {a, b} => e[x] = d[x]
  BY <1>2, <1>3 DEF Dirs, Directory
<1> QED
  BY <1>2, <1>4, AbsentApart DEF e

\* Before anything is retired, the old root is where it was.
LEMMA HomeIsRoot ==
  ASSUME dir["root"] # Absent
  PROVE  Home = dir["root"]
  BY DEF Home, Restore

\* The facts of RootInv that a step of the replacement keeps if it leaves the
\* snapshots and the history alone.
LEMMA ReplacementStep ==
  ASSUME RootInv, step \in {"state", "html", "retire", "publish"},
         step' \in {"html", "retire", "publish", "commit", "undo"},
         dir' \in Dirs, dir'["snapshots"] = dir["snapshots"], \A x \in DirNames : Dated(dir'[x]),
         faults' \in 0..MaxFaults, UNCHANGED <<rest, batches, tries, merged, outcome>>
  PROVE  TypeOK' /\ BatchesOK' /\ TrialOK' /\ SetsDated' /\ tick > 0 /\ tries < Attempts
<1> USE DEF RootInv
<1>0. tick > 0 /\ tries < Attempts
  BY DEF BatchesOK
<1>1. TypeOK'
  BY DEF TypeOK, rest, inputs, Dirs, Steps
<1>2. BatchesOK'
  BY <1>0 DEF BatchesOK, rest, inputs
<1>3. TrialOK'
  <2>1. step \in Attempting \ {"merge"} /\ step' \in Attempting \ {"merge"}
    BY DEF Attempting
  <2> QED
    BY <1>0, <2>1 DEF TrialOK, State, StateHome, rest, inputs, HasState, SeenBefore
<1>4. SetsDated'
  BY DEF SetsDated, Dated
<1> QED
  BY <1>0, <1>1, <1>2, <1>3, <1>4

LEMMA CarryStateInv ==
  ASSUME RootInv, CarryState
  PROVE  RootInv'
<1>0. /\ step = "state" /\ step' = "html" /\ UNCHANGED <<rest, faults, batches, tries, merged, outcome>>
      /\ faults' \in 0..MaxFaults /\ dir \in Dirs
  BY DirFacts DEF CarryState, Carry, RootInv, TypeOK
<1>1. /\ Whole(dir["tmp"]) /\ dir["tmp"].state = Absent /\ (~Render => dir["tmp"].html = Absent)
      /\ HasState(Held) /\ Held.state.candidate = merged /\ tick > 0
  BY <1>0 DEF RootInv, NewRootOK, BatchesOK, Replacing
<1>2. CASE Carried("state")
  <2>0. dir["root"] # Absent /\ dir["root"].state # Absent /\ dir["tmp"] # Absent
    BY <1>1, <1>2 DEF Carried, Whole
  <2>1. /\ dir' \in Dirs /\ dir'["backup"] = dir["backup"] /\ dir'["snapshots"] = dir["snapshots"]
        /\ dir'["root"] # Absent /\ dir'["root"].result = dir["root"].result
        /\ dir'["root"].html = dir["root"].html /\ dir'["root"].state = Absent
        /\ dir'["tmp"] # Absent /\ dir'["tmp"].result = dir["tmp"].result
        /\ dir'["tmp"].html = dir["tmp"].html /\ dir'["tmp"].state = dir["root"].state
    <3> DEFINE e == StateMoved(dir, "root", "tmp")
    <3>1. dir' = e
      BY <1>2 DEF CarryState, Carry, StateMoved
    <3>2. /\ e \in Dirs /\ \A x \in DirNames : x \notin {"root", "tmp"} => e[x] = dir[x]
          /\ e["root"] # Absent /\ e["root"].result = dir["root"].result
          /\ e["root"].html = dir["root"].html /\ e["root"].state = Absent
          /\ e["tmp"] # Absent /\ e["tmp"].result = dir["tmp"].result
          /\ e["tmp"].html = dir["tmp"].html /\ e["tmp"].state = dir["root"].state
      <4>1. dir \in Dirs /\ "root" \in DirNames /\ "tmp" \in DirNames /\ "root" # "tmp"
        BY <1>0 DEF DirNames
      <4> QED
        BY <2>0, <4>1, MoveState
    <3> HIDE DEF e
    <3> QED
      BY <3>1, <3>2, DirFacts
  <2>2. \A x \in DirNames : Dated(dir'[x])
    <3>1. Dated(dir'["root"]) /\ Dated(dir'["tmp"]) /\ Dated(dir'["backup"]) /\ Dated(dir'["snapshots"])
      BY <2>0, <2>1, DirFacts DEF Dated
    <3> QED
      BY <3>1 DEF DirNames
  <2>3. TypeOK' /\ BatchesOK' /\ TrialOK' /\ SetsDated'
    BY <1>0, <2>1, <2>2, ReplacementStep
  <2>4. NewRootOK'
    <3>1. HasState(Held)' /\ Held'.state.candidate = merged
      BY <1>0, <1>1, <2>0, <2>1 DEF Held, HasState, rest, inputs
    <3> QED
      BY <1>0, <1>1, <2>1, <3>1 DEF NewRootOK, Whole, Replacing, Render, rest, inputs
  <2>5. OldRootOK'
    <3> SUFFICES ASSUME undone
                 PROVE  OldRootOK'
      BY <1>0 DEF OldRootOK, rest
    <3>1. /\ old["root"] # Absent /\ Acceptable(dir["root"].result, dir["root"].html)
      BY <1>0, <1>1 DEF RootInv, OldRootOK
    <3>2. Home' = dir'["root"] /\ LastHtml' = dir'["root"].html
      BY <1>0, <1>1, <2>1 DEF Home, LastHtml, Restore, Moved, Render, rest, inputs
    <3> QED
      BY <1>0, <2>0, <2>1, <3>1, <3>2
         DEF OldRootOK, Acceptable, Render, rest, inputs, HasState, Moved
  <2> QED
    BY <2>3, <2>4, <2>5 DEF RootInv
<1>3. CASE ~Carried("state")
  <2>0. dir' = dir
    BY <1>3 DEF CarryState, Carry
  <2>1. TypeOK' /\ BatchesOK' /\ TrialOK' /\ SetsDated'
    BY <1>0, <2>0, ReplacementStep, DirFacts
  <2>2. kind = "trial"
    BY <1>0, <1>1, <1>3 DEF Held, HasState, Carried
  <2>3. NewRootOK'
    <3>1. HasState(Held)' /\ Held'.state.candidate = merged
      BY <1>0, <1>1, <2>0, <2>2 DEF Held, HasState, rest, inputs
    <3> QED
      BY <1>0, <1>1, <2>0, <3>1 DEF NewRootOK, Whole, Replacing, Render, rest, inputs, Moved
  <2>4. OldRootOK'
    <3> SUFFICES ASSUME undone
                 PROVE  OldRootOK'
      BY <1>0 DEF OldRootOK, rest
    <3>1. /\ old["root"] # Absent /\ Acceptable(dir["root"].result, dir["root"].html)
          /\ dir["root"] # Absent /\ ~HasState(old["root"])
      BY <1>0, <1>1, <1>3 DEF RootInv, OldRootOK, Carried, HasState
    <3>2. Home' = dir'["root"] /\ LastHtml' = dir'["root"].html
      BY <1>0, <1>1, <2>0, <3>1 DEF Home, LastHtml, Restore, Moved, Render, rest, inputs
    <3> QED
      BY <1>0, <2>0, <3>1, <3>2
         DEF OldRootOK, Acceptable, Render, rest, inputs, HasState, Moved
  <2> QED
    BY <2>1, <2>3, <2>4 DEF RootInv
<1> QED
  BY <1>2, <1>3

LEMMA CarryHtmlInv ==
  ASSUME RootInv, CarryHtml
  PROVE  RootInv'
<1>0. /\ step = "html" /\ step' = "retire" /\ ~Render
      /\ UNCHANGED <<rest, faults, batches, tries, merged, outcome>>
      /\ faults' \in 0..MaxFaults /\ dir \in Dirs
  BY DirFacts DEF CarryHtml, Carry, RootInv, TypeOK
<1>1. /\ Whole(dir["tmp"]) /\ dir["tmp"].html = Absent
      /\ HasState(Held) /\ Held.state.candidate = merged /\ tick > 0
      /\ Moved("state") => dir["root"] # Absent
  BY <1>0 DEF RootInv, NewRootOK, BatchesOK, Replacing
<1>2. undone => /\ old["root"] # Absent /\ dir["root"] # Absent
                /\ Acceptable(dir["root"].result, dir["root"].html)
                /\ dir["root"].html = old["root"].html
                /\ HasState(old["root"]) => Moved("state")
  <2>1. undone => /\ old["root"] # Absent /\ dir["root"] # Absent
                  /\ Acceptable(Home.result, LastHtml)
                  /\ HasState(old["root"]) => Moved("state")
    BY <1>0, <1>1 DEF RootInv, OldRootOK
  <2>2. dir["root"] # Absent => Home = dir["root"] /\ LastHtml = dir["root"].html
    BY <1>1, HomeIsRoot DEF LastHtml, Moved
  <2> QED
    BY <1>0, <2>1, <2>2 DEF Acceptable
<1>3. /\ dir' \in Dirs /\ dir'["backup"] = dir["backup"] /\ dir'["snapshots"] = dir["snapshots"]
      /\ dir["root"] # Absent => /\ dir'["root"] # Absent /\ dir'["root"].result = dir["root"].result
                                 /\ dir'["root"].html = Absent /\ dir'["tmp"].html = dir["root"].html
      /\ dir["root"] = Absent => dir'["root"] = Absent /\ dir'["tmp"].html = Absent
      /\ dir'["tmp"] # Absent /\ dir'["tmp"].result = dir["tmp"].result
      /\ dir'["tmp"].state = dir["tmp"].state
  <2>0. dir["tmp"] # Absent
    BY <1>1 DEF Whole
  <2>1. CASE Carried("html")
    <3> DEFINE e == HtmlMoved(dir, "root", "tmp")
    <3>1. dir' = e
      BY <2>1 DEF CarryHtml, Carry, HtmlMoved
    <3>2. dir["root"] # Absent
      BY <2>1 DEF Carried
    <3>3. /\ e \in Dirs /\ \A x \in DirNames : x \notin {"root", "tmp"} => e[x] = dir[x]
          /\ e["root"] # Absent /\ e["root"].result = dir["root"].result /\ e["root"].html = Absent
          /\ e["tmp"] # Absent /\ e["tmp"].result = dir["tmp"].result
          /\ e["tmp"].state = dir["tmp"].state /\ e["tmp"].html = dir["root"].html
      <4>1. dir \in Dirs /\ "root" \in DirNames /\ "tmp" \in DirNames /\ "root" # "tmp"
        BY <1>0 DEF DirNames
      <4> QED
        BY <2>0, <3>2, <4>1, MoveHtml
    <3> HIDE DEF e
    <3> QED
      BY <3>1, <3>2, <3>3, DirFacts
  <2>2. CASE ~Carried("html")
    <3>1. dir' = dir
      BY <2>2 DEF CarryHtml, Carry
    <3> QED
      BY <1>0, <1>1, <2>0, <2>2, <3>1 DEF Carried
  <2> QED
    BY <2>1, <2>2
<1>4. \A x \in DirNames : Dated(dir'[x])
  <2>1. Dated(dir'["root"]) /\ Dated(dir'["tmp"]) /\ Dated(dir'["backup"]) /\ Dated(dir'["snapshots"])
    BY <1>1, <1>3, DirFacts DEF Dated, Whole
  <2> QED
    BY <2>1 DEF DirNames
<1>5. TypeOK' /\ BatchesOK' /\ TrialOK' /\ SetsDated'
  BY <1>0, <1>3, <1>4, ReplacementStep
<1>6. NewRootOK'
  <2>1. Whole(dir["tmp"])'
    BY <1>0, <1>1, <1>3 DEF Whole, Render, rest, inputs
  <2>2. HasState(Held)' /\ Held'.state.candidate = merged
    BY <1>0, <1>1, <1>3 DEF Held, HasState, rest, inputs
  <2>3. (Moved("state") \/ (Moved("html") /\ ~Render))' => dir'["root"] # Absent
    BY <1>1, <1>3 DEF Moved
  <2> QED
    BY <1>0, <2>1, <2>2, <2>3 DEF NewRootOK, Replacing
<1>7. OldRootOK'
  <2> SUFFICES ASSUME undone
               PROVE  OldRootOK'
    BY <1>0 DEF OldRootOK, rest
  <2>1. Home' = dir'["root"] /\ dir'["root"] # Absent
    BY <1>2, <1>3 DEF Home, Restore
  <2>2. LastHtml' = old["root"].html /\ dir'["tmp"].html = old["root"].html
    BY <1>0, <1>2, <1>3, <2>1 DEF LastHtml, Moved, Render, rest, inputs
  <2> QED
    BY <1>0, <1>2, <1>3, <2>1, <2>2 DEF OldRootOK, Acceptable, Render, rest, inputs, Moved, HasState
<1> QED
  BY <1>5, <1>6, <1>7 DEF RootInv

LEMMA SkipHtmlInv ==
  ASSUME RootInv, SkipHtml
  PROVE  RootInv'
<1>0. /\ step = "html" /\ step' = "retire" /\ Render /\ dir' = dir
      /\ UNCHANGED <<rest, faults, batches, tries, merged, outcome>>
      /\ faults' \in 0..MaxFaults
  BY DEF SkipHtml, RootInv, TypeOK
<1>1. TypeOK' /\ BatchesOK' /\ TrialOK' /\ SetsDated'
  BY <1>0, ReplacementStep, DirFacts
<1>2. NewRootOK'
  <2>1. NewRootOK
    BY DEF RootInv
  <2>2. Held' = Held
    BY <1>0 DEF Held, rest, inputs
  <2> QED
    BY <1>0, <2>1, <2>2 DEF NewRootOK, Replacing, Whole, Render, Moved, HasState, rest, inputs
<1>3. OldRootOK'
  <2>1. OldRootOK
    BY DEF RootInv
  <2>2. Home' = Home /\ LastHtml' = LastHtml
    BY <1>0 DEF Home, LastHtml, Restore, Moved, Render, rest, inputs
  <2> QED
    BY <1>0, <2>1, <2>2 DEF OldRootOK, Acceptable, Render, Moved, HasState, rest, inputs
<1> QED
  BY <1>1, <1>2, <1>3 DEF RootInv

LEMMA RetireInv ==
  ASSUME RootInv, Retire
  PROVE  RootInv'
<1>0. /\ step = "retire" /\ step' = "publish"
      /\ UNCHANGED <<rest, faults, batches, tries, merged, outcome>>
      /\ faults' \in 0..MaxFaults /\ tick > 0
  BY DEF Retire, RootInv, TypeOK, BatchesOK
<1>1. /\ dir' \in Dirs /\ dir'["backup"] = dir["root"] /\ dir'["root"] = Absent
      /\ dir'["tmp"] = dir["tmp"] /\ dir'["snapshots"] = dir["snapshots"]
  <2>1. dir' = [dir EXCEPT !["backup"] = dir["root"], !["root"] = Absent]
    BY DEF Retire
  <2> QED
    BY <2>1, DirFacts DEF Dirs, DirNames, Directory
<1>2. \A x \in DirNames : Dated(dir'[x])
  BY <1>1, DirFacts DEF Dated, DirNames
<1>3. TypeOK' /\ BatchesOK' /\ TrialOK' /\ SetsDated'
  BY <1>0, <1>1, <1>2, ReplacementStep
<1>4. Home' = dir["root"]
  <2>1. CASE dir["root"] = Absent
    BY <1>1, <2>1 DEF Home, Restore
  <2>2. CASE dir["root"] # Absent
    BY <1>1, <2>2 DEF Home, Restore, Dirs, DirNames
  <2> QED
    BY <2>1, <2>2
<1>5. NewRootOK'
  <2>1. NewRootOK
    BY DEF RootInv
  <2>2. Held' = Held
    BY <1>0, <1>1 DEF Held, rest, inputs
  <2> QED
    BY <1>0, <1>1, <1>4, <2>1, <2>2 DEF NewRootOK, Replacing, Whole, Render, Moved, HasState, rest, inputs
<1>6. OldRootOK'
  <2> SUFFICES ASSUME undone
               PROVE  OldRootOK'
    BY <1>0 DEF OldRootOK, rest
  <2>1. /\ old["root"] # Absent /\ dir["root"] # Absent
        /\ Acceptable(Home.result, LastHtml)
        /\ HasState(old["root"]) => Moved("state")
        /\ ~Render => dir["tmp"].html = old["root"].html
    BY <1>0 DEF RootInv, OldRootOK
  <2>2. Home = dir["root"]
    BY <2>1, HomeIsRoot
  <2>3. LastHtml' = LastHtml
    BY <1>0, <1>1, <1>4, <2>2 DEF LastHtml, Moved, Render, rest, inputs
  <2> QED
    BY <1>0, <1>1, <1>4, <2>1, <2>2, <2>3 DEF OldRootOK, Acceptable, Render, Moved, HasState, rest, inputs
<1> QED
  BY <1>3, <1>5, <1>6 DEF RootInv

LEMMA PublishInv ==
  ASSUME RootInv, Publish
  PROVE  RootInv'
<1>0. /\ step = "publish" /\ step' = "commit"
      /\ UNCHANGED <<rest, faults, batches, tries, merged, outcome>>
      /\ faults' \in 0..MaxFaults /\ tick > 0
  BY DEF Publish, RootInv, TypeOK, BatchesOK
<1>1. /\ dir' \in Dirs /\ dir'["root"] = dir["tmp"] /\ dir'["tmp"] = Absent
      /\ dir'["backup"] = Absent /\ dir'["snapshots"] = dir["snapshots"]
  <2>1. dir' = [dir EXCEPT !["root"] = dir["tmp"], !["tmp"] = Absent, !["backup"] = Absent]
    BY DEF Publish
  <2> QED
    BY <2>1, DirFacts DEF Dirs, DirNames, Directory
<1>2. \A x \in DirNames : Dated(dir'[x])
  BY <1>1, DirFacts DEF Dated, DirNames
<1>3. TypeOK' /\ BatchesOK' /\ TrialOK' /\ SetsDated'
  BY <1>0, <1>1, <1>2, ReplacementStep
<1>4. Whole(dir["tmp"]) /\ HasState(Held) /\ Held.state.candidate = merged
  BY <1>0 DEF RootInv, NewRootOK, Replacing
<1>5. NewRootOK'
  <2>1. Held' = Held
    BY <1>0, <1>1 DEF Held, rest, inputs
  <2> QED
    BY <1>0, <1>1, <1>4, <2>1 DEF NewRootOK, Replacing, Whole, Render, HasState, rest, inputs
<1>6. OldRootOK'
  <2> SUFFICES ASSUME undone
               PROVE  OldRootOK'
    BY <1>0 DEF OldRootOK, rest
  <2>1. /\ old["root"] # Absent /\ HasState(old["root"]) => Moved("state")
        /\ ~Render => dir["tmp"].html = old["root"].html
    BY <1>0 DEF RootInv, OldRootOK
  <2>2. Acceptable(dir'["root"].result, dir'["root"].html)
    BY <1>1, <1>4, <2>1 DEF Acceptable, Whole
  <2>3. old["root"] # Absent /\ (HasState(old["root"]) => HasState(dir'["root"])) /\ dir'["root"] # Absent
    BY <1>0, <1>1, <1>4, <2>1 DEF RootInv, OldRootOK, Whole, HasState, Moved
  <2> QED
    BY <1>0, <2>2, <2>3 DEF OldRootOK, Acceptable, Render, HasState, rest, inputs
<1> QED
  BY <1>3, <1>5, <1>6 DEF RootInv

LEMMA CommitInv ==
  ASSUME RootInv, Commit
  PROVE  RootInv'
<1> USE DEF RootInv
<1>0. /\ step = "commit" /\ step' = "idle" /\ outcome' = "done"
      /\ UNCHANGED <<rest, faults, batches, tries, merged>> /\ tick > 0 /\ merged \in [All -> Nat]
  BY DEF Commit, TypeOK, BatchesOK
<1> DEFINE H == StateHome
           s == [profile |-> merged, candidate |-> NoProfile]
           c == [dir[H] EXCEPT !.state = s]
<1>1. H \in DirNames /\ HasState(dir[H]) /\ dir[H].state.candidate = merged /\ Whole(dir["root"])
  BY <1>0, StateHomeType DEF NewRootOK, Held, StateHome
<1>2. dir[H] \in Contents /\ Dated(dir[H])
  BY <1>1, DirFacts DEF HasState
<1>3. s \in StateDir /\ s.profile = merged
  BY <1>0, NoProfileType DEF StateDir
<1> HIDE DEF s
<1>4. c \in Contents /\ c.result = dir[H].result /\ c.html = dir[H].html /\ c.state = s
  BY <1>2, <1>3 DEF Contents
<1>5. dir' = [dir EXCEPT ![H] = c]
  <2>1. State.candidate = merged
    BY <1>1 DEF State
  <2>2. dir' = [dir EXCEPT ![H].state = s]
    BY <2>1 DEF Commit, s
  <2> QED
    BY <2>2
<1> HIDE DEF c
<1>6. HasState(c) /\ Dated(c) /\ c.state.profile = merged
  BY <1>2, <1>3, <1>4, AbsentApart DEF HasState, Dated
<1>7. dir' \in Dirs /\ dir'[H] = c /\ \A x \in DirNames : x # H => dir'[x] = dir[x]
  BY <1>1, <1>4, <1>5, DirFacts DEF Dirs, Directory
<1>8. TypeOK'
  BY <1>0, <1>7 DEF TypeOK, rest, inputs, Dirs, Steps
<1>9. BatchesOK'
  BY <1>0 DEF BatchesOK, rest, inputs
<1>10. TrialOK'
  <2> SUFFICES ASSUME kind = "trial"
               PROVE  TrialOK'
    BY <1>0 DEF TrialOK, rest, inputs
  <2>1. dir'["snapshots"] = c
    BY <1>7 DEF StateHome
  <2>2. step \in Attempting \ {"merge"} /\ step' \notin Attempting
    BY <1>0 DEF Attempting
  <2>3. merged = NextProfile
    BY <1>0, <2>2 DEF TrialOK, NextProfile
  <2> QED
    BY <1>0, <1>6, <2>1, <2>2, <2>3 DEF TrialOK, State, StateHome, rest, inputs, HasState, SeenBefore, NextProfile
<1>11. NewRootOK'
  BY <1>0 DEF NewRootOK, Replacing
<1>12. SetsDated'
  <2>1. \A x \in DirNames : Dated(dir'[x])
    BY <1>6, <1>7, DirFacts
  <2> QED
    BY <2>1 DEF SetsDated, Dated
<1>13. OldRootOK'
  <2> SUFFICES ASSUME undone
               PROVE  OldRootOK'
    BY <1>0 DEF OldRootOK, rest
  <2>1. old["root"] # Absent /\ Good(dir["root"])
    BY <1>0 DEF OldRootOK, Good
  <2>2. /\ dir'["root"] # Absent /\ dir'["root"].result = dir["root"].result
        /\ dir'["root"].html = dir["root"].html
        /\ HasState(dir["root"]) => HasState(dir'["root"])
    BY <1>1, <1>4, <1>6, <1>7, <2>1, AbsentApart, DirFacts DEF Good
  <2>3. State'.profile = merged
    BY <1>0, <1>6, <1>7 DEF State, StateHome, rest, inputs
  <2>4. /\ dir'["root"].result # Absent /\ dir'["root"].result.tick = tick
        /\ dir'["root"].result.covered = Covered(State'.profile)
    BY <1>1, <2>2, <2>3 DEF Whole, Covered
  <2>5. Acceptable(dir'["root"].result, dir'["root"].html) /\ (HasState(old["root"]) => HasState(dir'["root"]))
    BY <2>1, <2>2 DEF Good
  <2> QED
    BY <1>0, <2>1, <2>2, <2>4, <2>5 DEF OldRootOK, Acceptable, Render, HasState, Covered, rest, inputs
<1> QED
  BY <1>8, <1>9, <1>10, <1>11, <1>12, <1>13

-----------------------------------------------------------------------------
(* A replacement that fails, and its undoing.                               *)

LEMMA FailReplacementInv ==
  ASSUME RootInv, FailReplacement
  PROVE  RootInv'
<1>0. /\ step \in {"state", "html", "retire", "publish"} /\ step' = "undo" /\ dir' = dir
      /\ UNCHANGED <<rest, batches, tries, merged, outcome>> /\ tick > 0
      /\ step \in {"state", "html", "retire"} => dir["root"] # Absent
  BY DEF FailReplacement, RootInv, BatchesOK, Carried
<1>1. faults' \in 0..MaxFaults
  BY CoverageRootAssumption DEF FailReplacement, RootInv, TypeOK
<1>2. TypeOK' /\ BatchesOK' /\ TrialOK' /\ SetsDated'
  BY <1>0, <1>1, ReplacementStep, DirFacts
<1>3. Home' = Home /\ LastHtml' = LastHtml
  BY <1>0 DEF Home, LastHtml, Restore, Moved, Render, rest, inputs
<1>4. NewRootOK'
  <2>1. NewRootOK
    BY DEF RootInv
  <2>2. step # "publish" => Home # Absent
    BY <1>0, HomeIsRoot
  <2> QED
    BY <1>0, <1>3, <2>1, <2>2 DEF NewRootOK, Replacing, Whole, Render, Moved, rest, inputs
<1>5. OldRootOK'
  <2> SUFFICES ASSUME undone
               PROVE  OldRootOK'
    BY <1>0 DEF OldRootOK, rest
  <2>1. /\ old["root"] # Absent /\ Home # Absent /\ Acceptable(Home.result, LastHtml)
        /\ HasState(old["root"]) => Moved("state") \/ HasState(Home)
    <3>1. CASE step = "state"
      <4>1. /\ old["root"] # Absent /\ dir["root"] # Absent
            /\ Acceptable(dir["root"].result, dir["root"].html)
            /\ HasState(old["root"]) => HasState(dir["root"])
        BY <1>0, <3>1 DEF RootInv, OldRootOK
      <4>2. ~Render => dir["tmp"].html = Absent
        BY <3>1 DEF RootInv, NewRootOK
      <4> QED
        BY <4>1, <4>2, HomeIsRoot DEF LastHtml, Moved
    <3>2. CASE step # "state"
      BY <1>0, <3>2 DEF RootInv, OldRootOK
    <3> QED
      BY <3>1, <3>2
  <2> QED
    BY <1>0, <1>3, <2>1 DEF OldRootOK, Acceptable, Render, HasState, Moved, rest, inputs
<1> QED
  BY <1>2, <1>4, <1>5 DEF RootInv

\* What the renames that undo a replacement leave, one after the other.
LEMMA Undoing ==
  ASSUME RootInv, step = "undo"
  PROVE  /\ \A d \in {Restore(dir), GiveBackHtml(Restore(dir)), Restored(dir)} :
              d \in Dirs /\ d["snapshots"] = dir["snapshots"] /\ \A x \in DirNames : Dated(d[x])
         /\ undone => Good(Restored(dir)["root"])
<1> DEFINE d1 == Restore(dir)
           d2 == GiveBackHtml(d1)
           d3 == GiveBackState(d2)
<1>0. /\ Whole(dir["tmp"]) /\ tick > 0 /\ dir \in Dirs
      /\ Moved("state") \/ (Moved("html") /\ ~Render) => Home # Absent
  BY DirFacts DEF RootInv, NewRootOK, BatchesOK, Replacing
<1>1. /\ d1 \in Dirs /\ d1["root"] = Home /\ d1["tmp"] = dir["tmp"] /\ d1["snapshots"] = dir["snapshots"]
      /\ Dated(d1["root"]) /\ Dated(d1["tmp"]) /\ Dated(d1["backup"]) /\ Dated(d1["snapshots"])
  <2>1. CASE d1 = dir
    BY <2>1, DirFacts DEF Home
  <2>2. CASE d1 # dir
    <3>1. d1 = [dir EXCEPT !["root"] = dir["backup"], !["backup"] = Absent]
      BY <2>2 DEF Restore
    <3>2. /\ d1 \in Dirs /\ d1["root"] = dir["backup"] /\ d1["backup"] = Absent
          /\ d1["tmp"] = dir["tmp"] /\ d1["snapshots"] = dir["snapshots"]
      BY <3>1, DirFacts DEF Dirs, DirNames, Directory
    <3> QED
      BY <3>2, DirFacts DEF Home, Dated
  <2> QED
    BY <2>1, <2>2
<1> HIDE DEF d1
<1>2. dir["tmp"] # Absent
  BY <1>0 DEF Whole
<1>3. /\ d2 \in Dirs /\ d2["backup"] = d1["backup"] /\ d2["snapshots"] = dir["snapshots"]
      /\ d2["tmp"] # Absent /\ d2["tmp"].result = dir["tmp"].result /\ d2["tmp"].state = dir["tmp"].state
      /\ Home = Absent => d2["root"] = Absent
      /\ Home # Absent => /\ d2["root"] # Absent /\ d2["root"].result = Home.result
                          /\ d2["root"].html = LastHtml /\ d2["root"].state = Home.state
  <2>1. CASE Moved("html") /\ ~Render
    <3>1. d2 = HtmlMoved(d1, "tmp", "root")
      BY <2>1 DEF GiveBackHtml, MoveBack, HtmlMoved
    <3>2. /\ d1 \in Dirs /\ "tmp" \in DirNames /\ "root" \in DirNames /\ "tmp" # "root"
          /\ d1["tmp"] # Absent /\ d1["root"] # Absent
      BY <1>0, <1>1, <1>2, <2>1 DEF DirNames
    <3> DEFINE e == HtmlMoved(d1, "tmp", "root")
    <3>3. /\ e \in Dirs /\ \A x \in DirNames : x \notin {"root", "tmp"} => e[x] = d1[x]
          /\ e["root"] # Absent /\ e["root"].result = d1["root"].result
          /\ e["root"].state = d1["root"].state /\ e["root"].html = d1["tmp"].html
          /\ e["tmp"] # Absent /\ e["tmp"].result = d1["tmp"].result
          /\ e["tmp"].state = d1["tmp"].state
      BY <3>2, MoveHtml
    <3> HIDE DEF e, d2
    <3>4. d2 = e
      BY <3>1 DEF e
    <3> QED
      BY <1>0, <1>1, <2>1, <3>3, <3>4 DEF LastHtml, DirNames
  <2>2. CASE ~(Moved("html") /\ ~Render)
    <3>1. d2 = d1
      BY <2>2 DEF GiveBackHtml
    <3> QED
      BY <1>1, <1>2, <2>2, <3>1 DEF LastHtml
  <2> QED
    BY <2>1, <2>2
<1> HIDE DEF d2
<1>4. \A x \in DirNames : Dated(d2[x])
  <2>1. Dated(d2["tmp"])
    BY <1>1, <1>2, <1>3 DEF Dated
  <2>2. Dated(d2["root"])
    BY <1>1, <1>3 DEF Dated
  <2>3. Dated(d2["backup"]) /\ Dated(d2["snapshots"])
    BY <1>1, <1>3
  <2> QED
    BY <2>1, <2>2, <2>3 DEF DirNames
<1>5. /\ d3 \in Dirs /\ d3["backup"] = d1["backup"] /\ d3["snapshots"] = dir["snapshots"]
      /\ d3["tmp"] # Absent /\ d3["tmp"].result = dir["tmp"].result
      /\ Home = Absent => d3["root"] = Absent
      /\ Home # Absent => /\ d3["root"] # Absent /\ d3["root"].result = Home.result
                          /\ d3["root"].html = LastHtml
                          /\ Moved("state") \/ HasState(Home) => HasState(d3["root"])
  <2>1. CASE Moved("state")
    <3> DEFINE e == StateMoved(d2, "tmp", "root")
    <3>1. d3 = e
      BY <2>1 DEF GiveBackState, MoveBack, StateMoved
    <3>2. /\ d2 \in Dirs /\ "tmp" \in DirNames /\ "root" \in DirNames /\ "tmp" # "root"
          /\ d2["tmp"] # Absent /\ d2["root"] # Absent
      BY <1>0, <1>3, <2>1 DEF DirNames
    <3>3. /\ e \in Dirs /\ \A x \in DirNames : x \notin {"root", "tmp"} => e[x] = d2[x]
          /\ e["root"] # Absent /\ e["root"].result = d2["root"].result
          /\ e["root"].html = d2["root"].html /\ e["root"].state = d2["tmp"].state
          /\ e["tmp"] # Absent /\ e["tmp"].result = d2["tmp"].result
      BY <3>2, MoveState
    <3> HIDE DEF e, d3
    <3> QED
      BY <1>0, <1>3, <2>1, <3>1, <3>3 DEF DirNames, HasState, Moved
  <2>2. CASE ~Moved("state")
    <3>1. d3 = d2
      BY <2>2 DEF GiveBackState
    <3> QED
      BY <1>3, <2>2, <3>1 DEF HasState
  <2> QED
    BY <2>1, <2>2
<1> HIDE DEF d3
<1>6. \A x \in DirNames : Dated(d3[x])
  <2>1. Dated(d3["root"]) /\ Dated(d3["tmp"]) /\ Dated(d3["backup"]) /\ Dated(d3["snapshots"])
    BY <1>1, <1>2, <1>5 DEF Dated
  <2> QED
    BY <2>1 DEF DirNames
<1>7. undone => Good(d3["root"])
  <2>1. undone => /\ Home # Absent /\ Acceptable(Home.result, LastHtml)
                  /\ HasState(old["root"]) => Moved("state") \/ HasState(Home)
    BY <1>0 DEF RootInv, OldRootOK
  <2> QED
    BY <1>5, <2>1 DEF Good
<1>8. Restored(dir) = d3
  BY DEF Restored, d3, d2, d1
<1>9. \A x \in DirNames : Dated(d1[x])
  BY <1>1 DEF DirNames
<1> QED
  BY <1>1, <1>3, <1>4, <1>5, <1>6, <1>7, <1>8, <1>9 DEF d1, d2

LEMMA UndoInv ==
  ASSUME RootInv, Undo
  PROVE  RootInv'
<1>1. /\ step = "undo" /\ step \in Attempting /\ AttemptFails(Restored(dir))
      /\ UNCHANGED <<inputs, tick, export, old, batches, merged>> /\ undone' = undone
      /\ faults' \in 0..MaxFaults /\ undone \in BOOLEAN
  BY DEF Undo, rest, Attempting, RootInv, TypeOK
<1>2. /\ Restored(dir) \in Dirs /\ Restored(dir)["snapshots"] = dir["snapshots"]
      /\ \A x \in DirNames : Dated(Restored(dir)[x])
      /\ undone => Good(Restored(dir)["root"])
  BY <1>1, Undoing
<1> QED
  BY <1>1, <1>2, AttemptEnds

LEMMA FailUndoInv ==
  ASSUME RootInv, FailUndo
  PROVE  RootInv'
<1>1. PICK d \in {dir, Restore(dir), GiveBackHtml(Restore(dir))} : AttemptFails(d)
  BY DEF FailUndo
<1>2. /\ step = "undo" /\ step \in Attempting /\ undone' = FALSE
      /\ UNCHANGED <<inputs, tick, export, old, batches, merged>>
  BY DEF FailUndo, Attempting
<1>3. faults' \in 0..MaxFaults
  BY CoverageRootAssumption DEF FailUndo, RootInv, TypeOK
<1>4. d \in Dirs /\ d["snapshots"] = dir["snapshots"] /\ \A x \in DirNames : Dated(d[x])
  BY <1>2, Undoing, DirFacts
<1> QED
  BY <1>1, <1>2, <1>3, <1>4, AttemptEnds

-----------------------------------------------------------------------------
(* The theorems.                                                            *)

LEMMA StutterInv ==
  ASSUME RootInv, UNCHANGED vars
  PROVE  RootInv'
<1> USE DEF RootInv, vars, inputs
<1>1. TypeOK' /\ BatchesOK' /\ SetsDated'
  BY DEF TypeOK, BatchesOK, SetsDated
<1>2. TrialOK'
  BY DEF TrialOK, State, StateHome
<1>3. NewRootOK'
  BY DEF NewRootOK, Whole, Held, Home, Restore, Moved, Render, HasState
<1>4. OldRootOK'
  BY DEF OldRootOK, Acceptable, LastHtml, Home, Restore, Moved, Render, HasState, State, StateHome
<1> QED
  BY <1>1, <1>2, <1>3, <1>4

LEMMA NextInv ==
  ASSUME RootInv, [Next]_vars
  PROVE  RootInv'
<1>1. CASE Begin
  BY <1>1, BeginInv
<1>2. CASE BatchesDone
  BY <1>2, BatchesDoneInv
<1>3. CASE \E b \in DOMAIN batches : RunBatch(b) \/ FailBatch(b)
  BY <1>3, RunBatchInv, FailBatchInv
<1>4. CASE StartAttempt
  BY <1>4, StartAttemptInv
<1>5. CASE Work
  BY <1>5, WorkInv
<1>6. CASE Save
  BY <1>6, SaveInv
<1>7. CASE CarryState
  BY <1>7, CarryStateInv
<1>8. CASE CarryHtml
  BY <1>8, CarryHtmlInv
<1>9. CASE SkipHtml
  BY <1>9, SkipHtmlInv
<1>10. CASE Retire
  BY <1>10, RetireInv
<1>11. CASE Publish
  BY <1>11, PublishInv
<1>12. CASE Commit
  BY <1>12, CommitInv
<1>13. CASE FailAttempt
  BY <1>13, FailAttemptInv
<1>14. CASE FailReplacement
  BY <1>14, FailReplacementInv
<1>15. CASE Undo
  BY <1>15, UndoInv
<1>16. CASE FailUndo
  BY <1>16, FailUndoInv
<1>17. CASE UNCHANGED vars
  BY <1>17, StutterInv
<1> QED
  BY <1>1, <1>2, <1>3, <1>4, <1>5, <1>6, <1>7, <1>8, <1>9, <1>10, <1>11, <1>12, <1>13, <1>14,
     <1>15, <1>16, <1>17 DEF Next

\* The inductive invariant: through every order of batches, retries, failed renames and
\* failed undoing, the state directory, the last report and the candidate profile lie
\* where the next step of merge_coverage_outputs expects them.
THEOREM RootInvHolds == Spec => []RootInv
<1>1. RootInv /\ [Next]_vars => RootInv'
  BY NextInv
<1> QED
  BY <1>1, InitInv, PTL DEF Spec

\* The variables keep their types, and neither a batch nor the merge is tried more
\* often than COVERAGE_PIPELINE_ATTEMPTS allows.
THEOREM TypesHold == Spec => []TypeOK
<1>1. RootInv => TypeOK
  BY DEF RootInv
<1> QED
  BY <1>1, RootInvHolds, PTL

LEMMA RootInvOldOrNew == RootInv => OldOrNew
<1> SUFFICES ASSUME RootInv, Over, undone
             PROVE  OldOrNew
  BY DEF OldOrNew
<1> DEFINE root == dir["root"]  was == old["root"]
<1>1. /\ root # Absent /\ Acceptable(root.result, root.html)
      /\ HasState(was) => HasState(root)
      /\ outcome = "done" => /\ root.result # Absent /\ root.result.tick = tick
                             /\ root.result.covered = Covered(State.profile)
  BY DEF RootInv, OldRootOK, Over
<1>2. root.result # Absent /\ root.result.sets # Absent => root.result.source = root.result.sets
  BY <1>1, DirFacts DEF Dated
<1> QED
  BY <1>1, <1>2 DEF OldOrNew, Acceptable

\* The output root is always the old one or a complete new one (_replace_out_root,
\* _promote_dir): whatever steps fail, as long as what failed could be undone.
THEOREM RootIsOldOrNew == Spec => []OldOrNew
  BY RootInvHolds, RootInvOldOrNew, PTL

LEMMA RootInvCumulative == RootInv => CumulativeProfile
<1> SUFFICES ASSUME RootInv, kind = "trial", tick > 0
             PROVE  CumulativeProfile
  BY DEF CumulativeProfile
<1> DEFINE now == State.profile  was == old["snapshots"].state.profile
<1>1. /\ was \in [All -> {0, 1}]
      /\ now = IF step = "idle" /\ outcome = "done" THEN NextProfile ELSE was
  BY DEF RootInv, TrialOK, NextProfile
<1>2. NextProfile \in [All -> {0, 1}] /\ \A i \in All : was[i] <= NextProfile[i]
  BY TrialMerge
<1>3. \A i \in All : was[i] <= now[i] /\ now[i] <= 1
  BY <1>1, <1>2
<1> HIDE DEF now, was
<1>4. Over => now = IF outcome = "done" THEN NextProfile ELSE was
  BY <1>1 DEF Over
<1> QED
  BY <1>3, <1>4 DEF CumulativeProfile, NextProfile, now, was

\* However often its merge is retried, the profile of a trial counts no input twice,
\* loses none, and is untouched by a measurement that fails (merge_coverage_outputs).
THEOREM ProfileIsCumulative == Spec => []CumulativeProfile
  BY RootInvHolds, RootInvCumulative, PTL

\* The part of DiagnosticsHonest that is about one batch.
Honest(c) ==
  c.state = "done" =>
    \A i \in c.files :
      /\ c.status[i] = "ok" => c.profile[i] = 1
      /\ c.status[i] = "missing_profraw" => c.profile[i] = 0
BatchesHonest == \A b \in DOMAIN batches : Honest(batches[b])

LEMMA RunBatchHonest ==
  ASSUME RootInv, BatchesHonest, NEW b \in DOMAIN batches, RunBatch(b)
  PROVE  BatchesHonest'
<1>1. PICK results \in Results(batches[b].files), c \in Batch :
           /\ batches' = [batches EXCEPT ![b] = c]
           /\ c.files = batches[b].files /\ c.state = "done" /\ c.status = Diagnosed(results)
           /\ c.profile = IF {i \in DOMAIN results : results[i][2]} = {} THEN NoProfile
                          ELSE ProfileOf({i \in DOMAIN results : results[i][2]})
  BY RunBatchEffect
<1>2. DOMAIN results = c.files /\ c.files \subseteq All
      /\ \A i \in c.files : results[i] \in {"zero", "error", "none"} \X BOOLEAN
  <2>1. c.files \in SUBSET Inputs
    BY DEF Batch
  <2> QED
    BY <1>1, <2>1, ResultsType, CorporaFacts
<1>3. ASSUME NEW i \in c.files
      PROVE  /\ c.status[i] = "ok" => c.profile[i] = 1
             /\ c.status[i] = "missing_profraw" => c.profile[i] = 0
  <2>1. c.status[i] = Status(results[i])
    BY <1>1, <1>2 DEF Diagnosed
  <2>2. PICK code \in {"zero", "error", "none"}, raw \in BOOLEAN : results[i] = <<code, raw>>
    BY <1>2
  <2>3. CASE raw
    <3>1. c.profile[i] = 1
      <4>0. results[i][2] /\ i \in DOMAIN results /\ i \in All
        BY <1>2, <2>2, <2>3
      <4>1. i \in {j \in DOMAIN results : results[j][2]} /\ i \in All
        BY <4>0, Zenon
      <4>2. c.profile = ProfileOf({j \in DOMAIN results : results[j][2]})
        BY <1>1, <4>1
      <4> QED
        BY <4>1, <4>2 DEF ProfileOf
    <3>2. Status(results[i]) # "missing_profraw"
      BY <2>2, <2>3 DEF Status
    <3> QED
      BY <2>1, <3>1, <3>2
  <2>4. CASE ~raw
    <3>1. c.profile[i] = 0
      BY <1>1, <1>2, <2>2, <2>4 DEF ProfileOf, NoProfile
    <3>2. Status(results[i]) # "ok"
      BY <2>2, <2>4 DEF Status
    <3> QED
      BY <2>1, <3>1, <3>2
  <2> QED
    BY <2>3, <2>4
<1>4. Honest(c)
  BY <1>3 DEF Honest
<1>5. DOMAIN batches' = DOMAIN batches
      /\ \A x \in DOMAIN batches : batches'[x] = IF x = b THEN c ELSE batches[x]
  BY <1>1 DEF RootInv, TypeOK
<1> QED
  BY <1>4, <1>5 DEF BatchesHonest

LEMMA NextHonest ==
  ASSUME RootInv, BatchesHonest, [Next]_vars
  PROVE  BatchesHonest'
<1>1. CASE Begin
  <2>1. batches' = <<>> \/ batches' = Planned(Corpora[tick + 1])
    BY <1>1 DEF Begin
  <2>2. tick + 1 \in 1..Len(Corpora)
    BY <1>1, CoverageRootAssumption DEF Begin, RootInv, TypeOK
  <2>3. \A b \in DOMAIN batches' : batches'[b].state = "waiting"
    <3>1. CASE batches' = <<>>
      BY <3>1
    <3>2. CASE batches' = Planned(Corpora[tick + 1])
      <4>1. \A b \in DOMAIN Planned(Corpora[tick + 1]) : Planned(Corpora[tick + 1])[b].state = "waiting"
        BY <2>2, PlannedBatches
      <4> QED
        BY <3>2, <4>1
    <3> QED
      BY <2>1, <3>1, <3>2
  <2> QED
    BY <2>3 DEF BatchesHonest, Honest
<1>2. CASE \E b \in DOMAIN batches : RunBatch(b)
  BY <1>2, RunBatchHonest
<1>3. CASE \E b \in DOMAIN batches : FailBatch(b)
  <2>1. PICK b \in DOMAIN batches : FailBatch(b)
    BY <1>3
  <2>2. PICK p : batches' = [batches EXCEPT ![b].tries = @ + 1, ![b].profile = p,
               ![b].state = IF batches[b].tries + 1 = Attempts THEN "failed" ELSE "waiting"]
    BY <2>1 DEF FailBatch
  <2>3. batches \in Seq(Batch) /\ batches[b] \in Batch
    BY DEF RootInv, TypeOK
  <2>4. batches'[b].state # "done"
    BY <2>2, <2>3 DEF Batch
  <2>5. DOMAIN batches' = DOMAIN batches /\ \A x \in DOMAIN batches : x # b => batches'[x] = batches[x]
    BY <2>2, <2>3
  <2> QED
    BY <2>4, <2>5 DEF BatchesHonest, Honest
<1>4. CASE UNCHANGED batches
  BY <1>4 DEF BatchesHonest
<1>5. Begin \/ (\E b \in DOMAIN batches : RunBatch(b)) \/ (\E b \in DOMAIN batches : FailBatch(b))
      \/ UNCHANGED batches
  <2>1. CASE BatchesDone \/ StartAttempt \/ Work \/ Save
    BY <2>1 DEF BatchesDone, StartAttempt, Work, Save
  <2>2. CASE CarryState \/ CarryHtml \/ SkipHtml \/ Retire \/ Publish \/ Commit
    BY <2>2 DEF CarryState, CarryHtml, Carry, SkipHtml, Retire, Publish, Commit
  <2>3. CASE FailAttempt \/ FailReplacement \/ Undo \/ FailUndo
    BY <2>3 DEF FailAttempt, FailReplacement, Undo, FailUndo
  <2>4. CASE UNCHANGED vars
    BY <2>4 DEF vars
  <2> QED
    BY <2>1, <2>2, <2>3, <2>4 DEF Next
<1> QED
  BY <1>1, <1>2, <1>3, <1>4, <1>5

LEMMA HonestCount == RootInv /\ BatchesHonest => DiagnosticsHonest
<1> SUFFICES ASSUME RootInv, BatchesHonest
             PROVE  DiagnosticsHonest
  OBVIOUS
<1> DEFINE lacking == UNION {{b} \X {i \in batches[b].files : batches[b].profile[i] = 0} :
                               b \in DOMAIN batches}
           lost == UNION {{b} \X Lost(b) : b \in DOMAIN batches}
<1>1. batches \in Seq(Batch) /\ IsFiniteSet(Inputs)
  BY CoverageRootAssumption DEF RootInv, TypeOK
<1>2. \A b \in DOMAIN batches : b \in 1..Len(batches) /\ batches[b].files \subseteq Inputs
  <2>1. \A b \in DOMAIN batches : b \in 1..Len(batches) /\ batches[b] \in Batch
    BY <1>1
  <2> QED
    BY <2>1 DEF Batch
<1>3. IsFiniteSet(lost)
  <2>1. IsFiniteSet(1..Len(batches))
    <3>1. Len(batches) \in Nat
      BY <1>1
    <3> QED
      BY <3>1, FS_Interval
  <2>2. IsFiniteSet((1..Len(batches)) \X Inputs)
    BY <1>1, <2>1, FS_Product
  <2>3. lost \subseteq (1..Len(batches)) \X Inputs
    <3> SUFFICES ASSUME NEW b \in DOMAIN batches, NEW i \in Lost(b)
                 PROVE  <<b, i>> \in (1..Len(batches)) \X Inputs
      OBVIOUS
    <3>1. i \in batches[b].files
      BY DEF Lost, Problematic
    <3> QED
      BY <1>2, <3>1
  <2> QED
    BY <2>2, <2>3, FS_Subset
<1>4. ASSUME \A b \in DOMAIN batches : batches[b].state = "done"
      PROVE  Cardinality(lacking) <= LostProfiles
  <2>1. lacking \subseteq lost
    <3> SUFFICES ASSUME NEW b \in DOMAIN batches, NEW i \in batches[b].files,
                        batches[b].profile[i] = 0
                 PROVE  <<b, i>> \in {b} \X Lost(b)
      OBVIOUS
    <3>1. batches[b].status[i] # "ok"
      BY <1>4 DEF BatchesHonest, Honest
    <3> QED
      BY <3>1 DEF Lost, Problematic
  <2> QED
    BY <1>3, <2>1, FS_Subset DEF LostProfiles
<1>5. \A b \in DOMAIN batches : batches[b].state = "done" =>
        \A i \in batches[b].files :
          /\ batches[b].status[i] = "ok" => batches[b].profile[i] = 1
          /\ batches[b].status[i] = "missing_profraw" => batches[b].profile[i] = 0
  BY DEF BatchesHonest, Honest
<1> QED
  BY <1>4, <1>5 DEF DiagnosticsHonest

\* The diagnostics of a measurement tell which inputs its profile lacks, batch by batch
\* and in total (coverage_worker.py, coverage_measurement_context).
THEOREM DiagnosticsAreHonest == Spec => []DiagnosticsHonest
<1>1. Init => BatchesHonest
  BY DEF Init, BatchesHonest
<1>2. RootInv /\ BatchesHonest /\ [Next]_vars => BatchesHonest'
  BY NextHonest
<1> QED
  BY <1>1, <1>2, RootInvHolds, HonestCount, PTL DEF Spec
=============================================================================
