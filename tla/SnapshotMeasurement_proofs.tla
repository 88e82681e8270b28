---------------------- MODULE SnapshotMeasurement_proofs ----------------------
(***************************************************************************)
(* Proofs about SnapshotMeasurement, for any trials, files, windows, ticks *)
(* and number of faults: the snapshot rows implement SnapshotLedger, and   *)
(* coverage is stored only when every merge of its tick has succeeded.     *)
(***************************************************************************)
EXTENDS SnapshotMeasurement, FiniteSetTheorems, WellFoundedInduction, TLAPS

\* What is known of file times and start times from the first state on.
TimesOK == writes \in [Files -> SUBSET (1..LastTime)] /\ root \in [Trials -> Nat]

LEMMA TimesFromTypes == TypeOK /\ FrameOK => TimesOK
  BY DEF TypeOK, FrameOK, TimesOK

\* The maximum of a bounded set of integers is one of its elements.
LEMMA MaxOfBounded ==
  ASSUME NEW S \in SUBSET Int, S # {}, NEW b \in Int, \A x \in S : x <= b
  PROVE  Max(S) \in S /\ \A x \in S : x <= Max(S)
<1> DEFINE T == {b - x : x \in S}
<1>1. T \subseteq Nat
  <2>1. \A x \in S : b - x \in Nat
    OBVIOUS
  <2> QED
    BY <2>1
<1>2. PICK n \in T : \A m \in T : n <= m
  <2>1. T # {}
    OBVIOUS
  <2> HIDE DEF T
  <2>2. PICK n \in T : \A m \in T : ~ (<<m, n>> \in OpToRel(<, Nat))
    BY <1>1, <2>1, WFMin, NatLessThanWellFounded, Zenon
  <2>3. \A m \in T : ~ (m < n)
    BY <1>1, <2>2 DEF OpToRel
  <2> QED
    BY <1>1, <2>3
<1>3. PICK x \in S : n = b - x
  BY <1>2
<1>4. \A y \in S : x >= y
  <2> TAKE y \in S
  <2>1. b - y \in T
    OBVIOUS
  <2>2. b - x <= b - y
    BY <2>1, <1>2, <1>3
  <2> QED
    BY <2>2
<1>5. Max(S) \in S /\ \A y \in S : Max(S) >= y
  BY <1>4 DEF Max
<1> QED
  BY <1>5

\* Seconds in clock units keep their order.
LEMMA ScaledOrder ==
  ASSUME NEW a \in Int, NEW b \in Int
  PROVE  /\ a * Ns \in Int /\ b * Ns \in Int
         /\ a <= b => a * Ns <= b * Ns
         /\ a * Ns < b * Ns => a < b
  BY MeasurementAssumption

\* Whole seconds of a clock value.
LEMMA FloorType ==
  ASSUME NEW x \in Nat
  PROVE  Floor(x) \in Nat
  BY MeasurementAssumption DEF Floor

\* A later write of a file is not dated before an earlier one.
LEMMA LogicalOrder ==
  ASSUME TimesOK, NEW f \in Files, NEW x \in Nat, NEW y \in Nat
  PROVE  /\ LogicalTime(f, x) \in Nat
         /\ x <= y => LogicalTime(f, x) <= LogicalTime(f, y)
         /\ mode # "replay" => LogicalTime(f, x) = x
<1>1. root[Owner[f]] \in Nat
  BY MeasurementAssumption DEF TimesOK
<1>2. \A z \in Nat : LET m == Max({z, root[Owner[f]]})
                     IN m \in {z, root[Owner[f]]} /\ z <= m /\ root[Owner[f]] <= m
  <2> TAKE z \in Nat
  <2>1. \A u \in {z, root[Owner[f]]} : u <= z + root[Owner[f]]
    BY <1>1
  <2> QED
    <3>1. {z, root[Owner[f]]} \in SUBSET Int /\ {z, root[Owner[f]]} # {} /\ z + root[Owner[f]] \in Int
      BY <1>1
    <3> QED
      BY <3>1, <2>1, MaxOfBounded
<1> QED
  BY <1>1, <1>2 DEF LogicalTime

\* The modification time of a written file is its latest.
LEMMA MtimeLatest ==
  ASSUME TimesOK, NEW f \in Written
  PROVE  f \in Files /\ Mtime(f) \in writes[f] /\ Mtime(f) \in Nat /\ \A x \in writes[f] : x \in Nat /\ x <= Mtime(f)
<1>1. f \in Files /\ writes[f] \subseteq 1..LastTime /\ writes[f] # {}
  BY DEF TimesOK, Written
<1>2. writes[f] \in SUBSET Int /\ LastTime \in Int /\ \A x \in writes[f] : x <= LastTime
  BY <1>1, MeasurementAssumption
<1>3. Max(writes[f]) \in writes[f] /\ \A x \in writes[f] : x <= Max(writes[f])
  BY <1>1, <1>2, MaxOfBounded
<1> QED
  BY <1>1, <1>3 DEF Mtime

\* The start second of a trial.
LEMMA StartType ==
  ASSUME TimesOK, NEW t \in Trials
  PROVE  StartTs(t) \in Nat
  BY FloorType, MeasurementAssumption DEF TimesOK, StartTs

\* The latest row of a trial has the largest index and the latest second.
LEMMA LatestIsLast ==
  ASSUME TypeOK, FrameOK, RowsFollowTicks, NEW t \in Trials
  PROVE  /\ DOMAIN rows[t] # {} => /\ LatestRow(t) \in DOMAIN rows[t]
                                   /\ \A i \in DOMAIN rows[t] : i <= LatestRow(t)
                                   /\ Horizon(t) = schedule[LatestRow(t)]
         /\ DOMAIN rows[t] = {} => LatestRow(t) = 0 /\ Horizon(t) = StartTs(t) - 1
         /\ LatestRow(t) \in {0} \cup DOMAIN schedule /\ Horizon(t) \in Int
         /\ \A i \in DOMAIN rows[t] : schedule[i] <= Horizon(t)
<1>1. DOMAIN schedule = 1..Len(schedule) /\ Len(schedule) \in Nat
      /\ \A i \in DOMAIN schedule : schedule[i] \in Int
  BY DEF FrameOK
<1>2. DOMAIN rows[t] \subseteq 1..Len(schedule)
  BY <1>1 DEF TypeOK
<1>3. CASE DOMAIN rows[t] = {}
  BY <1>3, StartType, TimesFromTypes DEF LatestRow, Horizon
<1>4. CASE DOMAIN rows[t] # {}
  <2>1. DOMAIN rows[t] \in SUBSET Int /\ Len(schedule) \in Int /\ \A i \in DOMAIN rows[t] : i <= Len(schedule)
    BY <1>1, <1>2
  <2>2. LatestRow(t) \in DOMAIN rows[t] /\ \A i \in DOMAIN rows[t] : i <= LatestRow(t)
    BY <1>4, <2>1, MaxOfBounded DEF LatestRow
  <2>3. LatestRow(t) # 0 /\ LatestRow(t) \in DOMAIN schedule
    BY <2>2, <1>1, <1>2
  <2>4. Horizon(t) = schedule[LatestRow(t)]
    BY <2>2, <2>3 DEF Horizon, RowsFollowTicks
  <2>5. \A i \in DOMAIN rows[t] : schedule[i] <= Horizon(t)
    <3> TAKE i \in DOMAIN rows[t]
    <3>1. CASE i = LatestRow(t)
      BY <3>1, <2>3, <2>4, <1>1
    <3>2. CASE i # LatestRow(t)
      <4>1. i \in DOMAIN schedule /\ i < LatestRow(t)
        BY <3>2, <2>2, <1>1, <1>2
      <4>2. schedule[i] < schedule[LatestRow(t)]
        BY <4>1, <2>3 DEF RowsFollowTicks
      <4> QED
        BY <4>1, <4>2, <2>3, <2>4, <1>1
    <3> QED
      BY <3>1, <3>2
  <2> QED
    BY <1>4, <2>2, <2>3, <2>4, <2>5, <1>1
<1> QED
  BY <1>3, <1>4

-----------------------------------------------------------------------------
(* The initial states.                                                       *)

\* The larger of two numbers.
LEMMA MaxOfTwo ==
  ASSUME NEW x \in Nat, NEW y \in Nat
  PROVE  LET m == Max({x, y}) IN m \in Nat /\ x <= m /\ y <= m
<1>1. {x, y} \in SUBSET Int /\ {x, y} # {} /\ x + y \in Int /\ \A z \in {x, y} : z <= x + y
  OBVIOUS
<1>2. Max({x, y}) \in {x, y} /\ \A z \in {x, y} : z <= Max({x, y})
  BY <1>1, MaxOfBounded
<1> QED
  BY <1>2

\* The end of a replayed trial is a second.
LEMMA EndType ==
  ASSUME TimesOK, NEW t \in Trials, mode = "replay"
  PROVE  EndTs(t) \in Nat
<1> DEFINE S == {root[t]} \cup {FileTime(f) : f \in {g \in Written : Owner[g] = t}}
           b == Max({root[t], LastTime})
<1>1. root[t] \in Nat /\ LastTime \in Nat
  BY MeasurementAssumption DEF TimesOK
<1>2. b \in Nat /\ root[t] <= b /\ LastTime <= b
  BY <1>1, MaxOfTwo
<1>3. \A f \in {g \in Written : Owner[g] = t} : FileTime(f) \in Nat /\ FileTime(f) <= b
  <2> SUFFICES ASSUME NEW f \in Written, Owner[f] = t
               PROVE  FileTime(f) \in Nat /\ FileTime(f) <= b
    OBVIOUS
  <2>1. Mtime(f) \in Nat /\ Mtime(f) <= LastTime
    BY MtimeLatest, MeasurementAssumption DEF TimesOK
  <2>2. FileTime(f) = Max({Mtime(f), root[t]})
    BY DEF FileTime, LogicalTime
  <2>3. {Mtime(f), root[t]} \in SUBSET Int /\ {Mtime(f), root[t]} # {} /\ b \in Int
        /\ \A z \in {Mtime(f), root[t]} : z <= b
    BY <1>1, <1>2, <2>1
  <2>4. FileTime(f) \in {Mtime(f), root[t]}
    BY <2>2, <2>3, MaxOfBounded
  <2> QED
    BY <2>3, <2>4, <1>1, <2>1
<1>4. S \in SUBSET Int /\ S # {} /\ b \in Int /\ \A x \in S : x <= b
  BY <1>1, <1>2, <1>3
<1>5. Max(S) \in S
  <2> HIDE DEF S, b
  <2> QED
    BY <1>4, MaxOfBounded
<1>6. Max(S) \in Nat
  BY <1>1, <1>3, <1>5
<1> QED
  BY <1>6, FloorType DEF EndTs

\* The ticks of a replayed trial are finitely many seconds.
LEMMA TicksType ==
  ASSUME TimesOK, NEW t \in Trials, mode = "replay"
  PROVE  TicksOf(t) \in SUBSET Nat /\ IsFiniteSet(TicksOf(t))
<1> DEFINE m == Max({EndTs(t), StartTs(t)})
<1>1. EndTs(t) \in Nat /\ StartTs(t) \in Nat
  BY EndType, StartType
<1>2. m \in Nat /\ EndTs(t) <= m
  BY <1>1, MaxOfTwo
<1>3. \A s \in TicksOf(t) : s \in Nat /\ s <= m
  <2> TAKE s \in TicksOf(t)
  <2>1. CASE s = m
    BY <2>1, <1>2
  <2>2. CASE s # m
    <3>1. PICK k \in 1..LastTime : s = StartTs(t) + k * Every /\ StartTs(t) + k * Every < EndTs(t)
      BY <2>2 DEF TicksOf
    <3>2. k * Every \in Nat
      BY <3>1, MeasurementAssumption
    <3> QED
      BY <3>1, <3>2, <1>1, <1>2
  <2> QED
    BY <2>1, <2>2
<1> HIDE DEF m
<1>4. TicksOf(t) \in SUBSET Nat /\ \A s \in TicksOf(t) : s <= m
  BY <1>3
<1> QED
  BY <1>2, <1>4, FS_BoundedSetOfNaturals

LEMMA SeqDef ==
  ASSUME NEW T, NEW n \in Nat, NEW s \in [1..n -> T]
  PROVE  s \in Seq(T)
  OBVIOUS

LEMMA SortedIsSeq ==
  ASSUME NEW n \in Nat, NEW S \in SUBSET Nat, NEW s \in [1..n -> S],
         \A i, j \in 1..n : i < j => s[i] < s[j]
  PROVE  s \in Seq(Int) /\ \A i, j \in DOMAIN s : i < j => s[i] < s[j]
<1>1. s \in [1..n -> Int] /\ DOMAIN s = 1..n
  <2>1. DOMAIN s = 1..n /\ s = [i \in 1..n |-> s[i]]
    OBVIOUS
  <2>2. \A i \in 1..n : s[i] \in Int
    <3>1. \A i \in 1..n : s[i] \in S
      OBVIOUS
    <3>2. \A x \in S : x \in Int
      OBVIOUS
    <3> QED
      BY <3>1, <3>2
  <2> QED
    BY <2>1, <2>2
<1>2. s \in Seq(Int)
  BY <1>1, SeqDef
<1> QED
  BY <1>1, <1>2

\* The timestamps of a replay are a sorted sequence of seconds.
LEMMA ReplayScheduleType ==
  ASSUME TimesOK, mode = "replay", NEW s \in ReplaySchedules
  PROVE  s \in Seq(Int) /\ \A i, j \in DOMAIN s : i < j => s[i] < s[j]
<1> DEFINE U == {TicksOf(t) : t \in Trials}
           f == [t \in Trials |-> TicksOf(t)]
<1>1. IsFiniteSet(U)
  <2>1. f \in Surjection(Trials, U)
    BY DEF Surjection
  <2> HIDE DEF U, f
  <2> QED
    BY <2>1, MeasurementAssumption, FS_Surjection
<1>2. \A T \in U : IsFiniteSet(T) /\ T \subseteq Nat
  BY TicksType
<1>3. IsFiniteSet(UNION U) /\ UNION U \subseteq Nat
  BY <1>1, <1>2, FS_UNION
<1>4. Cardinality(UNION U) \in Nat
  BY <1>3, FS_CardinalityType
<1>5. s \in [1..Cardinality(UNION U) -> UNION U]
      /\ \A i, j \in 1..Cardinality(UNION U) : i < j => s[i] < s[j]
  BY DEF ReplaySchedules, Sorted
<1> QED
  BY <1>3, <1>4, <1>5, SortedIsSeq

LEMMA InitInv == Init => LedgerInv
<1> SUFFICES ASSUME Init PROVE LedgerInv
  OBVIOUS
<1>1. TimesOK
  <2>1. CASE mode = "replay"
    <3>1. \A x \in 1..LastTime : {x} \in SUBSET (1..LastTime)
      OBVIOUS
    <3>2. \A f \in Files : writes[f] \in SUBSET (1..LastTime)
      BY <2>1, <3>1 DEF Init, InitReplay
    <3>3. writes = [f \in Files |-> writes[f]] /\ root \in [Trials -> Nat]
      BY <2>1, MeasurementAssumption DEF Init, InitReplay
    <3> QED
      BY <3>2, <3>3 DEF TimesOK
  <2>2. CASE mode # "replay"
    BY <2>2 DEF Init, InitLive, TimesOK
  <2> QED
    BY <2>1, <2>2
<1>2. schedule \in Seq(Int) /\ \A i, j \in DOMAIN schedule : i < j => schedule[i] < schedule[j]
  <2>1. CASE mode = "replay"
    BY <1>1, <2>1, ReplayScheduleType DEF Init, InitReplay
  <2>2. CASE mode # "replay"
    BY <2>2, MeasurementAssumption DEF Init, InitLive
  <2> QED
    BY <2>1, <2>2
<1>3. TypeOK
  <2>1. clock \in 1..LastTime /\ faults \in 0..MaxFaults
    BY MeasurementAssumption DEF Init
  <2>2. status \in [DOMAIN schedule -> {"pending", "completed", "failed", "aborted"}]
    BY DEF Init
  <2>3. \A t \in Trials : DOMAIN rows[t] = {} /\ profile[t] = {}
    BY DEF Init, InitTables
  <2>4. DOMAIN agg = {}
    BY DEF Init, InitTables, NoTrial
  <2> QED
    BY <1>1, <2>1, <2>2, <2>3, <2>4 DEF Init, InitFrame, NoTrial, TimesOK, TypeOK, Phases
<1>4. FrameOK
  BY <1>1, <1>2 DEF Init, InitFrame, InitTables, NoTrial, TimesOK, FrameOK
<1>5. RowsFollowTicks
  <2>1. \A t \in Trials : DOMAIN rows[t] = {}
    BY DEF Init, InitTables
  <2> QED
    BY <1>2, <2>1 DEF Init, InitFrame, RowsFollowTicks
<1>6. WindowsAreStaged
  BY DEF Init, InitFrame, WindowsAreStaged
<1> QED
  BY <1>3, <1>4, <1>5, <1>6 DEF LedgerInv

-----------------------------------------------------------------------------
(* Types.                                                                    *)

\* The window of a trial holds versions of its files.
LEMMA WindowType ==
  ASSUME TimesOK, NEW t \in Trials
  PROVE  Window(t) \subseteq Versions(t)
<1>1. \A f \in Written : f \in Files /\ FileTime(f) \in Int
  BY MtimeLatest, LogicalOrder DEF FileTime
<1> QED
  BY <1>1 DEF Window, Versions

\* A fault less.
LEMMA FaultUsed ==
  ASSUME TypeOK, faults > 0
  PROVE  faults - 1 \in 0..MaxFaults
  BY MeasurementAssumption DEF TypeOK

LEMMA TypeNext == TypeOK /\ FrameOK /\ RowsFollowTicks /\ [Next]_vars => TypeOK' /\ FrameOK'
<1> SUFFICES ASSUME TypeOK, FrameOK, RowsFollowTicks, [Next]_vars
             PROVE  TypeOK' /\ FrameOK'
  OBVIOUS
<1> USE MeasurementAssumption DEF TypeOK, FrameOK, Phases, environment, frame, tables
<1>1. CASE Tock
  <2>1. clock' \in 1..LastTime
    BY <1>1 DEF Tock
  <2> QED
    BY <1>1, <2>1 DEF Tock
<1>2. CASE Stop
  BY <1>2 DEF Stop
<1>3. ASSUME NEW f \in Files, Write(f) PROVE TypeOK' /\ FrameOK'
  <2>1. writes' \in [Files -> SUBSET (1..LastTime)]
    BY <1>3 DEF Write
  <2>2. TypeOK'
    BY <1>3, <2>1 DEF Write
  <2>3. \A t : Versions(t)' = Versions(t)
    BY DEF Versions
  <2>4. FrameOK'
    BY <1>3, <2>3 DEF Write
  <2> QED
    BY <2>2, <2>4
<1>4. ASSUME NEW i \in DOMAIN schedule, NEW selected \in SUBSET Trials, Begin(i, selected) PROVE TypeOK' /\ FrameOK'
  <2>1. i \in DOMAIN schedule /\ i # 0
    BY <1>4
  <2>2. /\ cur' = i /\ phase' = "detect" /\ todo' = selected /\ broken' = FALSE
        /\ DOMAIN kept' = selected /\ DOMAIN found' = selected /\ DOMAIN before' = selected
        /\ \A t \in selected : kept'[t] = {} /\ found'[t] = {}
        /\ UNCHANGED <<environment, status, faults, tables>>
    BY <1>4 DEF Begin
  <2> QED
    BY <2>1, <2>2
<1>5. ASSUME NEW t \in Trials, Detect(t) PROVE TypeOK' /\ FrameOK'
  <2>1. Window(t) \subseteq Versions(t)
    BY <1>5, WindowType, TimesFromTypes
  <2> QED
    <3>1. /\ DOMAIN found' = DOMAIN found /\ DOMAIN before' = DOMAIN before /\ todo' \subseteq todo
          /\ UNCHANGED <<environment, status, faults, cur, phase, broken, kept, tables>>
      BY <1>5 DEF Detect
    <3>2. \A u \in DOMAIN found : found'[u] = IF u = t THEN Window(t) ELSE found[u]
      BY <1>5 DEF Detect
    <3>3. \A u \in DOMAIN found : found'[u] \subseteq Versions(u)
      BY <2>1, <3>2
    <3>4. FrameOK'
      BY <3>1, <3>3
    <3>5. TypeOK'
      BY <3>1
    <3> QED
      BY <3>4, <3>5
<1>6. ASSUME NEW t \in Trials, Save(t) PROVE TypeOK' /\ FrameOK'
  BY <1>6 DEF Save, IsNext, Put
<1>7. ASSUME NEW t \in Trials, JobFails(t) PROVE TypeOK' /\ FrameOK'
  <2>1. faults' \in 0..MaxFaults /\ broken' = TRUE /\ todo' \subseteq todo
        /\ UNCHANGED <<environment, status, cur, phase, before, found, kept, tables>>
    BY <1>7, FaultUsed DEF JobFails
  <2> QED
    BY <2>1
<1>8. ASSUME NEW t \in Trials, Merge(t) PROVE TypeOK' /\ FrameOK'
  BY <1>8 DEF Merge, IsNext
<1>9. ASSUME NEW t \in Trials, Persist(t) PROVE TypeOK' /\ FrameOK'
  BY <1>9 DEF Persist, IsNext, WithCoverage
<1>10. ASSUME NEW t \in Trials, SaveHits(t) PROVE TypeOK' /\ FrameOK'
  <2>1. /\ faults' \in 0..MaxFaults /\ broken' \in BOOLEAN /\ todo' \subseteq todo
        /\ UNCHANGED <<environment, status, cur, phase, before, found, kept, rows, profile, agg>>
    BY <1>10, FaultUsed DEF SaveHits
  <2> QED
    BY <2>1
<1>11. CASE Prepare
  <2>1. PICK lost \in SUBSET UNION {FilesIn(found[t]) : t \in DOMAIN found} :
               /\ Cardinality(lost) <= faults
               /\ faults' = faults - Cardinality(lost)
               /\ kept' = [t \in DOMAIN found |-> FilesIn(found[t]) \ lost]
    BY <1>11 DEF Prepare
  <2>2. \A t \in DOMAIN found : FilesIn(found[t]) \subseteq {f \in Files : Owner[f] = t}
    <3> SUFFICES ASSUME NEW t \in DOMAIN found, NEW v \in found[t]
                 PROVE  v[1] \in {f \in Files : Owner[f] = t}
      BY DEF FilesIn
    <3> QED
      BY DEF Versions
  <2>3. lost \in SUBSET Files
    BY <2>2
  <2>4. Cardinality(lost) \in Nat
    BY <2>3, FS_Subset, FS_CardinalityType
  <2>5. faults' \in 0..MaxFaults
    BY <2>1, <2>4
  <2>6. \A t \in DOMAIN found : kept'[t] \subseteq {f \in Files : Owner[f] = t}
    BY <2>1, <2>2
  <2>7. DOMAIN kept' = DOMAIN found /\ phase = "detect" /\ phase' = "save" /\ todo' = DOMAIN found
        /\ UNCHANGED <<environment, status, cur, broken, before, found, tables>>
    BY <1>11, <2>1 DEF Prepare
  <2> QED
    <3>1. TypeOK'
      BY <2>5, <2>6, <2>7
    <3>2. FrameOK'
      BY <2>7
    <3> QED
      BY <3>1, <3>2
<1>12. CASE PlanCoverage
  BY <1>12 DEF PlanCoverage, Bootstrapped, SeedCoverage
<1>13. CASE SkipCoverage
  BY <1>13 DEF SkipCoverage, EnterCrashes, Crashed
<1>14. CASE Execute
  BY <1>14 DEF Execute, Measured
<1>15. CASE MergedAll
  BY <1>15 DEF MergedAll, Measured
<1>16. CASE Aggregate
  BY <1>16 DEF Aggregate, EnterCrashes, Put, Crashed
<1>17. CASE Complete
  BY <1>17 DEF Complete, EndFrame, NoTrial
<1>18. CASE Raise
  <2>1. faults' \in 0..MaxFaults
    BY <1>18, FaultUsed DEF Raise
  <2>2. status' \in [DOMAIN schedule -> {"pending", "completed", "failed", "aborted"}]
    BY <1>18 DEF Raise
  <2>3. /\ cur' = 0 /\ phase' \in {"idle", "over"} /\ todo' = {} /\ broken' = FALSE
        /\ DOMAIN before' = {} /\ DOMAIN found' = {} /\ DOMAIN kept' = {}
        /\ UNCHANGED <<environment, tables>>
    BY <1>18 DEF Raise, EndFrame, NoTrial
  <2> QED
    BY <2>1, <2>2, <2>3
<1>19. CASE UNCHANGED vars
  BY <1>19 DEF vars
<1> QED
  BY <1>1, <1>2, <1>3, <1>4, <1>5, <1>6, <1>7, <1>8, <1>9, <1>10, <1>11, <1>12, <1>13, <1>14, <1>15, <1>16, <1>17, <1>18, <1>19 DEF Next

-----------------------------------------------------------------------------
(* The rows of ticks.                                                        *)

\* What the insertion of a row and the storing of its coverage do to the table.
LEMMA SaveFacts ==
  ASSUME LedgerInv, NEW t \in Trials, Save(t)
  PROVE  /\ cur \in DOMAIN schedule /\ cur # 0 /\ phase = "save" /\ t \in todo /\ t \in DOMAIN kept
         /\ cur \notin DOMAIN rows[t]
         /\ DOMAIN rows'[t] = DOMAIN rows[t] \cup {cur}
         /\ rows'[t][cur] = NewRow(t)
         /\ \A i \in DOMAIN rows[t] : rows'[t][i] = rows[t][i]
         /\ \A u \in Trials \ {t} : rows'[u] = rows[u]
<1> USE DEF LedgerInv, TypeOK, FrameOK
<1>1. phase = "save" /\ t \in todo /\ cur \in DOMAIN schedule /\ cur # 0 /\ t \in DOMAIN kept
  BY DEF Save, IsNext
<1>2. cur \notin DOMAIN rows[t]
  BY <1>1 DEF RowsFollowTicks
<1>3. rows' = [rows EXCEPT ![t] = Put(rows[t], cur, NewRow(t))] /\ DOMAIN rows = Trials
  BY DEF Save
<1>4. rows'[t] = Put(rows[t], cur, NewRow(t)) /\ \A u \in Trials \ {t} : rows'[u] = rows[u]
  BY <1>3
<1> QED
  BY <1>1, <1>2, <1>4 DEF Put

LEMMA NewRowFields ==
  ASSUME NEW t \in Trials
  PROVE  /\ DOMAIN NewRow(t) = RowFields /\ NewRow(t).ts = schedule[cur]
         /\ NewRow(t).found = found[t] /\ NewRow(t).kept = kept[t]
         /\ NewRow(t).cov = IF t \in Measured THEN {} ELSE Carried(t)
  BY DEF NewRow, RowFields

LEMMA PersistFacts ==
  ASSUME LedgerInv, NEW t \in Trials, Persist(t), NEW u \in Trials
  PROVE  /\ DOMAIN rows'[u] = DOMAIN rows[u]
         /\ \A i \in DOMAIN rows[u] :
              /\ DOMAIN rows'[u][i] = RowFields
              /\ \A name \in RowFields \ {"cov"} : rows'[u][i][name] = rows[u][i][name]
              /\ rows'[u][i].cov = IF u = t /\ i = cur THEN profile[t] ELSE rows[u][i].cov
<1> USE DEF LedgerInv, TypeOK, FrameOK
<1>1. rows' = [rows EXCEPT ![t] = [rows[t] EXCEPT ![cur] = [rows[t][cur] EXCEPT !.cov = profile[t]]]]
  BY DEF Persist, WithCoverage
<1>2. DOMAIN rows = Trials /\ \A i \in DOMAIN rows[u] : DOMAIN rows[u][i] = RowFields
  BY DEF RowsFollowTicks
<1>3. CASE u # t
  BY <1>1, <1>2, <1>3
<1>4. CASE u = t
  <2>1. rows'[u] = [rows[u] EXCEPT ![cur] = [rows[u][cur] EXCEPT !.cov = profile[t]]]
    BY <1>1, <1>2, <1>4
  <2> QED
    BY <1>2, <1>4, <2>1 DEF RowFields
<1> QED
  BY <1>3, <1>4

\* A step that leaves the rows and the statuses alone.
LEMMA QuietRows ==
  ASSUME RowsFollowTicks, UNCHANGED <<schedule, status, rows, cur>>,
         \A t \in Trials : phase' = "detect" \/ (phase' = "save" /\ t \in todo')
                           => phase = "detect" \/ (phase = "save" /\ t \in todo)
  PROVE  RowsFollowTicks'
  BY DEF RowsFollowTicks, RowFields

LEMMA RowsNext == LedgerInv /\ [Next]_vars => RowsFollowTicks'
<1> SUFFICES ASSUME LedgerInv, [Next]_vars
             PROVE  RowsFollowTicks'
  OBVIOUS
<1> USE DEF environment, frame, tables
<1>0. RowsFollowTicks /\ TypeOK /\ FrameOK
  BY DEF LedgerInv
<1>1. CASE Tock
  BY <1>0, <1>1, QuietRows DEF Tock, TypeOK, FrameOK
<1>2. CASE Stop
  BY <1>0, <1>2, QuietRows DEF Stop, TypeOK, FrameOK
<1>3. ASSUME NEW f \in Files, Write(f) PROVE RowsFollowTicks'
  BY <1>0, <1>3, QuietRows DEF Write, TypeOK, FrameOK
<1>4. ASSUME NEW t \in Trials, Detect(t) PROVE RowsFollowTicks'
  BY <1>0, <1>4, QuietRows DEF Detect, TypeOK, FrameOK
<1>5. ASSUME NEW t \in Trials, JobFails(t) PROVE RowsFollowTicks'
  BY <1>0, <1>5, QuietRows DEF JobFails, TypeOK, FrameOK
<1>6. ASSUME NEW t \in Trials, Merge(t) PROVE RowsFollowTicks'
  BY <1>0, <1>6, QuietRows DEF Merge, TypeOK, FrameOK
<1>7. ASSUME NEW t \in Trials, SaveHits(t) PROVE RowsFollowTicks'
  BY <1>0, <1>7, QuietRows DEF SaveHits, TypeOK, FrameOK
<1>8. CASE Prepare
  BY <1>0, <1>8, QuietRows DEF Prepare, TypeOK, FrameOK
<1>9. CASE PlanCoverage
  BY <1>0, <1>9, QuietRows DEF PlanCoverage, TypeOK, FrameOK
<1>10. CASE SkipCoverage
  BY <1>0, <1>10, QuietRows DEF SkipCoverage, EnterCrashes, TypeOK, FrameOK
<1>11. CASE Execute
  BY <1>0, <1>11, QuietRows DEF Execute, TypeOK, FrameOK
<1>12. CASE MergedAll
  BY <1>0, <1>12, QuietRows DEF MergedAll, TypeOK, FrameOK
<1>13. CASE Aggregate
  BY <1>0, <1>13, QuietRows DEF Aggregate, EnterCrashes, TypeOK, FrameOK
<1>14. ASSUME NEW i \in DOMAIN schedule, NEW selected \in SUBSET Trials, Begin(i, selected)
      PROVE  RowsFollowTicks'
  <2>1. cur = 0 /\ cur' = i /\ phase' = "detect" /\ status[i] = "pending" /\ UNCHANGED <<schedule, status, rows>>
    BY <1>0, <1>14 DEF Begin, TypeOK
  <2>2. 0 \notin DOMAIN schedule
    BY <1>0 DEF FrameOK
  <2> QED
    BY <1>0, <2>1, <2>2 DEF RowsFollowTicks, RowFields
<1>15. ASSUME NEW t \in Trials, Save(t)
      PROVE  RowsFollowTicks'
  <2>1. UNCHANGED <<schedule, status, cur, phase>> /\ todo' = todo \ {t} /\ phase = "save"
    BY <1>15 DEF Save
  <2>2. /\ DOMAIN rows'[t][cur] = RowFields /\ rows'[t][cur].ts = schedule[cur]
        /\ rows'[t][cur].found = found[t]
    BY <1>15, SaveFacts, NewRowFields
  <2>3. found[t] \subseteq Files \X Int /\ \A v \in found[t] : v[2] <= schedule[cur] * Ns
    <3>1. t \in DOMAIN found
      BY <1>0, <1>15, SaveFacts DEF TypeOK
    <3>2. found[t] \subseteq Files \X Int
      BY <1>0, <3>1 DEF FrameOK, Versions
    <3>3. Staged(t) /\ cur # 0 /\ t \in DOMAIN kept
      BY <1>15, SaveFacts DEF Staged
    <3> QED
      BY <3>2, <3>3 DEF LedgerInv, WindowsAreStaged
  <2>4. \A i \in DOMAIN rows'[t] :
          /\ DOMAIN rows'[t][i] = RowFields /\ rows'[t][i].ts = schedule[i]
          /\ rows'[t][i].found \subseteq Files \X Int
          /\ \A v \in rows'[t][i].found : v[2] <= schedule[i] * Ns
    BY <1>0, <1>15, <2>2, <2>3, SaveFacts DEF RowsFollowTicks
  <2>5. \A u \in Trials \ {t} : rows'[u] = rows[u]
    BY <1>15, SaveFacts
  <2>6. DOMAIN rows'[t] = DOMAIN rows[t] \cup {cur}
    BY <1>15, SaveFacts
  <2> QED
    BY <1>0, <2>1, <2>4, <2>5, <2>6 DEF RowsFollowTicks
<1>16. ASSUME NEW t \in Trials, Persist(t)
      PROVE  RowsFollowTicks'
  <2>1. UNCHANGED <<schedule, status, cur, phase>> /\ phase = "persist"
    BY <1>16 DEF Persist
  <2>2. \A u \in Trials : /\ DOMAIN rows'[u] = DOMAIN rows[u]
                          /\ \A i \in DOMAIN rows[u] :
                               /\ DOMAIN rows'[u][i] = RowFields
                               /\ rows'[u][i].ts = rows[u][i].ts
                               /\ rows'[u][i].found = rows[u][i].found
    BY <1>16, PersistFacts DEF RowFields
  <2> QED
    BY <1>0, <2>1, <2>2 DEF RowsFollowTicks
<1>17. CASE Complete \/ Raise
  <2>1. cur # 0 /\ cur' = 0 /\ UNCHANGED <<schedule, rows>>
    BY <1>0, <1>17 DEF Complete, Raise, EndFrame, TypeOK
  <2>2. DOMAIN status = DOMAIN schedule /\ cur \in DOMAIN schedule
    BY <1>0, <2>1 DEF TypeOK
  <2>3. status'[cur] # "pending" /\ \A i \in DOMAIN schedule \ {cur} : status'[i] = status[i]
    BY <1>17, <2>2 DEF Complete, Raise
  <2>4. 0 \notin DOMAIN schedule
    BY <1>0 DEF FrameOK
  <2> QED
    BY <1>0, <2>1, <2>2, <2>3, <2>4 DEF RowsFollowTicks
<1>18. CASE UNCHANGED vars
  BY <1>0, <1>18, QuietRows DEF vars
<1> QED
  BY <1>1, <1>2, <1>3, <1>4, <1>5, <1>6, <1>7, <1>8, <1>9, <1>10, <1>11, <1>12, <1>13, <1>14, <1>15, <1>16, <1>17, <1>18 DEF Next

-----------------------------------------------------------------------------
(* The windows of ticks.                                                     *)

\* What a trial has detected stays its window as long as its files, its rows and
\* the tick are the same.
LEMMA QuietWindows ==
  ASSUME WindowsAreStaged, UNCHANGED <<mode, clock, writes, root, schedule, cur>>,
         DOMAIN kept' = DOMAIN kept,
         \A t \in DOMAIN kept :
           Staged(t)' => Staged(t) /\ found'[t] = found[t] /\ rows'[t] = rows[t]
  PROVE  WindowsAreStaged'
<1> SUFFICES ASSUME cur # 0
             PROVE  WindowsAreStaged'
  BY DEF WindowsAreStaged
<1>1. \A t \in DOMAIN kept : StartTs(t)' = StartTs(t)
  BY DEF StartTs
<1>2. \A t \in DOMAIN kept : Staged(t)' => Window(t)' = Window(t) /\ Horizon(t)' = Horizon(t)
  <2> SUFFICES ASSUME NEW t \in DOMAIN kept, Staged(t)'
               PROVE  Window(t)' = Window(t) /\ Horizon(t)' = Horizon(t)
    OBVIOUS
  <2>1. LatestRow(t)' = LatestRow(t)
    BY DEF LatestRow
  <2>2. Horizon(t)' = Horizon(t)
    BY <1>1, <2>1 DEF Horizon
  <2>3. Written' = Written /\ \A f : FileTime(f)' = FileTime(f)
    BY DEF Written, FileTime, LogicalTime, Mtime
  <2> QED
    BY <2>2, <2>3 DEF Window
<1>3. \A f, x : LogicalTime(f, x)' = LogicalTime(f, x)
  BY DEF LogicalTime
<1> QED
  BY <1>1, <1>2, <1>3 DEF WindowsAreStaged

LEMMA WindowsNext == LedgerInv /\ [Next]_vars => WindowsAreStaged'
<1> SUFFICES ASSUME LedgerInv, [Next]_vars
             PROVE  WindowsAreStaged'
  OBVIOUS
<1> USE DEF environment, frame, tables
<1>0. RowsFollowTicks /\ TypeOK /\ FrameOK /\ WindowsAreStaged /\ TimesOK
  BY TimesFromTypes DEF LedgerInv
<1>1. CASE Stop
  BY <1>0, <1>1, QuietWindows DEF Stop, Staged, TypeOK, FrameOK
<1>2. ASSUME NEW t \in Trials, JobFails(t) PROVE WindowsAreStaged'
  BY <1>0, <1>2, QuietWindows DEF JobFails, Staged, TypeOK, FrameOK
<1>3. ASSUME NEW t \in Trials, Merge(t) PROVE WindowsAreStaged'
  BY <1>0, <1>3, QuietWindows DEF Merge, Staged, TypeOK, FrameOK
<1>4. ASSUME NEW t \in Trials, SaveHits(t) PROVE WindowsAreStaged'
  BY <1>0, <1>4, QuietWindows DEF SaveHits, Staged, TypeOK, FrameOK
<1>5. CASE Prepare
  BY <1>0, <1>5, QuietWindows DEF Prepare, Staged, TypeOK, FrameOK
<1>6. CASE PlanCoverage
  BY <1>0, <1>6, QuietWindows DEF PlanCoverage, Staged, TypeOK, FrameOK
<1>7. CASE SkipCoverage
  BY <1>0, <1>7, QuietWindows DEF SkipCoverage, EnterCrashes, Staged, TypeOK, FrameOK
<1>8. CASE Execute
  BY <1>0, <1>8, QuietWindows DEF Execute, Staged, TypeOK, FrameOK
<1>9. CASE MergedAll
  BY <1>0, <1>9, QuietWindows DEF MergedAll, Staged, TypeOK, FrameOK
<1>10. CASE Aggregate
  BY <1>0, <1>10, QuietWindows DEF Aggregate, EnterCrashes, Staged, TypeOK, FrameOK
<1>11. ASSUME NEW t \in Trials, Save(t)
      PROVE  WindowsAreStaged'
  <2>1. /\ UNCHANGED <<mode, clock, writes, root, schedule, cur, kept, found, phase>>
        /\ phase = "save" /\ todo' = todo \ {t}
    BY <1>11 DEF Save
  <2>2. \A u \in DOMAIN kept : Staged(u)' => Staged(u) /\ rows'[u] = rows[u]
    BY <1>0, <1>11, <2>1, SaveFacts DEF Staged, TypeOK
  <2> QED
    BY <1>0, <2>1, <2>2, QuietWindows
<1>12. ASSUME NEW t \in Trials, Persist(t)
      PROVE  WindowsAreStaged'
  <2>1. UNCHANGED <<mode, clock, writes, root, schedule, cur, kept, found, phase>> /\ phase = "persist"
    BY <1>12 DEF Persist
  <2>2. \A u \in DOMAIN kept : ~ Staged(u)'
    BY <2>1 DEF Staged
  <2> QED
    BY <1>0, <2>1, <2>2, QuietWindows
<1>13. CASE Complete \/ Raise
  BY <1>13 DEF Complete, Raise, EndFrame, WindowsAreStaged
<1>14. ASSUME NEW i \in DOMAIN schedule, NEW selected \in SUBSET Trials, Begin(i, selected)
      PROVE  WindowsAreStaged'
  <2>1. /\ cur' = i /\ phase' = "detect" /\ todo' = selected /\ DOMAIN kept' = selected
        /\ UNCHANGED <<mode, clock, root, schedule>>
    BY <1>14 DEF Begin
  <2>2. mode # "replay" => clock > schedule[i] * Ns
    BY <1>14 DEF Begin
  <2>3. \A t \in selected : StartTs(t) <= schedule[i]
    <3>1. CASE mode = "replay"
      BY <1>14, <3>1 DEF Begin
    <3>2. CASE mode # "replay"
      <4>1. \A t \in selected : LiveStart[t] < schedule[i] /\ LiveStart[t] \in Int
        BY <1>14, <3>2, MeasurementAssumption DEF Begin
      <4>2. schedule[i] \in Int
        BY <1>0 DEF FrameOK
      <4> QED
        BY <3>2, <4>1, <4>2 DEF StartTs
    <3> QED
      BY <3>1, <3>2
  <2>4. \A t \in selected : StartTs(t)' = StartTs(t) /\ ~ Staged(t)'
    BY <2>1 DEF StartTs, Staged
  <2> QED
    BY <2>1, <2>2, <2>3, <2>4 DEF WindowsAreStaged
<1>15. ASSUME NEW t \in Trials, Detect(t)
      PROVE  WindowsAreStaged'
  <2>1. /\ UNCHANGED <<mode, clock, writes, root, schedule, cur, rows, kept, phase>>
        /\ phase = "detect" /\ todo' = todo \ {t} /\ cur # 0 /\ t \in DOMAIN kept
    BY <1>0, <1>15 DEF Detect, IsNext, TypeOK, FrameOK
  <2>2. \A u \in DOMAIN kept : found'[u] = IF u = t THEN Window(t) ELSE found[u]
    BY <1>0, <1>15 DEF Detect, TypeOK
  <2>3. \A u \in DOMAIN kept : /\ Window(u)' = Window(u) /\ Horizon(u)' = Horizon(u)
                              /\ StartTs(u)' = StartTs(u)
    BY <2>1 DEF Window, Horizon, LatestRow, Written, FileTime, LogicalTime, Mtime, StartTs
  <2>4. \A f, x : LogicalTime(f, x)' = LogicalTime(f, x)
    BY <2>1 DEF LogicalTime
  <2>5. \A v \in Window(t) :
          /\ Owner[v[1]] = t /\ \E x \in writes[v[1]] : v[2] = LogicalTime(v[1], x)
          /\ Horizon(t) * Ns < v[2] /\ v[2] <= schedule[cur] * Ns
    <3> TAKE v \in Window(t)
    <3>1. PICK f \in Written : /\ v = <<f, FileTime(f)>> /\ Owner[f] = t
                               /\ Horizon(t) * Ns < FileTime(f) /\ FileTime(f) <= schedule[cur] * Ns
      BY DEF Window
    <3> QED
      BY <1>0, <3>1, MtimeLatest DEF FileTime
  <2>6. \A u \in DOMAIN kept \ {t} : Staged(u)' => Staged(u)
    BY <2>1 DEF Staged
  <2> QED
    BY <1>0, <2>1, <2>2, <2>3, <2>4, <2>5, <2>6 DEF WindowsAreStaged
<1>16. CASE Tock
  <2>1. /\ UNCHANGED <<mode, writes, root, schedule, cur, rows, found, kept, phase, todo>>
        /\ clock' > clock /\ clock \in Int /\ clock' \in Int
    BY <1>0, <1>16 DEF Tock, TypeOK
  <2>2. \A u \in DOMAIN kept : /\ Window(u)' = Window(u) /\ Horizon(u)' = Horizon(u)
                              /\ StartTs(u)' = StartTs(u) /\ Staged(u)' = Staged(u)
    BY <2>1 DEF Window, Horizon, LatestRow, Written, FileTime, LogicalTime, Mtime, StartTs, Staged
  <2>3. \A f, x : LogicalTime(f, x)' = LogicalTime(f, x)
    BY <2>1 DEF LogicalTime
  <2>4. cur # 0 => schedule[cur] * Ns \in Int
    BY <1>0, MeasurementAssumption DEF TypeOK, FrameOK
  <2>5. cur # 0 /\ mode # "replay" => clock' > schedule[cur] * Ns
    BY <1>0, <2>1, <2>4 DEF WindowsAreStaged
  <2> QED
    BY <1>0, <2>1, <2>2, <2>3, <2>5 DEF WindowsAreStaged
<1>17. ASSUME NEW f \in Files, Write(f)
      PROVE  WindowsAreStaged'
  <2> SUFFICES ASSUME cur # 0
               PROVE  WindowsAreStaged'
    BY <1>17 DEF Write, WindowsAreStaged
  <2>1. /\ UNCHANGED <<mode, clock, root, schedule, cur, rows, found, kept, phase, todo>>
        /\ mode = "live" /\ clock \in Nat
        /\ writes' = [writes EXCEPT ![f] = writes[f] \cup {clock}]
    BY <1>0, <1>17 DEF Write, TypeOK
  <2>2. TimesOK'
    BY <1>0, <2>1 DEF TimesOK, TypeOK
  <2>3. \A u \in DOMAIN kept : Horizon(u)' = Horizon(u) /\ StartTs(u)' = StartTs(u) /\ Staged(u)' = Staged(u)
    BY <2>1 DEF Horizon, LatestRow, StartTs, Staged
  <2>4. \A g, x : LogicalTime(g, x)' = LogicalTime(g, x)
    BY <2>1 DEF LogicalTime
  <2>5. \A g \in Files : writes[g] \subseteq writes'[g] /\ (g # f => writes'[g] = writes[g])
    BY <1>0, <2>1 DEF TypeOK
  <2>6. clock \in writes'[f] /\ f \in Written'
    BY <1>0, <2>1 DEF TypeOK, Written
  <2>7. FileTime(f)' >= clock /\ FileTime(f)' \in Int
    <3>1. /\ Mtime(f)' \in Nat /\ clock <= Mtime(f)'
      <4>1. writes'[f] \in SUBSET Int /\ LastTime \in Int /\ \A x \in writes'[f] : x \in Nat /\ x <= LastTime
        BY <2>2, MeasurementAssumption DEF TimesOK
      <4>2. Max(writes'[f]) \in writes'[f] /\ \A x \in writes'[f] : x <= Max(writes'[f])
        BY <4>1, <2>6, MaxOfBounded
      <4> QED
        BY <4>1, <4>2, <2>6 DEF Mtime
    <3>2. FileTime(f)' = Mtime(f)'
      BY <2>1 DEF FileTime, LogicalTime
    <3> QED
      BY <2>1, <3>1, <3>2
  <2>8. schedule[cur] * Ns \in Int /\ clock > schedule[cur] * Ns
    BY <1>0, <2>1, MeasurementAssumption DEF WindowsAreStaged, TypeOK, FrameOK
  <2>9. \A u \in DOMAIN kept : Window(u)' \subseteq Window(u)
    <3> SUFFICES ASSUME NEW u \in DOMAIN kept, NEW v \in Window(u)'
                 PROVE  v \in Window(u)
      OBVIOUS
    <3>1. PICK g \in Written' : /\ v = <<g, FileTime(g)'>> /\ Owner[g] = u
                                /\ Horizon(u) * Ns < FileTime(g)'
                                /\ FileTime(g)' <= schedule[cur] * Ns
      BY <2>1, <2>3 DEF Window
    <3>2. g # f
      BY <2>1, <2>7, <2>8, <3>1
    <3>3. g \in Written /\ FileTime(g)' = FileTime(g)
      BY <2>1, <2>5, <3>1, <3>2 DEF Written, FileTime, LogicalTime, Mtime
    <3> QED
      BY <3>1, <3>3 DEF Window
  <2>10. \A u \in DOMAIN kept : Staged(u) => \A v \in found[u] : v[1] \in Files
    BY <1>0 DEF TypeOK, FrameOK, Versions
  <2> QED
    BY <1>0, <2>1, <2>3, <2>4, <2>5, <2>8, <2>9, <2>10 DEF WindowsAreStaged
<1>18. CASE UNCHANGED vars
  BY <1>0, <1>18, QuietWindows DEF vars, Staged
<1> QED
  BY <1>1, <1>2, <1>3, <1>4, <1>5, <1>6, <1>7, <1>8, <1>9, <1>10, <1>11, <1>12, <1>13, <1>14, <1>15, <1>16, <1>17, <1>18 DEF Next

LEMMA NextInv == LedgerInv /\ [Next]_vars => LedgerInv'
  BY TypeNext, RowsNext, WindowsNext DEF LedgerInv

\* The rows of a trial follow each other in the order of their files, the tick in hand
\* has staged what its rows say, and every row counts its own window (LedgerInv;
\* collector.py:30-90).
THEOREM LedgerInvHolds == Spec => []LedgerInv
<1>1. LedgerInv /\ [Next]_vars => LedgerInv'
  BY NextInv
<1> QED
  BY <1>1, InitInv, PTL DEF Spec

\* Every variable has its type (TypeOK), for every instance.
THEOREM TypeCorrect == Spec => []TypeOK
<1>1. LedgerInv => TypeOK
  BY DEF LedgerInv
<1> QED
  BY <1>1, LedgerInvHolds, PTL

-----------------------------------------------------------------------------
(* The rows implement the ledger.                                            *)

LEMMA MaxIs ==
  ASSUME NEW S \in SUBSET Int, NEW m \in S, \A x \in S : x <= m
  PROVE  Max(S) = m
<1>1. Max(S) \in S /\ \A x \in S : x <= Max(S)
  BY MaxOfBounded
<1>2. Max(S) \in Int /\ m \in Int /\ Max(S) <= m /\ m <= Max(S)
  BY <1>1
<1> QED
  BY <1>2

\* The current version of a file in the ledger is the file as the scan sees it.
LEMMA CurrentVersion ==
  ASSUME TimesOK, NEW f \in Files, Dated[f] # {}
  PROVE  f \in Written /\ Ledger!Current(Dated, f) = FileTime(f)
<1>1. f \in Written
  BY DEF Dated, Written
<1>2. Mtime(f) \in writes[f] /\ Mtime(f) \in Nat /\ \A x \in writes[f] : x \in Nat /\ x <= Mtime(f)
  BY <1>1, MtimeLatest
<1>3. FileTime(f) \in Dated[f] /\ FileTime(f) \in Int
  BY <1>2, LogicalOrder DEF Dated, FileTime
<1>4. \A y \in Dated[f] : y \in Int /\ y <= FileTime(f)
  BY <1>2, LogicalOrder DEF Dated, FileTime
<1>5. \A z \in Dated[f] : (\A y \in Dated[f] : y <= z) => z = FileTime(f)
  BY <1>3, <1>4
<1> QED
  BY <1>1, <1>3, <1>4, <1>5 DEF Ledger!Current

\* The horizon after the row of the tick in hand was inserted.
LEMMA HorizonMoves ==
  ASSUME LedgerInv, NEW t \in Trials, Save(t)
  PROVE  /\ UNCHANGED <<mode, root, writes, schedule, cur>>
         /\ StartTs(t)' = StartTs(t)
         /\ LatestRow(t) < cur => Horizon(t)' = schedule[cur]
         /\ cur < LatestRow(t) => Horizon(t)' = Horizon(t)
         /\ LatestRow(t) # cur
         /\ Counted'[t] = Counted[t] \cup found[t]
<1>0. TypeOK /\ FrameOK /\ RowsFollowTicks
  BY DEF LedgerInv
<1>1. UNCHANGED <<mode, root, writes, schedule, cur>> /\ StartTs(t)' = StartTs(t)
  BY DEF Save, StartTs, environment
<1>2. DOMAIN rows'[t] = DOMAIN rows[t] \cup {cur} /\ cur \notin DOMAIN rows[t] /\ cur # 0
      /\ cur \in DOMAIN schedule /\ rows'[t][cur] = NewRow(t)
      /\ \A i \in DOMAIN rows[t] : rows'[t][i] = rows[t][i]
  BY SaveFacts
<1>3. DOMAIN rows'[t] \in SUBSET Nat
  BY <1>0, <1>2 DEF TypeOK, FrameOK
<1>4. DOMAIN rows[t] # {} => LatestRow(t) \in DOMAIN rows[t] /\ \A i \in DOMAIN rows[t] : i <= LatestRow(t)
  BY <1>0, LatestIsLast
<1>5. DOMAIN rows[t] = {} => LatestRow(t) = 0
  BY <1>0, LatestIsLast
<1>6. ASSUME LatestRow(t) < cur PROVE Horizon(t)' = schedule[cur]
  <2>1. \A i \in DOMAIN rows'[t] : i <= cur
    BY <1>2, <1>3, <1>4, <1>6
  <2>2. Max(DOMAIN rows'[t]) = cur
    BY <1>2, <1>3, <2>1, MaxIs
  <2>3. LatestRow(t)' = cur
    BY <1>2, <2>2 DEF LatestRow
  <2> QED
    BY <1>1, <1>2, <2>3, NewRowFields DEF Horizon
<1>7. ASSUME cur < LatestRow(t) PROVE Horizon(t)' = Horizon(t)
  <2>1. DOMAIN rows[t] # {}
    BY <1>2, <1>3, <1>5, <1>7
  <2>2. LatestRow(t) \in DOMAIN rows'[t] /\ \A i \in DOMAIN rows'[t] : i <= LatestRow(t)
    BY <1>2, <1>3, <1>4, <1>7, <2>1
  <2>3. Max(DOMAIN rows'[t]) = LatestRow(t)
    BY <1>3, <2>2, MaxIs
  <2>4. LatestRow(t)' = LatestRow(t)
    BY <1>2, <2>3 DEF LatestRow
  <2>5. rows'[t][LatestRow(t)] = rows[t][LatestRow(t)]
    BY <1>2, <1>4, <2>1
  <2> QED
    BY <1>1, <2>4, <2>5 DEF Horizon
<1>8. LatestRow(t) # cur
  BY <1>2, <1>4, <1>5
<1>9. Counted'[t] = Counted[t] \cup found[t]
  <2>1. Counted'[t] = UNION {rows'[t][i].found : i \in DOMAIN rows[t] \cup {cur}}
    BY <1>2 DEF Counted
  <2>2. rows'[t][cur].found = found[t] /\ \A i \in DOMAIN rows[t] : rows'[t][i].found = rows[t][i].found
    BY <1>2, NewRowFields
  <2>3. Counted[t] = UNION {rows[t][i].found : i \in DOMAIN rows[t]}
    BY DEF Counted
  <2> QED
    BY <2>1, <2>2, <2>3
<1> QED
  BY <1>1, <1>6, <1>7, <1>8, <1>9

\* A row inserted in its turn counts the window; one that comes late is empty.
LEMMA SaveCounts ==
  ASSUME LedgerInv, NEW t \in Trials, Save(t)
  PROVE  Ledger!Count(t) \/ UNCHANGED <<Dated, Horizons, Counted>>
<1>0. TypeOK /\ FrameOK /\ RowsFollowTicks /\ WindowsAreStaged /\ TimesOK
  BY TimesFromTypes DEF LedgerInv
<1>1. /\ cur \in DOMAIN schedule /\ cur # 0 /\ t \in DOMAIN kept /\ Staged(t)
      /\ \A u \in Trials \ {t} : rows'[u] = rows[u]
  BY SaveFacts DEF Staged
<1>2. UNCHANGED Dated
  BY HorizonMoves DEF Dated, LogicalTime
<1>3. \A u \in Trials \ {t} : Horizons'[u] = Horizons[u] /\ Counted'[u] = Counted[u]
  <2> SUFFICES ASSUME NEW u \in Trials \ {t}
               PROVE  Horizons'[u] = Horizons[u] /\ Counted'[u] = Counted[u]
    OBVIOUS
  <2>1. LatestRow(u)' = LatestRow(u)
    BY <1>1 DEF LatestRow
  <2>2. StartTs(u)' = StartTs(u)
    BY HorizonMoves DEF StartTs
  <2>3. Horizon(u)' = Horizon(u)
    BY <1>1, <2>1, <2>2 DEF Horizon
  <2> QED
    BY <1>1, <2>3 DEF Horizons, Counted
<1>4. /\ Horizons' = [u \in Trials |-> Horizons'[u]] /\ Horizons = [u \in Trials |-> Horizons[u]]
      /\ Counted' = [u \in Trials |-> Counted'[u]] /\ Counted = [u \in Trials |-> Counted[u]]
  BY DEF Horizons, Counted
<1>5. /\ Horizons[t] = Horizon(t) /\ Horizons'[t] = Horizon(t)'
      /\ Counted'[t] = Counted[t] \cup found[t]
  BY HorizonMoves DEF Horizons
<1>6. /\ schedule[cur] \in Int /\ Horizon(t) \in Int /\ StartTs(t) \in Int
      /\ schedule[cur] * Ns \in Int /\ Horizon(t) * Ns \in Int
  BY <1>0, <1>1, LatestIsLast, StartType, ScaledOrder DEF FrameOK
<1>7. \A v \in found[t] :
        /\ v[1] \in Files /\ v[2] \in Int
        /\ Owner[v[1]] = t /\ v[2] \in Dated[v[1]]
        /\ Horizon(t) * Ns < v[2] /\ v[2] <= schedule[cur] * Ns
  <2>1. found[t] \subseteq Files \X Int
    BY <1>0, <1>1 DEF TypeOK, FrameOK, Versions
  <2> QED
    BY <1>0, <1>1, <2>1 DEF WindowsAreStaged, Dated
<1>8. CASE LatestRow(t) < cur
  <2>1. Horizons'[t] = schedule[cur]
    BY <1>5, <1>8, HorizonMoves
  <2>2. Horizons'[t] > Horizons[t]
    <3>1. CASE DOMAIN rows[t] = {}
      <4>1. Horizon(t) = StartTs(t) - 1
        BY <1>0, <3>1, LatestIsLast
      <4>2. StartTs(t) <= schedule[cur]
        BY <1>0, <1>1 DEF WindowsAreStaged
      <4> QED
        BY <1>5, <1>6, <2>1, <4>1, <4>2
    <3>2. CASE DOMAIN rows[t] # {}
      <4>1. LatestRow(t) \in DOMAIN schedule /\ Horizon(t) = schedule[LatestRow(t)]
        BY <1>0, <3>2, LatestIsLast DEF TypeOK
      <4>2. schedule[LatestRow(t)] < schedule[cur]
        BY <1>0, <1>1, <1>8, <4>1 DEF RowsFollowTicks
      <4> QED
        BY <1>5, <1>6, <2>1, <4>1, <4>2
    <3> QED
      BY <3>1, <3>2
  <2>3. \A v \in Counted[t] : v[2] \in Int /\ v[2] <= Horizon(t) * Ns
    <3> SUFFICES ASSUME NEW i \in DOMAIN rows[t], NEW v \in rows[t][i].found
                 PROVE  v[2] \in Int /\ v[2] <= Horizon(t) * Ns
      BY DEF Counted
    <3>1. v \in Files \X Int /\ v[2] <= schedule[i] * Ns
      BY <1>0 DEF RowsFollowTicks
    <3>2. schedule[i] \in Int /\ schedule[i] <= Horizon(t)
      BY <1>0, LatestIsLast DEF TypeOK, FrameOK
    <3>3. schedule[i] * Ns \in Int /\ schedule[i] * Ns <= Horizon(t) * Ns
      BY <1>6, <3>2, ScaledOrder
    <3> QED
      BY <1>6, <3>1, <3>3
  <2>4. \A f \in Files :
          LET x == Ledger!Current(Dated, f)
          IN  Owner[f] = t /\ Dated[f] # {} /\ Horizon(t) * Ns < x /\ x <= schedule[cur] * Ns
                => <<f, x>> \in Counted'[t] \ Counted[t]
    <3> SUFFICES ASSUME NEW f \in Files, Owner[f] = t, Dated[f] # {},
                        Horizon(t) * Ns < Ledger!Current(Dated, f),
                        Ledger!Current(Dated, f) <= schedule[cur] * Ns
                 PROVE  <<f, Ledger!Current(Dated, f)>> \in Counted'[t] \ Counted[t]
      OBVIOUS
    <3>1. f \in Written /\ Ledger!Current(Dated, f) = FileTime(f)
      BY <1>0, CurrentVersion
    <3>2. <<f, FileTime(f)>> \in Window(t)
      BY <3>1 DEF Window
    <3>3. <<f, FileTime(f)>> \in found[t]
      BY <1>0, <1>1, <3>2 DEF WindowsAreStaged
    <3>4. <<f, FileTime(f)>> \notin Counted[t]
      <4>1. FileTime(f) \in Int
        BY <1>7, <3>3
      <4> QED
        BY <1>6, <2>3, <3>1, <4>1
    <3> QED
      BY <1>5, <3>1, <3>3, <3>4
  <2>5. Horizons' = [Horizons EXCEPT ![t] = Horizons'[t]] /\ Counted' = [Counted EXCEPT ![t] = Counted'[t]]
    BY <1>3, <1>4
  <2>6. \A v \in Counted'[t] \ Counted[t] : v \in found[t]
    BY <1>5
  <2> QED
    BY <1>2, <1>5, <1>7, <2>1, <2>2, <2>4, <2>5, <2>6 DEF Ledger!Count
<1>9. CASE cur < LatestRow(t)
  <2>1. LatestRow(t) \in DOMAIN schedule /\ Horizon(t) = schedule[LatestRow(t)]
    <3>1. DOMAIN rows[t] # {}
      BY <1>0, <1>1, <1>9, LatestIsLast DEF FrameOK
    <3> QED
      BY <1>0, <3>1, LatestIsLast DEF TypeOK
  <2>2. schedule[cur] <= Horizon(t)
    BY <1>0, <1>1, <1>6, <1>9, <2>1 DEF RowsFollowTicks
  <2>3. schedule[cur] * Ns <= Horizon(t) * Ns
    BY <1>6, <2>2, ScaledOrder
  <2>4. found[t] = {}
    BY <1>6, <1>7, <2>3
  <2>5. Horizons'[t] = Horizons[t] /\ Counted'[t] = Counted[t]
    BY <1>5, <1>9, <2>4, HorizonMoves
  <2> QED
    BY <1>2, <1>3, <1>4, <2>5
<1> QED
  <2>1. cur \in Nat /\ LatestRow(t) \in Nat
    BY <1>0, <1>1, LatestIsLast DEF FrameOK
  <2> QED
    BY <1>8, <1>9, <2>1, HorizonMoves

\* Steps that leave the ledger alone.
LEMMA LedgerStutter ==
  ASSUME UNCHANGED <<mode, root, writes, rows>>
  PROVE  UNCHANGED <<Dated, Horizons, Counted>>
  BY DEF Dated, LogicalTime, Horizons, Horizon, LatestRow, StartTs, Counted

LEMMA PersistStutters ==
  ASSUME LedgerInv, NEW t \in Trials, Persist(t)
  PROVE  UNCHANGED <<Dated, Horizons, Counted>>
<1>1. UNCHANGED <<mode, root, writes>>
  BY DEF Persist, environment
<1>2. \A u \in Trials : /\ DOMAIN rows'[u] = DOMAIN rows[u]
                        /\ \A i \in DOMAIN rows[u] : /\ rows'[u][i].ts = rows[u][i].ts
                                                     /\ rows'[u][i].found = rows[u][i].found
  BY PersistFacts DEF RowFields
<1>3. \A u \in Trials : LatestRow(u)' = LatestRow(u) /\ StartTs(u)' = StartTs(u)
  BY <1>1, <1>2 DEF LatestRow, StartTs
<1>4. \A u \in Trials : LatestRow(u) # 0 => LatestRow(u) \in DOMAIN rows[u]
  BY LatestIsLast DEF LedgerInv
<1>5. \A u \in Trials : Horizon(u)' = Horizon(u)
  BY <1>2, <1>3, <1>4 DEF Horizon
<1>6. \A u \in Trials : UNION {rows'[u][i].found : i \in DOMAIN rows'[u]}
                          = UNION {rows[u][i].found : i \in DOMAIN rows[u]}
  BY <1>2
<1> QED
  BY <1>1, <1>5, <1>6 DEF Dated, LogicalTime, Horizons, Counted

LEMMA WriteWrites ==
  ASSUME LedgerInv, NEW f \in Files, Write(f)
  PROVE  Ledger!Write(f)
<1>1. UNCHANGED <<mode, root, rows>> /\ writes' = [writes EXCEPT ![f] = writes[f] \cup {clock}]
  BY DEF Write, tables
<1>2. UNCHANGED <<Horizons, Counted>>
  BY <1>1 DEF Horizons, Horizon, LatestRow, StartTs, Counted
<1>3. \A g \in Files : /\ writes[g] \subseteq writes'[g] /\ (g # f => writes'[g] = writes[g])
  BY <1>1 DEF LedgerInv, TypeOK
<1>4. \A g, x : LogicalTime(g, x)' = LogicalTime(g, x)
  BY <1>1 DEF LogicalTime
<1>5. Dated[f] \subseteq Dated'[f] /\ \A g \in Files \ {f} : Dated'[g] = Dated[g]
  BY <1>3, <1>4 DEF Dated
<1>6. Dated' = [g \in Files |-> Dated'[g]] /\ Dated = [g \in Files |-> Dated[g]]
  BY DEF Dated
<1> QED
  BY <1>2, <1>5, <1>6 DEF Ledger!Write

LEMMA LedgerStep == LedgerInv /\ [Next]_vars => [Ledger!Next]_(Ledger!ledgerVars)
<1> SUFFICES ASSUME LedgerInv, [Next]_vars
             PROVE  Ledger!Next \/ UNCHANGED <<Dated, Horizons, Counted>>
  BY DEF Ledger!ledgerVars
<1> USE DEF environment, frame, tables
<1>1. CASE Tock
  BY <1>1, LedgerStutter DEF Tock
<1>2. CASE Stop
  BY <1>2, LedgerStutter DEF Stop
<1>3. ASSUME NEW i \in DOMAIN schedule, NEW selected \in SUBSET Trials, Begin(i, selected) PROVE UNCHANGED <<Dated, Horizons, Counted>>
  BY <1>3, LedgerStutter DEF Begin
<1>4. ASSUME NEW t \in Trials, Detect(t) PROVE UNCHANGED <<Dated, Horizons, Counted>>
  BY <1>4, LedgerStutter DEF Detect
<1>5. ASSUME NEW t \in Trials, JobFails(t) PROVE UNCHANGED <<Dated, Horizons, Counted>>
  BY <1>5, LedgerStutter DEF JobFails
<1>6. ASSUME NEW t \in Trials, Merge(t) PROVE UNCHANGED <<Dated, Horizons, Counted>>
  BY <1>6, LedgerStutter DEF Merge
<1>7. ASSUME NEW t \in Trials, SaveHits(t) PROVE UNCHANGED <<Dated, Horizons, Counted>>
  BY <1>7, LedgerStutter DEF SaveHits
<1>8. CASE Prepare
  BY <1>8, LedgerStutter DEF Prepare
<1>9. CASE PlanCoverage
  BY <1>9, LedgerStutter DEF PlanCoverage
<1>10. CASE SkipCoverage
  BY <1>10, LedgerStutter DEF SkipCoverage
<1>11. CASE Execute
  BY <1>11, LedgerStutter DEF Execute
<1>12. CASE MergedAll
  BY <1>12, LedgerStutter DEF MergedAll
<1>13. CASE Aggregate
  BY <1>13, LedgerStutter DEF Aggregate
<1>14. CASE Complete
  BY <1>14, LedgerStutter DEF Complete
<1>15. CASE Raise
  BY <1>15, LedgerStutter DEF Raise
<1>16. ASSUME NEW f \in Files, Write(f) PROVE Ledger!Next
  BY <1>16, WriteWrites DEF Ledger!Next
<1>17. ASSUME NEW t \in Trials, Save(t) PROVE Ledger!Next \/ UNCHANGED <<Dated, Horizons, Counted>>
  BY <1>17, SaveCounts DEF Ledger!Next
<1>18. ASSUME NEW t \in Trials, Persist(t) PROVE UNCHANGED <<Dated, Horizons, Counted>>
  BY <1>18, PersistStutters
<1>19. CASE UNCHANGED vars
  BY <1>19, LedgerStutter DEF vars
<1> QED
  BY <1>1, <1>2, <1>3, <1>4, <1>5, <1>6, <1>7, <1>8, <1>9, <1>10, <1>11, <1>12, <1>13, <1>14, <1>15, <1>16, <1>17, <1>18, <1>19 DEF Next

LEMMA LedgerInit == Init /\ LedgerInv => Ledger!Init
<1> SUFFICES ASSUME Init, LedgerInv PROVE Ledger!Init
  OBVIOUS
<1>0. TimesOK /\ TypeOK /\ FrameOK /\ RowsFollowTicks
  BY TimesFromTypes DEF LedgerInv
<1>1. Counted = [t \in Trials |-> {}]
  BY DEF Init, InitTables, Counted
<1>2. Horizons \in [Trials -> Int]
  BY <1>0, LatestIsLast DEF Horizons
<1>3. Dated \in [Files -> SUBSET Nat]
  <2>1. \A f \in Files : \A x \in writes[f] : LogicalTime(f, x) \in Nat
    BY <1>0, LogicalOrder DEF TimesOK
  <2> QED
    BY <2>1 DEF Dated
<1> QED
  BY <1>1, <1>2, <1>3 DEF Ledger!Init

\* Whatever the ticks, their order and their failures, the rows of a trial are a
\* ledger of its files: no version is counted twice and none that is still there
\* is passed over (LedgerSpec; collector.py:142-154, ingest.py:52-69).
THEOREM RowsAreALedger == Spec => LedgerSpec
<1>1. Init => Ledger!Init
  BY InitInv, LedgerInit
<1>2. LedgerInv /\ [Next]_vars => [Ledger!Next]_(Ledger!ledgerVars)
  BY LedgerStep
<1> QED
  BY <1>1, <1>2, LedgerInvHolds, PTL DEF Spec, LedgerSpec, Ledger!Spec

-----------------------------------------------------------------------------
(* Merges come before summaries.                                             *)

LEMMA RowIndices ==
  ASSUME LedgerInv, NEW t \in Trials
  PROVE  /\ 0 \notin DOMAIN rows[t]
         /\ phase = "detect" => cur \notin DOMAIN rows[t]
         /\ \A i \in DOMAIN schedule : status[i] = "pending" /\ cur = 0 => i \notin DOMAIN rows[t]
<1>1. 0 \notin DOMAIN schedule
  BY DEF LedgerInv, FrameOK
<1>2. DOMAIN rows[t] \subseteq DOMAIN schedule
  BY DEF LedgerInv, TypeOK
<1>3. phase = "detect" => cur \in DOMAIN schedule /\ status[cur] = "pending"
  BY DEF LedgerInv, TypeOK, RowsFollowTicks
<1> QED
  BY <1>1, <1>2, <1>3 DEF LedgerInv, RowsFollowTicks

LEMMA MergesNext == MergeInv /\ [Next]_vars => MergesComeFirst'
<1> SUFFICES ASSUME MergeInv, [Next]_vars
             PROVE  MergesComeFirst'
  OBVIOUS
<1>0. LedgerInv /\ TypeOK /\ FrameOK /\ MergesComeFirst
  BY DEF MergeInv, LedgerInv
<1> USE DEF environment, frame, tables
<1>1. CASE Tock
  BY <1>0, <1>1 DEF Tock, MergesComeFirst, Measured, IsNext
<1>2. CASE Stop
  BY <1>0, <1>2 DEF Stop, MergesComeFirst, Measured, IsNext
<1>3. ASSUME NEW f \in Files, Write(f) PROVE MergesComeFirst'
  BY <1>0, <1>3 DEF Write, MergesComeFirst, Measured, IsNext
<1>4. ASSUME NEW t \in Trials, Detect(t) PROVE MergesComeFirst'
  BY <1>0, <1>4 DEF Detect, MergesComeFirst, Measured, IsNext
<1>5. ASSUME NEW t \in Trials, JobFails(t) PROVE MergesComeFirst'
  BY <1>0, <1>5 DEF JobFails, MergesComeFirst, Measured, IsNext
<1>6. ASSUME NEW t \in Trials, SaveHits(t) PROVE MergesComeFirst'
  BY <1>0, <1>6 DEF SaveHits, MergesComeFirst, Measured, IsNext
<1>7. CASE SkipCoverage
  BY <1>0, <1>7 DEF SkipCoverage, MergesComeFirst, Measured, IsNext, EnterCrashes
<1>8. CASE Execute
  BY <1>0, <1>8 DEF Execute, MergesComeFirst, Measured, IsNext
<1>9. CASE MergedAll
  BY <1>0, <1>9 DEF MergedAll, MergesComeFirst, Measured, IsNext
<1>10. CASE Aggregate
  BY <1>0, <1>10 DEF Aggregate, MergesComeFirst, Measured, IsNext, EnterCrashes
<1>11. ASSUME NEW i \in DOMAIN schedule, NEW selected \in SUBSET Trials, Begin(i, selected)
      PROVE  MergesComeFirst'
  <2>1. cur = 0 /\ cur' = i /\ status[i] = "pending" /\ phase' = "detect" /\ UNCHANGED rows
    BY <1>0, <1>11 DEF Begin, TypeOK
  <2>2. \A t \in Trials : i \notin DOMAIN rows[t]
    BY <1>0, <2>1, RowIndices
  <2> QED
    BY <2>1, <2>2 DEF MergesComeFirst
<1>12. CASE Prepare
  <2>1. phase = "detect" /\ phase' = "save" /\ UNCHANGED <<rows, cur>>
    BY <1>12 DEF Prepare
  <2>2. \A t \in Trials : cur \notin DOMAIN rows[t]
    BY <1>0, <2>1, RowIndices
  <2> QED
    BY <2>1, <2>2 DEF MergesComeFirst
<1>13. ASSUME NEW t \in Trials, Save(t)
      PROVE  MergesComeFirst'
  <2>1. phase = "save" /\ UNCHANGED <<cur, phase, kept>>
    BY <1>13 DEF Save
  <2>2. /\ t \in DOMAIN kept /\ rows'[t][cur].kept = kept[t]
        /\ rows'[t][cur].cov = IF t \in Measured THEN {} ELSE Carried(t)
    BY <1>0, <1>13, SaveFacts, NewRowFields
  <2>3. \A u \in Trials \ {t} : rows'[u] = rows[u]
    BY <1>0, <1>13, SaveFacts
  <2>4. kept[t] \cap Corpus = {} \/ rows'[t][cur].cov = {}
    BY <2>2 DEF Measured
  <2> QED
    BY <1>0, <2>1, <2>2, <2>3, <2>4 DEF MergesComeFirst
<1>14. ASSUME NEW t \in Trials, Persist(t)
      PROVE  MergesComeFirst'
  <2>1. phase = "persist" /\ UNCHANGED <<cur, phase, kept, profile>>
    BY <1>14 DEF Persist
  <2>2. \A u \in Trials : DOMAIN rows'[u] = DOMAIN rows[u]
                        /\ \A i \in DOMAIN rows[u] : rows'[u][i].kept = rows[u][i].kept
    BY <1>0, <1>14, PersistFacts DEF RowFields
  <2> QED
    BY <1>0, <2>1, <2>2 DEF MergesComeFirst
<1>15. CASE PlanCoverage
  <2>1. phase = "save" /\ phase' = "execute" /\ UNCHANGED <<cur, kept, rows>>
    BY <1>15 DEF PlanCoverage
  <2> QED
    BY <1>0, <2>1 DEF MergesComeFirst
<1>16. ASSUME NEW t \in Trials, Merge(t)
      PROVE  MergesComeFirst'
  <2>1. phase = "merge" /\ todo' = todo \ {t} /\ UNCHANGED <<cur, kept, rows, phase, broken>>
    BY <1>16 DEF Merge
  <2>2. \A u \in Trials : profile'[u] = IF u = t THEN profile[u] \cup (kept[t] \cap Corpus) ELSE profile[u]
    BY <1>0, <1>16 DEF Merge, FrameOK
  <2>3. DOMAIN kept \subseteq Trials
    BY <1>0 DEF TypeOK
  <2> QED
    BY <1>0, <2>1, <2>2, <2>3 DEF MergesComeFirst
<1>17. CASE Complete \/ Raise
  <2>1. cur' = 0 /\ phase' \in {"idle", "over"} /\ UNCHANGED rows
    BY <1>17 DEF Complete, Raise, EndFrame
  <2>2. \A t \in Trials : 0 \notin DOMAIN rows[t]
    BY <1>0, RowIndices
  <2> QED
    BY <2>1, <2>2 DEF MergesComeFirst
<1>18. CASE UNCHANGED vars
  BY <1>0, <1>18 DEF vars, MergesComeFirst
<1> QED
  BY <1>1, <1>2, <1>3, <1>4, <1>5, <1>6, <1>7, <1>8, <1>9, <1>10, <1>11, <1>12, <1>13, <1>14, <1>15, <1>16, <1>17, <1>18 DEF Next

\* Profiles only grow, and only Save and Persist touch the rows.
LEMMA ProfilesGrow ==
  ASSUME LedgerInv, [Next]_vars, NEW t \in Trials
  PROVE  profile[t] \subseteq profile'[t]
<1> USE DEF LedgerInv, TypeOK, FrameOK, environment, tables
<1>1. CASE PlanCoverage
  BY <1>1 DEF PlanCoverage, Bootstrapped
<1>2. ASSUME NEW u \in Trials, Merge(u) PROVE profile[t] \subseteq profile'[t]
  BY <1>2 DEF Merge
<1>3. CASE UNCHANGED profile
  BY <1>3
<1> QED
  BY <1>1, <1>2, <1>3 DEF Next, vars, Tock, Stop, Write, Begin, Detect, Save, JobFails, Persist, SaveHits,
     Prepare, SkipCoverage, Execute, MergedAll, Aggregate, Complete, Raise

LEMMA RowsMove ==
  ASSUME [Next]_vars, ~ UNCHANGED rows
  PROVE  \E t \in Trials : Save(t) \/ Persist(t)
  BY DEF Next, vars, Tock, Stop, Write, Begin, Detect, JobFails, Merge, SaveHits, Prepare, PlanCoverage,
     SkipCoverage, Execute, MergedAll, Aggregate, Complete, Raise, tables

LEMMA PersistedNext == MergeInv /\ [Next]_vars => PersistedAfterMerges'
<1> SUFFICES ASSUME MergeInv, [Next]_vars,
                    NEW t \in Trials, NEW u \in Trials,
                    NEW i \in DOMAIN rows'[t] \cap DOMAIN rows'[u],
                    rows'[t][i].kept \cap Corpus # {}, rows'[t][i].cov # {}
             PROVE  rows'[u][i].kept \cap Corpus \subseteq profile'[u]
  BY DEF PersistedAfterMerges
<1>0. LedgerInv /\ TypeOK /\ FrameOK /\ MergesComeFirst /\ PersistedAfterMerges
  BY DEF MergeInv, LedgerInv
<1>1. profile[u] \subseteq profile'[u]
  BY <1>0, ProfilesGrow
<1>2. CASE UNCHANGED rows
  BY <1>0, <1>1, <1>2 DEF PersistedAfterMerges
<1>3. ASSUME NEW s \in Trials, Save(s)
      PROVE  rows'[u][i].kept \cap Corpus \subseteq profile'[u]
  <2>1. \A v \in Trials : \A j \in DOMAIN rows'[v] :
          j # cur \/ v # s => j \in DOMAIN rows[v] /\ rows'[v][j] = rows[v][j]
    BY <1>0, <1>3, SaveFacts
  <2>2. CASE i # cur
    BY <1>0, <1>1, <2>1, <2>2 DEF PersistedAfterMerges
  <2>3. CASE i = cur
    <3>1. t # s
      <4>1. /\ rows'[s][cur].kept = kept[s]
            /\ rows'[s][cur].cov = IF s \in Measured THEN {} ELSE Carried(s)
            /\ s \in DOMAIN kept
        BY <1>0, <1>3, SaveFacts, NewRowFields
      <4> QED
        BY <2>3, <4>1 DEF Measured
    <3>2. i \in DOMAIN rows[t] /\ rows'[t][i] = rows[t][i]
      BY <2>1, <3>1
    <3>3. phase = "save"
      BY <1>3 DEF Save
    <3> QED
      BY <1>0, <2>3, <3>2, <3>3 DEF MergesComeFirst
  <2> QED
    BY <2>2, <2>3
<1>4. ASSUME NEW s \in Trials, Persist(s)
      PROVE  rows'[u][i].kept \cap Corpus \subseteq profile'[u]
  <2>1. \A v \in Trials : /\ DOMAIN rows'[v] = DOMAIN rows[v]
                          /\ \A j \in DOMAIN rows[v] :
                               /\ rows'[v][j].kept = rows[v][j].kept
                               /\ j # cur => rows'[v][j].cov = rows[v][j].cov
    BY <1>0, <1>4, PersistFacts DEF RowFields
  <2>2. CASE i # cur
    BY <1>0, <1>1, <2>1, <2>2 DEF PersistedAfterMerges
  <2>3. CASE i = cur
    <3>1. phase = "persist"
      BY <1>4 DEF Persist
    <3>2. u \in DOMAIN kept /\ rows[u][cur].kept = kept[u]
      BY <1>0, <2>1, <2>3 DEF MergesComeFirst
    <3> QED
      BY <1>0, <1>1, <2>1, <2>3, <3>1, <3>2 DEF MergesComeFirst
  <2> QED
    BY <2>2, <2>3
<1> QED
  BY <1>2, <1>3, <1>4, RowsMove

LEMMA MergeInit == Init => MergeInv
<1> SUFFICES ASSUME Init PROVE MergeInv
  OBVIOUS
<1>1. LedgerInv
  BY InitInv
<1>2. \A t \in Trials : DOMAIN rows[t] = {}
  BY DEF Init, InitTables
<1> QED
  BY <1>1, <1>2 DEF Init, InitFrame, MergeInv, MergesComeFirst, PersistedAfterMerges

\* Coverage is persisted only after the merges of the tick, and a persisted row is of the
\* tick in hand or of an earlier one (MergeInv; coverage.py:118-152).
THEOREM MergeInvHolds == Spec => []MergeInv
<1>1. MergeInv /\ [Next]_vars => MergeInv'
  BY NextInv, MergesNext, PersistedNext DEF MergeInv
<1> QED
  BY <1>1, MergeInit, PTL DEF Spec

\* No row of a tick shows coverage unless the profiles of all its trials hold their
\* new corpus (PersistedAfterMerges; coverage.py:118-152).
THEOREM SummariesFollowMerges == Spec => []PersistedAfterMerges
<1>1. MergeInv => PersistedAfterMerges
  BY DEF MergeInv
<1> QED
  BY <1>1, MergeInvHolds, PTL

-----------------------------------------------------------------------------
(* Hits are complete.                                                        *)

\* The hits of a bug among the crash files of a snapshot, as the property counts them.
LEMMA HitFilesOfRow ==
  ASSUME NEW t \in Trials, NEW key, key # NotReproduced
  PROVE  HitFiles(t, key) = {f \in kept[t] \cap Crashes : BugOf[f] = key}
  BY DEF HitFiles, Reproduced

\* What storing some bugs of a snapshot does to the hits.
LEMMA SaveHitsFacts ==
  ASSUME NEW t \in Trials, SaveHits(t)
  PROVE  /\ \A id \in DOMAIN hits' :
              \/ id \in DOMAIN hits /\ hits'[id] = hits[id]
              \/ \E key \in KeysOf(t) : id = <<key, t, cur>> /\ hits'[id] = Cardinality(HitFiles(t, key))
         /\ DOMAIN hits \subseteq DOMAIN hits'
         /\ \/ \A key \in KeysOf(t) : <<key, t, cur>> \in DOMAIN hits'
            \/ broken' = TRUE
<1>1. PICK keys \in SUBSET KeysOf(t) : /\ hits' = UpsertHits(t, keys)
                                       /\ keys = KeysOf(t) \/ broken' = TRUE
  BY DEF SaveHits
<1> DEFINE ids == {<<key, t, cur>> : key \in keys}
<1>2. hits' = [id \in DOMAIN hits \cup ids |->
                 IF id \in ids THEN Cardinality(HitFiles(t, id[1])) ELSE hits[id]]
  BY <1>1 DEF UpsertHits
<1>3. DOMAIN hits' = DOMAIN hits \cup ids
  BY <1>2
<1>4. \A id \in DOMAIN hits' : id \notin ids => id \in DOMAIN hits /\ hits'[id] = hits[id]
  BY <1>2, <1>3
<1>5. \A id \in ids : \E key \in KeysOf(t) : id = <<key, t, cur>> /\ hits'[id] = Cardinality(HitFiles(t, key))
  BY <1>1, <1>2
<1> QED
  BY <1>1, <1>3, <1>4, <1>5

LEMMA HitTicksNext == HitsInv /\ [Next]_vars => HitsFollowTicks'
<1> SUFFICES ASSUME HitsInv, [Next]_vars
             PROVE  HitsFollowTicks'
  OBVIOUS
<1>0. LedgerInv /\ TypeOK /\ FrameOK /\ RowsFollowTicks /\ HitsFollowTicks
  BY DEF HitsInv, MergeInv, LedgerInv
<1> USE DEF environment, frame, tables
<1>1. CASE Tock
  BY <1>0, <1>1 DEF Tock, HitsFollowTicks, ScanPhases
<1>2. CASE Stop
  BY <1>0, <1>2 DEF Stop, HitsFollowTicks, KeysOf, Reproduced
<1>3. ASSUME NEW f \in Files, Write(f) PROVE HitsFollowTicks'
  BY <1>0, <1>3 DEF Write, HitsFollowTicks, ScanPhases
<1>4. ASSUME NEW i \in DOMAIN schedule, NEW selected \in SUBSET Trials, Begin(i, selected) PROVE HitsFollowTicks'
  BY <1>0, <1>4 DEF Begin, HitsFollowTicks, ScanPhases
<1>5. ASSUME NEW t \in Trials, Detect(t) PROVE HitsFollowTicks'
  BY <1>0, <1>5 DEF Detect, HitsFollowTicks, ScanPhases
<1>6. ASSUME NEW t \in Trials, JobFails(t) PROVE HitsFollowTicks'
  BY <1>0, <1>6 DEF JobFails, HitsFollowTicks, ScanPhases
<1>7. ASSUME NEW t \in Trials, Save(t) PROVE HitsFollowTicks'
  BY <1>0, <1>7 DEF Save, HitsFollowTicks, ScanPhases
<1>8. ASSUME NEW t \in Trials, Merge(t) PROVE HitsFollowTicks'
  BY <1>0, <1>8 DEF Merge, HitsFollowTicks, ScanPhases
<1>9. ASSUME NEW t \in Trials, Persist(t) PROVE HitsFollowTicks'
  BY <1>0, <1>9 DEF Persist, HitsFollowTicks, ScanPhases
<1>10. CASE Prepare
  BY <1>0, <1>10 DEF Prepare, HitsFollowTicks, ScanPhases
<1>11. CASE PlanCoverage
  BY <1>0, <1>11 DEF PlanCoverage, HitsFollowTicks, ScanPhases
<1>12. CASE Execute
  BY <1>0, <1>12 DEF Execute, HitsFollowTicks, ScanPhases
<1>13. CASE MergedAll
  BY <1>0, <1>13 DEF MergedAll, HitsFollowTicks, ScanPhases
<1>14. CASE SkipCoverage \/ Aggregate
  <2>1. /\ phase # "crashes" /\ phase' = "crashes" /\ todo' = Crashed
        /\ UNCHANGED <<status, cur, kept, hits>>
    BY <1>14 DEF SkipCoverage, Aggregate, EnterCrashes
  <2>2. \A t \in DOMAIN kept \ Crashed : KeysOf(t)' = {}
    BY <2>1 DEF Crashed, KeysOf, Reproduced
  <2> QED
    BY <1>0, <2>1, <2>2 DEF HitsFollowTicks
<1>15. ASSUME NEW t \in Trials, SaveHits(t)
      PROVE  HitsFollowTicks'
  <2>1. /\ phase = "crashes" /\ phase' = "crashes" /\ UNCHANGED <<status, cur, kept>>
        /\ broken' = TRUE \/ (broken' = broken /\ todo' = todo \ {t})
    BY <1>15 DEF SaveHits
  <2>2. cur \in DOMAIN status
    BY <1>0, <2>1 DEF TypeOK
  <2>3. \A id \in DOMAIN hits' : id \in DOMAIN hits \/ id[3] = cur
    <3> SUFFICES ASSUME NEW id \in DOMAIN hits', id \notin DOMAIN hits
                 PROVE  id[3] = cur
      OBVIOUS
    <3>1. PICK key \in KeysOf(t) : id = <<key, t, cur>>
      BY <1>15, SaveHitsFacts
    <3> QED
      BY <3>1
  <2>4. \A u : KeysOf(u)' = KeysOf(u)
    BY <2>1 DEF KeysOf, Reproduced
  <2>5. ~ broken' => \A u \in DOMAIN kept \ todo' : \A key \in KeysOf(u) : <<key, u, cur>> \in DOMAIN hits'
    <3> SUFFICES ASSUME ~ broken', NEW u \in DOMAIN kept \ todo', NEW key \in KeysOf(u)
                 PROVE  <<key, u, cur>> \in DOMAIN hits'
      OBVIOUS
    <3>1. CASE u = t
      BY <1>15, <3>1, SaveHitsFacts
    <3>2. CASE u # t
      <4>1. <<key, u, cur>> \in DOMAIN hits
        BY <1>0, <2>1, <3>2 DEF HitsFollowTicks
      <4> QED
        BY <1>15, <4>1, SaveHitsFacts
    <3> QED
      BY <3>1, <3>2
  <2> QED
    BY <1>0, <2>1, <2>2, <2>3, <2>4, <2>5 DEF HitsFollowTicks
<1>16. CASE Complete \/ Raise
  <2>1. /\ phase' # "crashes" /\ hits' = hits /\ cur \in DOMAIN status
        /\ status' = [status EXCEPT ![cur] = status'[cur]] /\ status'[cur] # "pending"
    BY <1>0, <1>16 DEF Complete, Raise, EndFrame, TypeOK
  <2>2. DOMAIN status' = DOMAIN status /\ \A i \in DOMAIN status \ {cur} : status'[i] = status[i]
    BY <2>1
  <2> QED
    BY <1>0, <2>1, <2>2 DEF HitsFollowTicks
<1>17. CASE UNCHANGED vars
  BY <1>0, <1>17 DEF vars, HitsFollowTicks, KeysOf, Reproduced
<1> QED
  BY <1>1, <1>2, <1>3, <1>4, <1>5, <1>6, <1>7, <1>8, <1>9, <1>10, <1>11, <1>12, <1>13, <1>14, <1>15, <1>16, <1>17 DEF Next

\* Only SaveHits touches the hits, only the end of a tick the statuses.
LEMMA HitsMove ==
  ASSUME [Next]_vars
  PROVE  /\ hits' = hits \/ \E t \in Trials : SaveHits(t)
         /\ status' = status \/ Complete \/ Raise
  BY DEF Next, vars, Tock, Stop, Write, Begin, Detect, Save, JobFails, Merge, Persist, SaveHits, Prepare,
     PlanCoverage, SkipCoverage, Execute, MergedAll, Aggregate, Complete, Raise, tables

LEMMA HitsNext == HitsInv /\ [Next]_vars => HitsAreComplete'
<1> DEFINE Keys == {BugOf[f] : f \in Crashes} \ {NotReproduced}
           OfRow(row, key) == {f \in row.kept \cap Crashes : BugOf[f] = key}
<1> SUFFICES ASSUME HitsInv, [Next]_vars, NEW key \in Keys, NEW t \in Trials, NEW i \in DOMAIN rows'[t]
             PROVE  /\ <<key, t, i>> \in DOMAIN hits' =>
                           hits'[<<key, t, i>>] = Cardinality(OfRow(rows'[t][i], key))
                    /\ status'[i] = "completed" /\ Cardinality(OfRow(rows'[t][i], key)) > 0 =>
                           <<key, t, i>> \in DOMAIN hits'
  BY DEF HitsAreComplete
<1>0. LedgerInv /\ TypeOK /\ FrameOK /\ RowsFollowTicks /\ MergesComeFirst /\ HitsFollowTicks /\ HitsAreComplete
  BY DEF HitsInv, MergeInv, LedgerInv
<1>1. \A s \in Trials : \A j \in DOMAIN rows[s] :
        /\ <<key, s, j>> \in DOMAIN hits => hits[<<key, s, j>>] = Cardinality(OfRow(rows[s][j], key))
        /\ status[j] = "completed" /\ Cardinality(OfRow(rows[s][j], key)) > 0 => <<key, s, j>> \in DOMAIN hits
  BY <1>0 DEF HitsAreComplete
<1> HIDE DEF Keys
<1>2. ASSUME NEW s \in Trials, Save(s)
      PROVE  /\ <<key, t, i>> \in DOMAIN hits' =>
                    hits'[<<key, t, i>>] = Cardinality(OfRow(rows'[t][i], key))
             /\ status'[i] = "completed" /\ Cardinality(OfRow(rows'[t][i], key)) > 0 =>
                    <<key, t, i>> \in DOMAIN hits'
  <2>1. UNCHANGED <<hits, status>> /\ phase = "save"
    BY <1>2 DEF Save
  <2>2. CASE t = s /\ i = cur
    <3>1. status[cur] = "pending"
      BY <1>0, <1>2, SaveFacts DEF RowsFollowTicks
    <3>2. <<key, t, cur>> \notin DOMAIN hits
      <4>1. ASSUME <<key, t, cur>> \in DOMAIN hits PROVE FALSE
        BY <1>0, <2>1, <3>1, <4>1 DEF HitsFollowTicks
      <4> QED
        BY <4>1
    <3> QED
      BY <2>1, <2>2, <3>1, <3>2
  <2>3. CASE ~ (t = s /\ i = cur)
    <3>1. i \in DOMAIN rows[t] /\ rows'[t][i] = rows[t][i]
      BY <1>0, <1>2, <2>3, SaveFacts
    <3> QED
      BY <1>1, <2>1, <3>1
  <2> QED
    BY <2>2, <2>3
<1>3. ASSUME NEW s \in Trials, Persist(s)
      PROVE  /\ <<key, t, i>> \in DOMAIN hits' =>
                    hits'[<<key, t, i>>] = Cardinality(OfRow(rows'[t][i], key))
             /\ status'[i] = "completed" /\ Cardinality(OfRow(rows'[t][i], key)) > 0 =>
                    <<key, t, i>> \in DOMAIN hits'
  <2>1. UNCHANGED <<hits, status>>
    BY <1>3 DEF Persist
  <2>2. i \in DOMAIN rows[t] /\ rows'[t][i].kept = rows[t][i].kept
    BY <1>0, <1>3, PersistFacts DEF RowFields
  <2>3. OfRow(rows'[t][i], key) = OfRow(rows[t][i], key)
    BY <2>2
  <2> QED
    BY <1>1, <2>1, <2>2, <2>3
<1>4. ASSUME NEW s \in Trials, SaveHits(s)
      PROVE  /\ <<key, t, i>> \in DOMAIN hits' =>
                    hits'[<<key, t, i>>] = Cardinality(OfRow(rows'[t][i], key))
             /\ status'[i] = "completed" /\ Cardinality(OfRow(rows'[t][i], key)) > 0 =>
                    <<key, t, i>> \in DOMAIN hits'
  <2>1. UNCHANGED <<rows, status>>
    BY <1>4 DEF SaveHits
  <2>2. DOMAIN hits \subseteq DOMAIN hits'
    BY <1>4, SaveHitsFacts
  <2>3. ASSUME <<key, t, i>> \in DOMAIN hits'
        PROVE  hits'[<<key, t, i>>] = Cardinality(OfRow(rows[t][i], key))
    <3>1. CASE <<key, t, i>> \in DOMAIN hits /\ hits'[<<key, t, i>>] = hits[<<key, t, i>>]
      BY <1>1, <2>1, <3>1
    <3>2. CASE \E k \in KeysOf(s) : /\ <<key, t, i>> = <<k, s, cur>>
                                     /\ hits'[<<key, t, i>>] = Cardinality(HitFiles(s, k))
      <4>1. /\ key \in KeysOf(s) /\ t = s /\ i = cur
            /\ hits'[<<key, t, i>>] = Cardinality(HitFiles(s, key))
        BY <3>2
      <4>2. key # NotReproduced
        BY DEF Keys
      <4>3. rows[t][cur].kept = kept[t]
        BY <1>0, <2>1, <4>1 DEF MergesComeFirst
      <4>4. HitFiles(t, key) = OfRow(rows[t][i], key)
        BY <4>1, <4>2, <4>3, HitFilesOfRow
      <4> QED
        BY <4>1, <4>4
    <3> QED
      BY <1>4, <2>3, <3>1, <3>2, SaveHitsFacts
  <2> QED
    BY <1>1, <2>1, <2>2, <2>3
<1>5. CASE Complete /\ hits' = hits /\ rows' = rows
  <2>1. /\ phase = "crashes" /\ ~ broken /\ todo = {} /\ cur \in DOMAIN status
        /\ status' = [status EXCEPT ![cur] = "completed"]
    BY <1>0, <1>5 DEF Complete, TypeOK
  <2>2. CASE i # cur
    <3>1. status'[i] = status[i]
      BY <2>1, <2>2
    <3> QED
      BY <1>1, <1>5, <3>1
  <2>3. CASE i = cur
    <3>1. t \in DOMAIN kept /\ rows[t][cur].kept = kept[t]
      BY <1>0, <1>5, <2>3 DEF MergesComeFirst
    <3>2. ASSUME Cardinality(OfRow(rows[t][cur], key)) > 0
          PROVE  <<key, t, cur>> \in DOMAIN hits
      <4>1. OfRow(rows[t][cur], key) # {}
        BY <3>2, FS_EmptySet
      <4>2. PICK f \in kept[t] \cap Crashes : BugOf[f] = key
        BY <3>1, <4>1
      <4>3. key # NotReproduced
        BY DEF Keys
      <4>4. key \in KeysOf(t)
        BY <4>2, <4>3 DEF KeysOf, Reproduced
      <4> QED
        BY <1>0, <2>1, <3>1, <4>4 DEF HitsFollowTicks
    <3> QED
      BY <1>1, <1>5, <2>3, <3>2
  <2> QED
    BY <2>2, <2>3
<1>6. CASE Raise /\ hits' = hits /\ rows' = rows
  <2>1. status'[i] = "completed" => status[i] = "completed"
    BY <1>0, <1>6 DEF Raise, TypeOK
  <2> QED
    BY <1>1, <1>6, <2>1
<1>7. CASE UNCHANGED <<rows, hits, status>>
  BY <1>1, <1>7
<1>8. (Complete \/ Raise) => hits' = hits /\ rows' = rows
  BY DEF Complete, Raise, tables
<1> QED
  BY <1>2, <1>3, <1>4, <1>5, <1>6, <1>7, <1>8, RowsMove, HitsMove

LEMMA HitsInit == Init => HitsInv
<1> SUFFICES ASSUME Init PROVE HitsInv
  OBVIOUS
<1>1. MergeInv
  BY MergeInit
<1>2. DOMAIN hits = {} /\ \A t \in Trials : DOMAIN rows[t] = {}
  BY DEF Init, InitTables, NoTrial
<1>3. phase = "idle"
  BY DEF Init, InitFrame
<1> QED
  BY <1>1, <1>2, <1>3 DEF HitsInv, HitsFollowTicks, HitsAreComplete

\* The hits belong to ticks that were begun, and a trial that has left the list of the
\* crash phase has all of its hits stored (HitsInv; bugs.py:60-110).
THEOREM HitsInvHolds == Spec => []HitsInv
<1>1. HitsInv /\ [Next]_vars => HitsInv'
  BY NextInv, MergesNext, PersistedNext, HitTicksNext, HitsNext DEF HitsInv, MergeInv
<1> QED
  BY <1>1, HitsInit, PTL DEF Spec

\* Hits of a snapshot are stored whole, and those of a completed tick all
\* (HitsAreComplete; bugs.py:97).
THEOREM HitsComplete == Spec => []HitsAreComplete
<1>1. HitsInv => HitsAreComplete
  BY DEF HitsInv
<1> QED
  BY <1>1, HitsInvHolds, PTL

-----------------------------------------------------------------------------
(* The rows of the tick in hand.                                             *)

LEMMA FrameRowsInit == Init => RowsOfFrame
<1> SUFFICES ASSUME Init PROVE RowsOfFrame
  OBVIOUS
<1>1. phase = "idle" /\ DOMAIN kept = {} /\ \A t \in Trials : DOMAIN rows[t] = {}
  BY DEF Init, InitFrame, InitTables, NoTrial
<1> QED
  BY <1>1 DEF RowsOfFrame

\* The inserted row, as to the row it follows and the dates of its crashes.
LEMMA NewRowHistory ==
  ASSUME NEW t \in Trials
  PROVE  /\ NewRow(t).prev = before[t]
         /\ NewRow(t).dates = [f \in kept[t] \cap Crashes |-> Floor(Mtime(f))]
  BY DEF NewRow

\* A step that leaves the rows and the profiles alone and goes on in its phase.
LEMMA QuietFrame ==
  ASSUME RowsOfFrame, UNCHANGED <<rows, profile, cur, phase, before, found, kept>>,
         phase \in {"save", "persist"} /\ broken => broken',
         phase \in {"detect", "save", "persist"} => todo' = todo \/ (phase = "save" /\ broken'),
         phase # "crashes" => todo' \subseteq todo
  PROVE  RowsOfFrame'
<1>1. \A t : LatestRow(t)' = LatestRow(t)
  BY DEF LatestRow
<1> QED
  BY <1>1 DEF RowsOfFrame, Staged, Measured, CoverPhases

LEMMA FrameRowsNext == MergeInv /\ RowsOfFrame /\ [Next]_vars => RowsOfFrame'
<1> SUFFICES ASSUME MergeInv, RowsOfFrame, [Next]_vars
             PROVE  RowsOfFrame'
  OBVIOUS
<1>0. LedgerInv /\ TypeOK /\ FrameOK /\ RowsFollowTicks /\ MergesComeFirst
  BY DEF MergeInv, LedgerInv
<1> USE DEF environment, frame, tables
<1>1. CASE Tock
  BY <1>1, QuietFrame DEF Tock
<1>2. CASE Stop
  BY <1>2, QuietFrame DEF Stop
<1>3. ASSUME NEW f \in Files, Write(f) PROVE RowsOfFrame'
  BY <1>3, QuietFrame DEF Write
<1>4. ASSUME NEW t \in Trials, JobFails(t) PROVE RowsOfFrame'
  BY <1>4, QuietFrame DEF JobFails, IsNext
<1>5. ASSUME NEW t \in Trials, SaveHits(t) PROVE RowsOfFrame'
  BY <1>5, QuietFrame DEF SaveHits
<1>6. ASSUME NEW i \in DOMAIN schedule, NEW selected \in SUBSET Trials, Begin(i, selected)
      PROVE  RowsOfFrame'
  <2>1. /\ cur = 0 /\ cur' = i /\ status[i] = "pending" /\ phase' = "detect" /\ UNCHANGED rows
        /\ DOMAIN kept' = selected /\ todo' = selected
    BY <1>0, <1>6 DEF Begin, TypeOK
  <2>2. \A t \in Trials : i \notin DOMAIN rows[t]
    BY <1>0, <2>1, RowIndices
  <2> QED
    BY <2>1, <2>2 DEF RowsOfFrame, Staged, CoverPhases
<1>7. ASSUME NEW t \in Trials, Detect(t)
      PROVE  RowsOfFrame'
  <2>1. /\ phase = "detect" /\ phase' = "detect" /\ t \in todo /\ todo' = todo \ {t}
        /\ before' = [before EXCEPT ![t] = LatestRow(t)] /\ UNCHANGED <<rows, kept, cur>>
    BY <1>7 DEF Detect, IsNext
  <2>2. \A u : LatestRow(u)' = LatestRow(u)
    BY <2>1 DEF LatestRow
  <2>3. \A u \in DOMAIN kept : before'[u] = IF u = t THEN LatestRow(t) ELSE before[u]
    BY <1>0, <2>1 DEF TypeOK
  <2>4. \A u \in Trials : cur \notin DOMAIN rows[u]
    BY <1>0, <2>1, RowIndices
  <2> QED
    BY <2>1, <2>2, <2>3, <2>4 DEF RowsOfFrame, Staged, CoverPhases
<1>8. CASE Prepare
  <2>1. /\ phase = "detect" /\ phase' = "save" /\ todo = {} /\ todo' = DOMAIN found
        /\ DOMAIN kept' = DOMAIN found /\ UNCHANGED <<rows, cur, before, found>>
        /\ \A t \in DOMAIN found : kept'[t] \subseteq FilesIn(found[t])
    BY <1>8 DEF Prepare
  <2>2. \A u : LatestRow(u)' = LatestRow(u)
    BY <2>1 DEF LatestRow
  <2>3. \A u \in Trials : cur \notin DOMAIN rows[u]
    BY <1>0, <2>1, RowIndices
  <2>4. DOMAIN kept = DOMAIN found
    BY <1>0 DEF TypeOK
  <2> QED
    BY <2>1, <2>2, <2>3, <2>4 DEF RowsOfFrame, Staged, CoverPhases, FilesIn
<1>9. ASSUME NEW t \in Trials, Save(t)
      PROVE  RowsOfFrame'
  <2>1. /\ phase = "save" /\ phase' = "save" /\ t \in todo /\ t \in DOMAIN kept /\ todo' = todo \ {t}
        /\ UNCHANGED <<cur, broken, before, found, kept>>
    BY <1>0, <1>9, SaveFacts DEF Save
  <2>2. \A u \in Trials \ {t} : rows'[u] = rows[u] /\ LatestRow(u)' = LatestRow(u)
    BY <1>0, <1>9, SaveFacts DEF LatestRow
  <2>3. /\ DOMAIN rows'[t] = DOMAIN rows[t] \cup {cur}
        /\ rows'[t][cur].prev = before[t]
    BY <1>0, <1>9, SaveFacts, NewRowHistory
  <2>4. before[t] = LatestRow(t)
    BY <2>1 DEF RowsOfFrame, Staged
  <2>5. before[t] \in Nat /\ \A j \in DOMAIN rows[t] : j <= before[t]
    BY <1>0, <2>4, LatestIsLast DEF FrameOK
  <2>6. DOMAIN kept \subseteq Trials
    BY <1>0 DEF TypeOK
  <2> QED
    BY <2>1, <2>2, <2>3, <2>5, <2>6 DEF RowsOfFrame, Staged, CoverPhases
<1>10. CASE PlanCoverage
  BY <1>10 DEF PlanCoverage, RowsOfFrame, Staged, Measured, CoverPhases
<1>11. CASE SkipCoverage
  BY <1>11 DEF SkipCoverage, EnterCrashes, RowsOfFrame, Staged, Measured, CoverPhases
<1>12. CASE Execute
  BY <1>12 DEF Execute, RowsOfFrame, Staged, Measured, CoverPhases
<1>13. ASSUME NEW t \in Trials, Merge(t) PROVE RowsOfFrame'
  BY <1>13 DEF Merge, RowsOfFrame, Staged, Measured, CoverPhases
<1>14. CASE MergedAll
  BY <1>14 DEF MergedAll, RowsOfFrame, Staged, Measured, CoverPhases
<1>15. ASSUME NEW t \in Trials, Persist(t)
      PROVE  RowsOfFrame'
  <2>1. /\ phase = "persist" /\ phase' = "persist" /\ todo' = todo \ {t}
        /\ UNCHANGED <<cur, found, kept, profile>>
    BY <1>15 DEF Persist
  <2>2. \A u \in Trials : /\ DOMAIN rows'[u] = DOMAIN rows[u]
                          /\ \A i \in DOMAIN rows[u] :
                               /\ rows'[u][i].prev = rows[u][i].prev
                               /\ rows'[u][i].cov = IF u = t /\ i = cur THEN profile[t] ELSE rows[u][i].cov
    BY <1>0, <1>15, PersistFacts DEF RowFields
  <2>3. DOMAIN kept \subseteq Trials
    BY <1>0 DEF TypeOK
  <2> QED
    BY <2>1, <2>2, <2>3 DEF RowsOfFrame, Staged, Measured, CoverPhases
<1>16. CASE Aggregate
  <2>1. /\ phase = "persist" /\ phase' = "crashes" /\ todo = {}
        /\ UNCHANGED <<cur, found, kept, profile, rows>>
    BY <1>16 DEF Aggregate, EnterCrashes
  <2> QED
    BY <2>1 DEF RowsOfFrame, Staged, Measured, CoverPhases
<1>17. CASE Complete \/ Raise
  <2>1. cur' = 0 /\ phase' \in {"idle", "over"} /\ DOMAIN kept' = {} /\ UNCHANGED rows
    BY <1>17 DEF Complete, Raise, EndFrame, NoTrial
  <2>2. \A t \in Trials : 0 \notin DOMAIN rows[t]
    BY <1>0, RowIndices
  <2> QED
    BY <2>1, <2>2 DEF RowsOfFrame
<1>18. CASE UNCHANGED vars
  BY <1>18, QuietFrame DEF vars
<1> QED
  BY <1>1, <1>2, <1>3, <1>4, <1>5, <1>6, <1>7, <1>8, <1>9, <1>10, <1>11, <1>12, <1>13, <1>14, <1>15, <1>16, <1>17, <1>18 DEF Next

-----------------------------------------------------------------------------
(* Campaign summaries.                                                       *)

\* Directories, ticks and the mode stay, so start times do.
LEMMA Settled ==
  ASSUME [Next]_vars
  PROVE  UNCHANGED <<mode, root, schedule>> /\ \A t : StartTs(t)' = StartTs(t)
<1>1. UNCHANGED <<mode, root, schedule>>
  BY DEF Next, vars, environment, Tock, Stop, Write, Begin, Detect, Save, JobFails, Merge, Persist, SaveHits, Prepare,
     PlanCoverage, SkipCoverage, Execute, MergedAll, Aggregate, Complete, Raise
<1> QED
  BY <1>1 DEF StartTs

LEMMA AggMoves ==
  ASSUME [Next]_vars
  PROVE  agg' = agg \/ Aggregate
  BY DEF Next, vars, tables, Tock, Stop, Write, Begin, Detect, Save, JobFails, Merge, Persist, SaveHits, Prepare,
     PlanCoverage, SkipCoverage, Execute, MergedAll, Complete, Raise

\* The tick in hand and the statuses change only when a tick begins and ends.
LEMMA TicksMove ==
  ASSUME [Next]_vars
  PROVE  \/ UNCHANGED <<cur, status>> /\ (phase = "crashes" => phase' = "crashes")
         \/ Complete \/ Raise
         \/ \E i \in DOMAIN schedule, selected \in SUBSET Trials : Begin(i, selected)
  BY DEF Next, vars, frame, Tock, Stop, Write, Detect, Save, JobFails, Merge, Persist, SaveHits, Prepare,
     PlanCoverage, SkipCoverage, Execute, MergedAll, Aggregate, EnterCrashes

\* The end of a tick, as to the statuses.
LEMMA TickEnds ==
  ASSUME LedgerInv, Complete \/ Raise
  PROVE  /\ cur' = 0 /\ cur \in DOMAIN status /\ DOMAIN status' = DOMAIN status
         /\ status'[cur] \notin {"pending"} /\ (Raise => status'[cur] # "completed")
         /\ \A i \in DOMAIN status \ {cur} : status'[i] = status[i]
         /\ DOMAIN kept' = {} /\ phase' \in {"idle", "over"} /\ UNCHANGED <<environment, tables>>
<1> USE DEF LedgerInv, TypeOK
<1>1. cur \in DOMAIN status /\ cur' = 0 /\ DOMAIN kept' = {} /\ phase' \in {"idle", "over"} /\ UNCHANGED <<environment, tables>>
  BY DEF Complete, Raise, EndFrame, NoTrial
<1>2. \/ Complete /\ status' = [status EXCEPT ![cur] = "completed"]
      \/ Raise /\ status' = [status EXCEPT ![cur] = IF stopping THEN "aborted" ELSE "failed"]
  BY DEF Complete, Raise
<1>3. Raise => phase \notin {"idle", "over"} /\ status' = [status EXCEPT ![cur] = IF stopping THEN "aborted" ELSE "failed"]
  BY DEF Raise
<1> QED
  BY <1>1, <1>2, <1>3

LEMMA CampaignNext == CampaignInv /\ [Next]_vars => CampaignFollowsTicks'
<1> SUFFICES ASSUME CampaignInv, [Next]_vars
             PROVE  CampaignFollowsTicks'
  OBVIOUS
<1>0. LedgerInv /\ TypeOK /\ FrameOK /\ RowsFollowTicks /\ CampaignFollowsTicks
  BY DEF CampaignInv, MergeInv, LedgerInv
<1>1. UNCHANGED <<mode, root, schedule>> /\ \A t : StartTs(t)' = StartTs(t)
  BY Settled
<1>2. DOMAIN status = DOMAIN schedule /\ DOMAIN schedule = 1..Len(schedule) /\ Len(schedule) \in Nat
  BY <1>0 DEF TypeOK, FrameOK
<1>3. ASSUME mode = "replay",
             NEW i \in DOMAIN status', NEW j \in DOMAIN status', i < j, status'[i] = "pending"
      PROVE  status'[j] = "pending" /\ j # cur'
  <2>1. CASE UNCHANGED <<cur, status>>
    BY <1>0, <1>3, <2>1 DEF CampaignFollowsTicks
  <2>2. CASE Complete \/ Raise
    <3>1. DOMAIN status' = DOMAIN status /\ cur' = 0 /\ j # 0
      BY <1>0, <1>2, <2>2, TickEnds
    <3>2. i # cur /\ status[i] = "pending"
      BY <1>0, <1>3, <2>2, <3>1, TickEnds
    <3>3. status[j] = "pending" /\ j # cur
      BY <1>0, <1>3, <3>1, <3>2 DEF CampaignFollowsTicks
    <3> QED
      BY <1>0, <2>2, <3>1, <3>3, TickEnds
  <2>3. ASSUME NEW k \in DOMAIN schedule, NEW selected \in SUBSET Trials, Begin(k, selected)
        PROVE  status'[j] = "pending" /\ j # cur'
    <3>1. cur' = k /\ UNCHANGED status /\ \A h \in 1..(k - 1) : status[h] # "pending"
      BY <1>3, <2>3 DEF Begin
    <3>2. i \in DOMAIN status /\ j \in DOMAIN status /\ status[i] = "pending"
      BY <1>3, <3>1
    <3>3. j # k
      BY <1>2, <1>3, <3>1, <3>2
    <3> QED
      BY <1>0, <1>3, <3>1, <3>2, <3>3 DEF CampaignFollowsTicks
  <2> QED
    BY <2>1, <2>2, <2>3, TicksMove
<1>4. ASSUME NEW j \in DOMAIN agg'
      PROVE  status'[j] # "pending" \/ (j = cur' /\ phase' = "crashes")
  <2>1. CASE Aggregate
    <3>1. DOMAIN agg' = DOMAIN agg \cup {cur} /\ phase' = "crashes" /\ UNCHANGED <<cur, status>>
      BY <2>1 DEF Aggregate, Put, EnterCrashes
    <3> QED
      BY <1>0, <1>4, <3>1 DEF CampaignFollowsTicks
  <2>2. CASE agg' = agg
    <3>1. j \in DOMAIN schedule /\ (status[j] # "pending" \/ (j = cur /\ phase = "crashes"))
      BY <1>0, <1>4, <2>2 DEF CampaignFollowsTicks, TypeOK
    <3>2. CASE UNCHANGED <<cur, status>> /\ (phase = "crashes" => phase' = "crashes")
      BY <3>1, <3>2
    <3>3. CASE Complete \/ Raise
      BY <1>0, <1>2, <3>1, <3>3, TickEnds
    <3>4. ASSUME NEW k \in DOMAIN schedule, NEW selected \in SUBSET Trials, Begin(k, selected)
          PROVE  status'[j] # "pending"
      BY <3>1, <3>4 DEF Begin
    <3> QED
      BY <3>2, <3>3, <3>4, TicksMove
  <2> QED
    BY <2>1, <2>2, AggMoves
<1>5. ASSUME NEW j \in DOMAIN agg'
      PROVE  agg'[j] \subseteq UNION {profile'[t] : t \in {u \in Trials : mode = "live" \/ StartTs(u) <= schedule[j]}}
  <2>1. \A t \in Trials : profile[t] \subseteq profile'[t]
    BY <1>0, ProfilesGrow
  <2>2. CASE j \in DOMAIN agg /\ agg'[j] = agg[j]
    <3>1. agg[j] \subseteq UNION {profile[t] : t \in {u \in Trials : mode = "live" \/ StartTs(u) <= schedule[j]}}
      BY <1>0, <2>2 DEF CampaignFollowsTicks
    <3> QED
      BY <2>1, <2>2, <3>1
  <2>3. CASE Aggregate /\ j = cur
    <3>1. agg'[j] = UNION {profile[t] : t \in {u \in Trials : mode = "live" \/ StartTs(u) <= schedule[j]}}
      BY <2>3 DEF Aggregate, Put, CampaignCoverage, CampaignTrials
    <3> QED
      BY <2>1, <3>1
  <2>4. Aggregate /\ j # cur => j \in DOMAIN agg /\ agg'[j] = agg[j]
    BY <1>5 DEF Aggregate, Put
  <2> QED
    BY <1>5, <2>2, <2>3, <2>4, AggMoves
<1> QED
  BY <1>1, <1>3, <1>4, <1>5 DEF CampaignFollowsTicks

LEMMA CampaignInit == Init => CampaignInv
<1> SUFFICES ASSUME Init PROVE CampaignInv
  OBVIOUS
<1>1. cur = 0 /\ DOMAIN agg = {} /\ status = [i \in DOMAIN schedule |-> "pending"]
  BY DEF Init, InitFrame, InitTables, NoTrial
<1>2. 0 \notin DOMAIN status
  BY <1>1, MergeInit DEF MergeInv, LedgerInv, FrameOK
<1> QED
  BY <1>1, <1>2, MergeInit, FrameRowsInit DEF CampaignInv, CampaignFollowsTicks

\* Campaign summaries lie below the profiles of their trials, and a replay takes its
\* ticks in turn (CampaignInv; coverage.py:154-227, scheduler.py:505-545).
THEOREM CampaignInvHolds == Spec => []CampaignInv
<1>1. CampaignInv /\ [Next]_vars => CampaignInv'
  BY NextInv, MergesNext, PersistedNext, FrameRowsNext, CampaignNext DEF CampaignInv, MergeInv
<1> QED
  BY <1>1, CampaignInit, PTL DEF Spec

LEMMA CampaignStep ==
  ASSUME CampaignInv, [Next]_vars, NEW i \in DOMAIN agg' \ DOMAIN agg
  PROVE  /\ \A j \in DOMAIN agg : agg[j] \subseteq agg'[i]
         /\ \A t \in Trials : i \in DOMAIN rows[t] /\ rows[t][i].kept \cap Corpus # {}
              => rows[t][i].cov # {} /\ rows[t][i].cov \subseteq agg'[i]
<1>0. LedgerInv /\ TypeOK /\ FrameOK /\ RowsFollowTicks /\ WindowsAreStaged
      /\ MergesComeFirst /\ RowsOfFrame /\ CampaignFollowsTicks
  BY DEF CampaignInv, MergeInv, LedgerInv
<1>1. /\ Aggregate /\ i = cur /\ phase = "persist" /\ todo = {}
      /\ agg'[cur] = UNION {profile[t] : t \in {u \in Trials : mode = "live" \/ StartTs(u) <= schedule[cur]}}
  BY AggMoves DEF Aggregate, Put, CampaignCoverage, CampaignTrials
<1>2. cur \in DOMAIN schedule /\ status[cur] = "pending" /\ mode \in {"live", "replay"}
  BY <1>0, <1>1, MeasurementAssumption DEF TypeOK, RowsFollowTicks
<1>3. ASSUME NEW j \in DOMAIN agg
      PROVE  agg[j] \subseteq agg'[i]
  <2>1. j \in DOMAIN schedule /\ status[j] # "pending"
    BY <1>0, <1>1 DEF CampaignFollowsTicks, TypeOK
  <2>2. mode = "replay" => schedule[j] < schedule[cur]
    <3>1. ASSUME mode = "replay" PROVE schedule[j] < schedule[cur]
      <4>1. DOMAIN schedule = 1..Len(schedule) /\ Len(schedule) \in Nat /\ DOMAIN status = DOMAIN schedule
        BY <1>0 DEF FrameOK, TypeOK
      <4>2. ~ (cur < j)
        BY <1>0, <1>2, <2>1, <3>1, <4>1 DEF CampaignFollowsTicks
      <4>3. j < cur
        BY <1>2, <2>1, <4>1, <4>2
      <4> QED
        BY <1>0, <1>2, <2>1, <4>3 DEF RowsFollowTicks
    <3> QED
      BY <3>1
  <2>3. \A t \in Trials : mode = "live" \/ StartTs(t) <= schedule[j] => mode = "live" \/ StartTs(t) <= schedule[cur]
    <3>1. schedule[j] \in Int /\ schedule[cur] \in Int
      BY <1>0, <1>2, <2>1 DEF FrameOK
    <3>2. \A t \in Trials : StartTs(t) \in Int
      BY <1>0, StartType, TimesFromTypes
    <3> QED
      BY <1>2, <2>2, <3>1, <3>2
  <2>4. agg[j] \subseteq UNION {profile[t] : t \in {u \in Trials : mode = "live" \/ StartTs(u) <= schedule[j]}}
    BY <1>0 DEF CampaignFollowsTicks
  <2> QED
    BY <1>1, <2>3, <2>4
<1>4. ASSUME NEW t \in Trials, cur \in DOMAIN rows[t], rows[t][cur].kept \cap Corpus # {}
      PROVE  rows[t][cur].cov # {} /\ rows[t][cur].cov \subseteq agg'[cur]
  <2>1. t \in DOMAIN kept /\ kept[t] \cap Corpus # {} /\ t \in Measured
    BY <1>0, <1>4 DEF MergesComeFirst, Measured
  <2>2. rows[t][cur].cov = profile[t] /\ profile[t] # {}
    BY <1>0, <1>1, <1>4, <2>1 DEF RowsOfFrame, MergesComeFirst
  <2>3. StartTs(t) <= schedule[cur]
    BY <1>0, <1>1, <2>1 DEF WindowsAreStaged, TypeOK
  <2> QED
    BY <1>1, <2>2, <2>3
<1> QED
  BY <1>1, <1>3, <1>4

\* Every new campaign summary covers the rows of its tick and every summary before it,
\* although ticks may be aborted, overtaken or leave trials out
\* (CampaignCoverageGrows; coverage.py:154-227).
THEOREM CampaignsGrow == Spec => CampaignCoverageGrows
<1>1. CampaignInv /\ [Next]_vars =>
        [\A i \in DOMAIN agg' \ DOMAIN agg :
           /\ \A j \in DOMAIN agg : agg[j] \subseteq agg'[i]
           /\ \A t \in Trials : i \in DOMAIN rows[t] /\ rows[t][i].kept \cap Corpus # {}
                => rows[t][i].cov # {} /\ rows[t][i].cov \subseteq agg'[i]]_<<agg, rows>>
  BY CampaignStep
<1> QED
  BY <1>1, CampaignInvHolds, PTL DEF Spec, CampaignCoverageGrows

-----------------------------------------------------------------------------
(* Cumulative coverage.                                                      *)

\* A step that leaves the rows, the profiles and the frame of the tick alone.
LEMMA QuietCoverage ==
  ASSUME CoverageFollowsTicks, UNCHANGED <<rows, profile, status, cur, phase, kept>>,
         phase = "merge" => (todo' = todo /\ broken' = broken) \/ (todo' \subseteq todo /\ broken')
  PROVE  CoverageFollowsTicks'
<1>1. \A t : Sound(t)' = Sound(t) /\ Earlier(t)' = Earlier(t) /\ Bootstraps(t)' = Bootstraps(t)
  BY DEF Sound, Earlier, Bootstraps, Measured, CoverPhases
<1>2. Measured' = Measured
  BY DEF Measured
<1>3. ASSUME NEW t \in Trials, ProfileFollowsRows(t)
      PROVE  ProfileFollowsRows(t)'
  BY <1>1, <1>3 DEF ProfileFollowsRows, Merges, Corpus
<1> QED
  BY <1>1, <1>2, <1>3 DEF CoverageFollowsTicks

\* The coverage that is carried forward in order is that of all rows so far.
LEMMA CarriedIsWhole ==
  ASSUME MergeInv, CumulativeCoverage, NEW t \in Trials,
         Sound(t), before[t] = LatestRow(t), cur \in DOMAIN schedule, cur \notin DOMAIN rows[t]
  PROVE  Carried(t) = SeedCoverage \cup Earlier(t)
<1>0. TypeOK /\ FrameOK /\ RowsFollowTicks
  BY DEF MergeInv, LedgerInv
<1> DEFINE L == LatestRow(t)
           Whole == SeedCoverage \cup Earlier(t)
           known == {i \in DOMAIN rows[t] \ {cur} : rows[t][i].cov # {}}
<1>1. CASE DOMAIN rows[t] = {}
  <2>1. L = 0 /\ Earlier(t) = {}
    BY <1>0, <1>1, LatestIsLast DEF Earlier
  <2> QED
    BY <2>1 DEF Carried
<1>2. CASE DOMAIN rows[t] # {}
  <2>0. DOMAIN rows[t] \subseteq DOMAIN schedule /\ DOMAIN schedule = 1..Len(schedule) /\ Len(schedule) \in Nat
    BY <1>0 DEF TypeOK, FrameOK
  <2>1. L \in DOMAIN rows[t] /\ \A i \in DOMAIN rows[t] : i <= L
    BY <1>0, <1>2, LatestIsLast
  <2>2. L # 0 /\ Carried(t) = PreviousCoverage(t)
    BY <2>0, <2>1 DEF Carried
  <2>3. \A i \in DOMAIN rows[t] : i # cur /\ rows[t][i].prev < i /\ status[i] = "completed"
    BY DEF Sound
  <2>4. \A i \in DOMAIN rows[t] :
          rows[t][i].cov = SeedCoverage
             \cup UNION {rows[t][j].kept \cap Corpus : j \in {k \in DOMAIN rows[t] : k <= i}}
    BY <2>0, <2>3 DEF CumulativeCoverage, InOrder
  <2>5. Earlier(t) = UNION {rows[t][j].kept \cap Corpus : j \in DOMAIN rows[t]}
    BY DEF Earlier
  <2>6. rows[t][L].cov = Whole
    <3>1. {k \in DOMAIN rows[t] : k <= L} = DOMAIN rows[t]
      BY <2>1
    <3> QED
      BY <2>1, <2>4, <2>5, <3>1
  <2>7. \A i \in DOMAIN rows[t] : rows[t][i].cov \subseteq Whole
    BY <2>4, <2>5
  <2>8. CASE Whole = {}
    <3>1. known = {}
      BY <2>7, <2>8
    <3> QED
      BY <2>2, <2>8, <3>1 DEF PreviousCoverage
  <2>9. CASE Whole # {}
    <3>1. L \in known
      BY <2>1, <2>3, <2>6, <2>9
    <3>2. known \in SUBSET Int /\ known # {} /\ L \in Int /\ \A i \in known : i <= L
      BY <2>0, <2>1, <3>1
    <3> HIDE DEF known, Whole
    <3>3. Max(known) \in known /\ \A i \in known : i <= Max(known)
      BY <3>2, MaxOfBounded
    <3>4. Max(known) = L
      BY <3>1, <3>2, <3>3
    <3>5. PreviousCoverage(t) = rows[t][L].cov
      BY <3>2, <3>4 DEF PreviousCoverage, known
    <3> QED
      BY <2>2, <2>6, <3>5 DEF Whole
  <2> QED
    BY <2>8, <2>9
<1> QED
  BY <1>1, <1>2

LEMMA CoverageInit == Init => CoverageInv
<1> SUFFICES ASSUME Init PROVE CoverageInv
  OBVIOUS
<1>1. /\ phase = "idle" /\ DOMAIN kept = {}
      /\ \A t \in Trials : DOMAIN rows[t] = {} /\ profile[t] = {}
  BY DEF Init, InitFrame, InitTables, NoTrial
<1>2. \A t \in Trials : Earlier(t) = {} /\ ~ Bootstraps(t) /\ ~ Merges(t)
  BY <1>1 DEF Earlier, Bootstraps, Merges, CoverPhases
<1>3. CoverageFollowsTicks
  BY <1>1, <1>2 DEF CoverageFollowsTicks, ProfileFollowsRows
<1>4. CumulativeCoverage
  BY <1>1 DEF CumulativeCoverage
<1> QED
  BY <1>3, <1>4, MergeInit, FrameRowsInit DEF CoverageInv

LEMMA CoverageNext == CoverageInv /\ [Next]_vars => CoverageFollowsTicks'
<1> SUFFICES ASSUME CoverageInv, [Next]_vars
             PROVE  CoverageFollowsTicks'
  OBVIOUS
<1>0. /\ MergeInv /\ LedgerInv /\ TypeOK /\ FrameOK /\ RowsFollowTicks /\ MergesComeFirst
      /\ RowsOfFrame /\ CoverageFollowsTicks /\ CumulativeCoverage
  BY DEF CoverageInv, MergeInv, LedgerInv
<1>a. DOMAIN kept \subseteq Trials /\ todo \subseteq DOMAIN kept /\ Corpus' = Corpus /\ SeedCoverage' = SeedCoverage
  BY <1>0 DEF TypeOK, FrameOK, Corpus, SeedCoverage
<1> USE DEF environment, frame, tables
<1>1. CASE Tock
  BY <1>0, <1>1, QuietCoverage DEF Tock
<1>2. CASE Stop
  BY <1>0, <1>2, QuietCoverage DEF Stop
<1>3. ASSUME NEW f \in Files, Write(f) PROVE CoverageFollowsTicks'
  BY <1>0, <1>3, QuietCoverage DEF Write
<1>4. ASSUME NEW t \in Trials, Detect(t) PROVE CoverageFollowsTicks'
  BY <1>0, <1>4, QuietCoverage DEF Detect
<1>5. ASSUME NEW t \in Trials, JobFails(t) PROVE CoverageFollowsTicks'
  BY <1>0, <1>5, QuietCoverage DEF JobFails
<1>6. ASSUME NEW t \in Trials, SaveHits(t) PROVE CoverageFollowsTicks'
  BY <1>0, <1>6, QuietCoverage DEF SaveHits
<1>7. ASSUME NEW i \in DOMAIN schedule, NEW selected \in SUBSET Trials, Begin(i, selected)
      PROVE  CoverageFollowsTicks'
  <2>1. /\ cur = 0 /\ cur' = i /\ status[i] = "pending" /\ phase = "idle" /\ phase' = "detect"
        /\ UNCHANGED <<rows, profile, status>>
    BY <1>0, <1>7 DEF Begin, TypeOK
  <2>2. \A t \in Trials : i \notin DOMAIN rows[t] /\ 0 \notin DOMAIN rows[t]
    BY <1>0, <2>1, RowIndices
  <2>3. \A t \in Trials : Sound(t)' = Sound(t) /\ Earlier(t)' = Earlier(t)
    BY <2>1, <2>2 DEF Sound, Earlier, Corpus
  <2>4. \A t \in Trials : ~ Bootstraps(t) /\ ~ Bootstraps(t)' /\ ~ Merges(t)'
    BY <2>1 DEF Bootstraps, Merges, CoverPhases
  <2>5. \A t \in Trials : ProfileFollowsRows(t) => ProfileFollowsRows(t)'
    BY <1>a, <2>1, <2>3, <2>4 DEF ProfileFollowsRows
  <2> QED
    BY <1>0, <2>1, <2>2, <2>3, <2>5 DEF CoverageFollowsTicks
<1>8. CASE Prepare
  <2>1. /\ phase = "detect" /\ phase' = "save" /\ UNCHANGED <<rows, profile, status, cur>>
    BY <1>8 DEF Prepare
  <2>2. \A t \in Trials : cur \notin DOMAIN rows[t]
    BY <1>0, <2>1, RowIndices
  <2>3. \A t \in Trials : Sound(t)' = Sound(t) /\ Earlier(t)' = Earlier(t)
    BY <2>1 DEF Sound, Earlier, Corpus
  <2>4. \A t \in Trials : ~ Bootstraps(t) /\ ~ Bootstraps(t)' /\ ~ Merges(t)'
    BY <2>1 DEF Bootstraps, Merges, CoverPhases
  <2>5. \A t \in Trials : ProfileFollowsRows(t) => ProfileFollowsRows(t)'
    BY <1>a, <2>1, <2>3, <2>4 DEF ProfileFollowsRows
  <2> QED
    BY <1>0, <2>1, <2>2, <2>3, <2>5 DEF CoverageFollowsTicks
<1>9. ASSUME NEW s \in Trials, Save(s)
      PROVE  CoverageFollowsTicks'
  <2>1. /\ phase = "save" /\ phase' = "save" /\ s \in todo /\ s \in DOMAIN kept
        /\ cur \in DOMAIN schedule /\ cur \notin DOMAIN rows[s]
        /\ UNCHANGED <<profile, status, cur, kept>>
    BY <1>0, <1>9, SaveFacts DEF Save
  <2>2. \A t \in Trials : /\ DOMAIN rows'[t] \ {cur} = DOMAIN rows[t] \ {cur}
                          /\ \A i \in DOMAIN rows[t] : rows'[t][i] = rows[t][i]
                          /\ t # s => rows'[t] = rows[t]
    BY <1>0, <1>9, SaveFacts
  <2>3. \A t \in Trials : Sound(t)' = Sound(t) /\ Earlier(t)' = Earlier(t)
    BY <2>1, <2>2 DEF Sound, Earlier, Corpus
  <2>4. \A t \in Trials : ~ Bootstraps(t) /\ ~ Bootstraps(t)' /\ ~ Merges(t)'
    BY <2>1 DEF Bootstraps, Merges, CoverPhases
  <2>5. \A t \in Trials : ProfileFollowsRows(t) => ProfileFollowsRows(t)'
    BY <1>a, <2>1, <2>3, <2>4 DEF ProfileFollowsRows
  <2>6. Measured' = Measured
    BY <2>1 DEF Measured
  <2>7. Sound(s) /\ s \notin Measured => rows'[s][cur].cov = SeedCoverage \cup Earlier(s)
    <3>1. before[s] = LatestRow(s)
      BY <2>1 DEF RowsOfFrame, Staged, CoverageInv
    <3>2. rows'[s][cur].cov = IF s \in Measured THEN {} ELSE Carried(s)
      BY <1>0, <1>9, SaveFacts, NewRowFields
    <3> QED
      BY <1>0, <2>1, <3>1, <3>2, CarriedIsWhole
  <2> QED
    BY <1>0, <2>1, <2>2, <2>3, <2>5, <2>6, <2>7 DEF CoverageFollowsTicks
<1>10. CASE PlanCoverage
  <2>1. /\ phase = "save" /\ phase' = "execute" /\ UNCHANGED <<rows, status, cur, kept, todo, broken>>
        /\ \A t \in Trials : profile'[t] = IF t \in Measured THEN Bootstrapped(t) ELSE profile[t]
    BY <1>10 DEF PlanCoverage
  <2>2. \A t \in Trials : Sound(t)' = Sound(t) /\ Earlier(t)' = Earlier(t)
    BY <2>1 DEF Sound, Earlier, Corpus
  <2>3. Measured' = Measured
    BY <2>1 DEF Measured
  <2>4. \A t \in Trials : ~ Bootstraps(t) /\ Bootstraps(t)' = (t \in Measured) /\ ~ Merges(t)'
    BY <2>1, <2>3 DEF Bootstraps, Merges, CoverPhases
  <2>5. ASSUME NEW t \in Trials, ProfileFollowsRows(t)
        PROVE  ProfileFollowsRows(t)'
    <3>1. profile[t] = IF Earlier(t) = {} THEN {} ELSE SeedCoverage \cup Earlier(t)
      BY <2>4, <2>5 DEF ProfileFollowsRows
    <3>2. t \in Measured => profile'[t] = SeedCoverage \cup Earlier(t)
      BY <2>1, <3>1 DEF Bootstrapped
    <3> QED
      BY <1>a, <2>1, <2>2, <2>4, <3>1, <3>2 DEF ProfileFollowsRows
  <2> QED
    BY <1>0, <1>a, <2>1, <2>2, <2>3, <2>5 DEF CoverageFollowsTicks
<1>11. CASE SkipCoverage \/ Execute \/ MergedAll \/ Aggregate
  <2>1. UNCHANGED <<rows, profile, status, cur, kept, broken>>
    BY <1>11 DEF SkipCoverage, Execute, MergedAll, Aggregate
  <2>2. \A t \in Trials : Sound(t)' = Sound(t) /\ Earlier(t)' = Earlier(t)
    BY <2>1 DEF Sound, Earlier, Corpus
  <2>3. Measured' = Measured
    BY <2>1 DEF Measured
  <2>4. \/ phase = "save" /\ phase' = "crashes" /\ Measured = {}
        \/ phase = "execute" /\ phase' = "merge" /\ todo' = Measured
        \/ phase = "merge" /\ phase' = "persist" /\ todo = {} /\ ~broken
        \/ phase = "persist" /\ phase' = "crashes"
    BY <1>11 DEF SkipCoverage, Execute, MergedAll, Aggregate, EnterCrashes
  <2>5. ASSUME NEW t \in Trials, ProfileFollowsRows(t)
        PROVE  ProfileFollowsRows(t)'
    BY <1>a, <2>1, <2>2, <2>3, <2>4, <2>5 DEF ProfileFollowsRows, Bootstraps, Merges, CoverPhases
  <2> QED
    BY <1>0, <1>a, <2>1, <2>2, <2>3, <2>5 DEF CoverageFollowsTicks
<1>12. ASSUME NEW s \in Trials, Merge(s)
      PROVE  CoverageFollowsTicks'
  <2>1. /\ phase = "merge" /\ phase' = "merge" /\ s \in todo /\ todo' = todo \ {s}
        /\ UNCHANGED <<rows, status, cur, kept, broken>>
        /\ \A t \in Trials : profile'[t] = IF t = s THEN profile[t] \cup (kept[t] \cap Corpus) ELSE profile[t]
    BY <1>0, <1>12 DEF Merge, IsNext, FrameOK
  <2>2. \A t \in Trials : Sound(t)' = Sound(t) /\ Earlier(t)' = Earlier(t)
    BY <2>1 DEF Sound, Earlier, Corpus
  <2>3. Measured' = Measured
    BY <2>1 DEF Measured
  <2>4. \A t \in Trials : Bootstraps(t)' = Bootstraps(t) /\ Bootstraps(t) = (t \in Measured)
    BY <2>1, <2>3 DEF Bootstraps, CoverPhases
  <2>5. \A t \in Trials : Merges(t)' => Merges(t) \/ t = s
    BY <2>1, <2>4 DEF Merges
  <2>6. ASSUME NEW t \in Trials, ProfileFollowsRows(t)
        PROVE  ProfileFollowsRows(t)'
    <3>1. s \in Measured
      BY <1>0, <2>1 DEF RowsOfFrame
    <3> QED
      BY <1>a, <2>1, <2>2, <2>4, <2>5, <2>6, <3>1 DEF ProfileFollowsRows
  <2> QED
    BY <1>0, <1>a, <2>1, <2>2, <2>3, <2>6 DEF CoverageFollowsTicks
<1>13. ASSUME NEW s \in Trials, Persist(s)
      PROVE  CoverageFollowsTicks'
  <2>1. /\ phase = "persist" /\ phase' = "persist" /\ s \in Measured
        /\ UNCHANGED <<profile, status, cur, kept>>
    BY <1>0, <1>13 DEF Persist, IsNext, RowsOfFrame
  <2>2. \A t \in Trials : /\ DOMAIN rows'[t] = DOMAIN rows[t]
                          /\ \A i \in DOMAIN rows[t] :
                               /\ rows'[t][i].prev = rows[t][i].prev /\ rows'[t][i].kept = rows[t][i].kept
                               /\ t # s => rows'[t][i].cov = rows[t][i].cov
    BY <1>0, <1>13, PersistFacts DEF RowFields
  <2>3. \A t \in Trials : Sound(t)' = Sound(t) /\ Earlier(t)' = Earlier(t)
    BY <2>1, <2>2 DEF Sound, Earlier, Corpus
  <2>4. Measured' = Measured
    BY <2>1 DEF Measured
  <2>5. \A t \in Trials : Bootstraps(t)' = Bootstraps(t) /\ Merges(t)' = Merges(t)
    BY <2>1, <2>4 DEF Bootstraps, Merges, CoverPhases
  <2>6. ASSUME NEW t \in Trials, ProfileFollowsRows(t)
        PROVE  ProfileFollowsRows(t)'
    BY <1>a, <2>1, <2>3, <2>5, <2>6 DEF ProfileFollowsRows
  <2> QED
    BY <1>0, <1>a, <2>1, <2>2, <2>3, <2>4, <2>6 DEF CoverageFollowsTicks
<1>14. CASE Complete \/ Raise
  <2>1. /\ cur' = 0 /\ cur \in DOMAIN status
        /\ status'[cur] = "completed" => phase = "crashes"
        /\ \A i \in DOMAIN status \ {cur} : status'[i] = status[i]
        /\ DOMAIN kept' = {} /\ phase' \in {"idle", "over"} /\ UNCHANGED <<rows, profile>>
    BY <1>0, <1>14, TickEnds DEF Complete
  <2>2. \A t \in Trials : 0 \notin DOMAIN rows[t] /\ DOMAIN rows[t] \subseteq DOMAIN status
    BY <1>0, RowIndices DEF TypeOK
  <2>3. \A t \in Trials : ~ Bootstraps(t)' /\ ~ Merges(t)'
    BY <2>1 DEF Bootstraps, Merges, CoverPhases
  <2>4. ASSUME NEW t \in Trials, Sound(t)'
        PROVE  ProfileFollowsRows(t)'
    <3>1. \A j \in DOMAIN rows[t] : rows[t][j].prev < j /\ status'[j] = "completed"
      BY <2>1, <2>2, <2>4 DEF Sound
    <3>2. Sound(t)
      BY <2>1, <2>2, <3>1 DEF Sound
    <3>3. ProfileFollowsRows(t)
      BY <1>0, <3>2 DEF CoverageFollowsTicks
    <3>4. CASE cur \in DOMAIN rows[t]
      <4>1. phase = "crashes" /\ rows[t][cur].kept = kept[t] /\ t \in DOMAIN kept
        BY <1>0, <2>1, <3>1, <3>4 DEF MergesComeFirst
      <4>2. Earlier(t)' = Earlier(t) \cup (kept[t] \cap Corpus)
        BY <2>1, <2>2, <3>4, <4>1 DEF Earlier, Corpus
      <4>3. CASE t \in Measured
        <5>1. profile[t] = SeedCoverage \cup Earlier(t) \cup (kept[t] \cap Corpus) /\ kept[t] \cap Corpus # {}
          BY <3>3, <4>1, <4>3 DEF ProfileFollowsRows, Merges, Bootstraps, CoverPhases, Measured
        <5> QED
          BY <1>a, <2>1, <2>3, <4>2, <5>1 DEF ProfileFollowsRows
      <4>4. CASE t \notin Measured
        <5>1. kept[t] \cap Corpus = {} /\ ~ Bootstraps(t)
          BY <4>1, <4>4 DEF Measured, Bootstraps
        <5> QED
          BY <1>a, <2>1, <2>3, <3>3, <4>2, <5>1 DEF ProfileFollowsRows
      <4> QED
        BY <4>3, <4>4
    <3>5. CASE cur \notin DOMAIN rows[t]
      <4>1. Earlier(t)' = Earlier(t)
        BY <2>1, <2>2, <3>5 DEF Earlier, Corpus
      <4>2. ~ Bootstraps(t)
        BY <1>0, <3>5 DEF RowsOfFrame, Bootstraps, Measured
      <4> QED
        BY <1>a, <2>1, <2>3, <3>3, <4>1, <4>2 DEF ProfileFollowsRows
    <3> QED
      BY <3>4, <3>5
  <2> QED
    BY <2>1, <2>2, <2>4 DEF CoverageFollowsTicks
<1>15. CASE UNCHANGED vars
  BY <1>0, <1>15, QuietCoverage DEF vars
<1> QED
  BY <1>1, <1>2, <1>3, <1>4, <1>5, <1>6, <1>7, <1>8, <1>9, <1>10, <1>11, <1>12, <1>13, <1>14, <1>15 DEF Next

LEMMA CumulativeNext == CoverageInv /\ [Next]_vars => CumulativeCoverage'
<1> DEFINE Whole(t, i) == SeedCoverage
                            \cup UNION {rows[t][j].kept \cap Corpus : j \in {k \in DOMAIN rows[t] : k <= i}}
<1> SUFFICES ASSUME CoverageInv, [Next]_vars, NEW t \in Trials, NEW i \in DOMAIN schedule',
                    i \in DOMAIN rows'[t], InOrder(t, i)',
                    \A j \in DOMAIN rows'[t] : j <= i => status'[j] = "completed"
             PROVE  rows'[t][i].cov = Whole(t, i)'
  BY DEF CumulativeCoverage
<1>0. /\ MergeInv /\ LedgerInv /\ TypeOK /\ FrameOK /\ RowsFollowTicks /\ MergesComeFirst
      /\ RowsOfFrame /\ CoverageFollowsTicks /\ CumulativeCoverage
  BY DEF CoverageInv, MergeInv, LedgerInv
<1>1. schedule' = schedule /\ DOMAIN schedule = 1..Len(schedule) /\ Len(schedule) \in Nat /\ cur \in Nat
      /\ DOMAIN rows[t] \subseteq DOMAIN schedule
  BY <1>0, Settled DEF TypeOK, FrameOK
<1>2. \A j \in DOMAIN rows'[t] : j <= i => rows'[t][j].prev < j
  BY DEF InOrder
\* The step leaves the rows up to i and their statuses alone.
<1>3. ASSUME \A j : j \in DOMAIN rows'[t] /\ j <= i <=> j \in DOMAIN rows[t] /\ j <= i,
             \A j \in DOMAIN rows[t] : j <= i =>
               /\ rows'[t][j].prev = rows[t][j].prev /\ rows'[t][j].kept = rows[t][j].kept
               /\ rows'[t][j].cov = rows[t][j].cov /\ status[j] = "completed"
      PROVE  rows'[t][i].cov = Whole(t, i)'
  <2>1. i \in DOMAIN rows[t] /\ InOrder(t, i) /\ \A j \in DOMAIN rows[t] : j <= i => status[j] = "completed"
    BY <1>1, <1>2, <1>3 DEF InOrder
  <2>2. rows[t][i].cov = Whole(t, i)
    BY <1>0, <1>1, <2>1 DEF CumulativeCoverage
  <2>3. Whole(t, i)' = Whole(t, i)
    BY <1>3 DEF Corpus, SeedCoverage
  <2> QED
    BY <1>1, <1>3, <2>1, <2>2, <2>3
<1> HIDE DEF Whole
<1>4. CASE UNCHANGED <<rows, status>>
  BY <1>3, <1>4
<1>5. ASSUME NEW s \in Trials, Save(s)
      PROVE  rows'[t][i].cov = Whole(t, i)'
  <2>1. /\ status[cur] = "pending" /\ UNCHANGED status
        /\ t # s => rows'[t] = rows[t]
        /\ t = s => /\ DOMAIN rows'[t] = DOMAIN rows[t] \cup {cur}
                    /\ \A j \in DOMAIN rows[t] : rows'[t][j] = rows[t][j]
    <3>1. status[cur] = "pending"
      BY <1>0, <1>5, SaveFacts DEF RowsFollowTicks
    <3>2. UNCHANGED status
      BY <1>5 DEF Save
    <3> QED
      BY <1>0, <1>5, <3>1, <3>2, SaveFacts
  <2>2. t = s => ~ (cur <= i)
    BY <2>1
  <2> QED
    BY <1>3, <2>1, <2>2
<1>6. ASSUME NEW s \in Trials, Persist(s)
      PROVE  rows'[t][i].cov = Whole(t, i)'
  <2>1. /\ DOMAIN rows'[t] = DOMAIN rows[t]
        /\ \A j \in DOMAIN rows[t] :
             /\ rows'[t][j].prev = rows[t][j].prev /\ rows'[t][j].kept = rows[t][j].kept
             /\ j # cur => rows'[t][j].cov = rows[t][j].cov
    BY <1>0, <1>6, PersistFacts DEF RowFields
  <2>2. UNCHANGED status /\ status[cur] = "pending"
    BY <1>0, <1>6 DEF Persist, RowsFollowTicks, TypeOK
  <2> QED
    BY <1>3, <2>1, <2>2
<1>7. CASE Complete \/ Raise
  <2>1. /\ cur \in DOMAIN status /\ UNCHANGED rows /\ DOMAIN status = DOMAIN schedule
        /\ \A j \in DOMAIN status \ {cur} : status'[j] = status[j]
        /\ status'[cur] = "completed" => phase = "crashes"
    BY <1>0, <1>7, TickEnds DEF tables, Complete, TypeOK
  <2>2. CASE cur \in DOMAIN rows[t] /\ cur <= i
    <3>1. /\ rows[t][cur].prev < cur /\ rows[t][cur].prev \in Nat /\ phase = "crashes"
          /\ \A j \in DOMAIN rows[t] \ {cur} : j <= rows[t][cur].prev
      BY <1>0, <1>2, <2>1, <2>2 DEF RowsOfFrame
    <3>2. i = cur
      BY <1>1, <2>1, <2>2, <3>1
    <3>3. \A j \in DOMAIN rows[t] : j <= cur
      BY <1>1, <3>1
    <3>4. Sound(t)
      BY <1>1, <1>2, <2>1, <3>2, <3>3 DEF Sound
    <3>5. t \in DOMAIN kept /\ rows[t][cur].kept = kept[t]
      BY <1>0, <2>2 DEF MergesComeFirst
    <3>6. rows[t][cur].cov = SeedCoverage \cup Earlier(t) \cup (kept[t] \cap Corpus)
      <4>1. CASE t \in Measured
        <5>1. rows[t][cur].cov = profile[t]
          BY <1>0, <2>2, <3>1, <4>1 DEF RowsOfFrame
        <5> QED
          BY <1>0, <3>1, <3>4, <4>1, <5>1 DEF CoverageFollowsTicks, ProfileFollowsRows, Merges, Bootstraps, CoverPhases
      <4>2. CASE t \notin Measured
        <5>1. kept[t] \cap Corpus = {}
          BY <3>5, <4>2 DEF Measured
        <5>2. rows[t][cur].cov = SeedCoverage \cup Earlier(t)
          BY <1>0, <2>2, <3>1, <3>4, <4>2 DEF CoverageFollowsTicks
        <5> QED
          BY <5>1, <5>2
      <4> QED
        BY <4>1, <4>2
    <3>7. Whole(t, i)' = SeedCoverage \cup UNION {rows[t][j].kept \cap Corpus : j \in DOMAIN rows[t]}
      BY <2>1, <3>2, <3>3 DEF Whole, Corpus, SeedCoverage
    <3>8. UNION {rows[t][j].kept \cap Corpus : j \in DOMAIN rows[t]} = Earlier(t) \cup (kept[t] \cap Corpus)
      BY <2>2, <3>5 DEF Earlier
    <3> QED
      BY <2>1, <3>2, <3>6, <3>7, <3>8
  <2>3. CASE ~ (cur \in DOMAIN rows[t] /\ cur <= i)
    <3>1. \A j \in DOMAIN rows[t] : j <= i => j # cur /\ status[j] = "completed"
      BY <1>1, <2>1, <2>3
    <3> QED
      BY <1>3, <2>1, <3>1
  <2> QED
    BY <2>2, <2>3
<1> QED
  BY <1>4, <1>5, <1>6, <1>7, RowsMove, HitsMove

\* The profiles of the trials count what their rows have copied, by the phase of the
\* tick (CoverageInv; coverage.py:90-152, 249-253).
THEOREM CoverageInvHolds == Spec => []CoverageInv
<1>1. CoverageInv /\ [Next]_vars => CoverageInv'
  BY NextInv, MergesNext, PersistedNext, FrameRowsNext, CoverageNext, CumulativeNext DEF CoverageInv, MergeInv
<1> QED
  BY <1>1, CoverageInit, PTL DEF Spec

\* While the ticks so far completed in index order, the coverage of a row is that of the
\* seeds and of every corpus file copied up to it, measured or carried forward
\* (CumulativeCoverage; collector.py:243-265, coverage.py:249-253).
THEOREM CoverageIsCumulative == Spec => []CumulativeCoverage
<1>1. CoverageInv => CumulativeCoverage
  BY DEF CoverageInv
<1> QED
  BY <1>1, CoverageInvHolds, PTL

-----------------------------------------------------------------------------
(* The dates of bugs.                                                        *)

\* The minimum of a set of naturals is its least element.
LEMMA MinOfNats ==
  ASSUME NEW S \in SUBSET Nat, S # {}
  PROVE  /\ Min(S) \in S /\ \A x \in S : Min(S) <= x
         /\ \A m \in S : (\A x \in S : m <= x) => m = Min(S)
<1>1. PICK n \in S : \A m \in S : ~ (<<m, n>> \in OpToRel(<, Nat))
  BY WFMin, NatLessThanWellFounded, Zenon
<1>2. \A m \in S : ~ (m < n)
  BY <1>1 DEF OpToRel
<1>3. \A m \in S : n <= m
  BY <1>2
<1>4. Min(S) \in S /\ \A x \in S : Min(S) <= x
  BY <1>3 DEF Min
<1>5. ASSUME NEW m \in S, \A x \in S : m <= x
      PROVE  m = Min(S)
  <2>1. m \in Nat /\ Min(S) \in Nat /\ m <= Min(S) /\ Min(S) <= m
    BY <1>4, <1>5
  <2> QED
    BY <2>1
<1> QED
  BY <1>4, <1>5

\* Whole seconds against clock units.
LEMMA FloorBounds ==
  ASSUME NEW x \in Nat, NEW a \in Int
  PROVE  /\ x <= a * Ns => Floor(x) <= a
         /\ a * Ns < x => a <= Floor(x)
<1> DEFINE q == x \div Ns
           r == x % Ns
<1>1. q \in Int /\ r \in 0..(Ns - 1) /\ x = q * Ns + r
  BY MeasurementAssumption
<1> HIDE DEF q, r
<1>2. q * Ns <= x /\ x < q * Ns + Ns /\ (q + 1) * Ns = q * Ns + Ns
  BY <1>1, MeasurementAssumption
<1>3. ASSUME x <= a * Ns PROVE q <= a
  <2>1. q * Ns < (a + 1) * Ns
    <3>1. (a + 1) * Ns = a * Ns + Ns /\ a * Ns \in Int /\ q * Ns \in Int
      BY <1>1, MeasurementAssumption
    <3> QED
      BY <1>2, <1>3, <3>1, MeasurementAssumption
  <2> QED
    BY <1>1, <2>1, ScaledOrder
<1>4. ASSUME a * Ns < x PROVE a <= q
  <2>1. a * Ns < (q + 1) * Ns
    BY <1>1, <1>2, <1>4, MeasurementAssumption
  <2> QED
    BY <1>1, <2>1, ScaledOrder
<1> QED
  BY <1>3, <1>4 DEF Floor, q

\* A file is not dated before it was written.
LEMMA LogicalTimeIsLater ==
  ASSUME TimesOK, NEW f \in Files, NEW x \in Nat
  PROVE  LogicalTime(f, x) \in Nat /\ x <= LogicalTime(f, x)
<1>1. root[Owner[f]] \in Nat
  BY MeasurementAssumption DEF TimesOK
<1> QED
  BY <1>1, MaxOfTwo DEF LogicalTime

\* File times are only ever added.
LEMMA WritesGrow ==
  ASSUME LedgerInv, [Next]_vars, NEW f \in Files
  PROVE  writes[f] \subseteq writes'[f]
<1>1. ASSUME NEW g \in Files, Write(g) PROVE writes[f] \subseteq writes'[f]
  BY <1>1 DEF Write, LedgerInv, TypeOK
<1>2. CASE UNCHANGED writes
  BY <1>2
<1> QED
  BY <1>1, <1>2 DEF Next, vars, environment, Tock, Stop, Begin, Detect, Save, JobFails, Merge, Persist, SaveHits, Prepare,
     PlanCoverage, SkipCoverage, Execute, MergedAll, Aggregate, Complete, Raise

\* The rows that are there keep what they say of files.
LEMMA RowsStay ==
  ASSUME LedgerInv, [Next]_vars, NEW t \in Trials
  PROVE  /\ DOMAIN rows[t] \subseteq DOMAIN rows'[t]
         /\ \A i \in DOMAIN rows[t] :
              /\ rows'[t][i].ts = rows[t][i].ts /\ rows'[t][i].prev = rows[t][i].prev
              /\ rows'[t][i].kept = rows[t][i].kept /\ rows'[t][i].dates = rows[t][i].dates
         /\ \A i \in DOMAIN rows'[t] : i \in DOMAIN rows[t] \/ (Save(t) /\ i = cur)
<1>1. CASE UNCHANGED rows
  BY <1>1
<1>2. ASSUME NEW s \in Trials, Save(s)
      PROVE  /\ DOMAIN rows[t] \subseteq DOMAIN rows'[t]
             /\ \A i \in DOMAIN rows[t] : rows'[t][i] = rows[t][i]
             /\ \A i \in DOMAIN rows'[t] : i \in DOMAIN rows[t] \/ (Save(t) /\ i = cur)
  <2>1. CASE t = s
    BY <1>2, <2>1, SaveFacts
  <2>2. CASE t # s
    BY <1>2, <2>2, SaveFacts
  <2> QED
    BY <2>1, <2>2
<1>3. ASSUME NEW s \in Trials, Persist(s)
      PROVE  /\ DOMAIN rows[t] = DOMAIN rows'[t]
             /\ \A i \in DOMAIN rows[t] :
                  /\ rows'[t][i].ts = rows[t][i].ts /\ rows'[t][i].prev = rows[t][i].prev
                  /\ rows'[t][i].kept = rows[t][i].kept /\ rows'[t][i].dates = rows[t][i].dates
  BY <1>3, PersistFacts DEF RowFields
<1> QED
  BY <1>1, <1>2, <1>3, RowsMove

\* The dates of a new row.
LEMMA NewRowIsDated ==
  ASSUME MergeInv, RowsOfFrame, NEW t \in Trials, Save(t)
  PROVE  /\ before[t] \in {0} \cup DOMAIN rows[t]
         /\ kept[t] \subseteq Files /\ NewRow(t).dates \in [kept[t] \cap Crashes -> Nat]
         /\ \A f \in kept[t] \cap Crashes :
              /\ NewRow(t).dates[f] <= schedule[cur] \/ Rewrites({f})
              /\ mode = "live" /\ before[t] # 0 => rows[t][before[t]].ts <= NewRow(t).dates[f]
<1>0. LedgerInv /\ TypeOK /\ FrameOK /\ RowsFollowTicks /\ WindowsAreStaged /\ TimesOK
  BY TimesFromTypes DEF MergeInv, LedgerInv
<1>1. phase = "save" /\ t \in todo /\ t \in DOMAIN kept /\ Staged(t) /\ cur \in DOMAIN schedule /\ cur # 0
  BY <1>0, SaveFacts DEF Staged
<1>2. before[t] = LatestRow(t) /\ kept[t] \subseteq FilesIn(found[t])
  BY <1>1 DEF RowsOfFrame
<1>3. before[t] \in {0} \cup DOMAIN rows[t] /\ Horizon(t) \in Int
      /\ (before[t] # 0 => Horizon(t) = rows[t][before[t]].ts)
  BY <1>0, <1>2, LatestIsLast DEF Horizon
<1>4. kept[t] \subseteq Files
  BY <1>0, <1>1 DEF TypeOK
<1>5. schedule[cur] \in Int
  BY <1>0, <1>1 DEF FrameOK
<1>6. ASSUME NEW f \in kept[t] \cap Crashes
      PROVE  /\ Mtime(f) \in Nat
             /\ Floor(Mtime(f)) <= schedule[cur] \/ Rewrites({f})
             /\ mode = "live" => Horizon(t) <= Floor(Mtime(f))
  <2>1. PICK v \in found[t] : f = v[1]
    BY <1>2 DEF FilesIn
  <2>2. PICK x \in writes[f] : v[2] = LogicalTime(f, x)
    BY <1>0, <1>1, <2>1 DEF WindowsAreStaged
  <2>3. Horizon(t) * Ns < v[2] /\ v[2] <= schedule[cur] * Ns
    BY <1>0, <1>1 DEF WindowsAreStaged
  <2>4. f \in Files /\ f \in Written
    BY <1>4, <2>2 DEF Written
  <2>5. Mtime(f) \in writes[f] /\ Mtime(f) \in Nat /\ x \in Nat /\ x <= Mtime(f)
    BY <1>0, <2>2, <2>4, MtimeLatest
  <2>6. LogicalTime(f, x) \in Nat /\ x <= LogicalTime(f, x) /\ (mode # "replay" => LogicalTime(f, x) = x)
    BY <1>0, <2>4, <2>5, LogicalOrder, LogicalTimeIsLater
  <2>7. schedule[cur] * Ns \in Int /\ Horizon(t) * Ns \in Int
    BY <1>3, <1>5, ScaledOrder
  <2>8. Mtime(f) = x => Floor(Mtime(f)) <= schedule[cur]
    <3>1. x <= schedule[cur] * Ns
      BY <2>2, <2>3, <2>5, <2>6, <2>7
    <3> QED
      BY <1>5, <2>5, <3>1, FloorBounds
  <2>9. Mtime(f) # x => Rewrites({f})
    BY <2>2, <2>5 DEF Rewrites
  <2>10. mode = "live" => Horizon(t) <= Floor(Mtime(f))
    <3>1. mode = "live" => Horizon(t) * Ns < Mtime(f)
      BY <2>2, <2>3, <2>5, <2>6, <2>7
    <3> QED
      BY <1>3, <2>5, <3>1, FloorBounds
  <2> QED
    BY <2>5, <2>8, <2>9, <2>10
<1>7. NewRow(t).dates = [f \in kept[t] \cap Crashes |-> Floor(Mtime(f))]
  BY NewRowHistory
<1> QED
  BY <1>3, <1>4, <1>6, <1>7, FloorType

LEMMA DatesNext == BugsInv /\ [Next]_vars => RowsAreDated'
<1> SUFFICES ASSUME BugsInv, [Next]_vars, NEW t \in Trials, NEW i \in DOMAIN rows'[t]
             PROVE  /\ rows'[t][i].prev \in {0} \cup DOMAIN rows'[t]
                    /\ rows'[t][i].kept \subseteq Files
                    /\ rows'[t][i].dates \in [rows'[t][i].kept \cap Crashes -> Nat]
                    /\ \A f \in rows'[t][i].kept \cap Crashes :
                         /\ rows'[t][i].dates[f] <= rows'[t][i].ts \/ Rewrites({f})'
                         /\ mode' = "live" /\ rows'[t][i].prev # 0 =>
                              rows'[t][rows'[t][i].prev].ts <= rows'[t][i].dates[f]
  BY DEF RowsAreDated
<1>0. MergeInv /\ LedgerInv /\ RowsOfFrame /\ RowsAreDated
  BY DEF BugsInv, MergeInv
<1>1. mode' = mode
  BY Settled
<1>2. \A f \in Files : Rewrites({f}) => Rewrites({f})'
  BY <1>0, WritesGrow DEF Rewrites
<1>3. CASE i \in DOMAIN rows[t]
  <2>1. /\ DOMAIN rows[t] \subseteq DOMAIN rows'[t]
        /\ \A j \in DOMAIN rows[t] :
             /\ rows'[t][j].ts = rows[t][j].ts /\ rows'[t][j].prev = rows[t][j].prev
             /\ rows'[t][j].kept = rows[t][j].kept /\ rows'[t][j].dates = rows[t][j].dates
    BY <1>0, RowsStay
  <2>2. /\ rows[t][i].prev \in {0} \cup DOMAIN rows[t]
        /\ rows[t][i].kept \subseteq Files
        /\ rows[t][i].dates \in [rows[t][i].kept \cap Crashes -> Nat]
        /\ \A f \in rows[t][i].kept \cap Crashes :
             /\ rows[t][i].dates[f] <= rows[t][i].ts \/ Rewrites({f})
             /\ mode = "live" /\ rows[t][i].prev # 0 => rows[t][rows[t][i].prev].ts <= rows[t][i].dates[f]
    BY <1>0, <1>3 DEF RowsAreDated
  <2> QED
    BY <1>1, <1>2, <1>3, <2>1, <2>2
<1>4. CASE Save(t) /\ i = cur
  <2>1. /\ rows'[t][cur] = NewRow(t) /\ DOMAIN rows'[t] = DOMAIN rows[t] \cup {cur} /\ cur \notin DOMAIN rows[t]
        /\ \A j \in DOMAIN rows[t] : rows'[t][j] = rows[t][j]
    BY <1>0, <1>4, SaveFacts
  <2>2. 0 \notin DOMAIN rows[t]
    BY <1>0, RowIndices
  <2>3. NewRow(t).prev = before[t] /\ NewRow(t).kept = kept[t] /\ NewRow(t).ts = schedule[cur]
    BY NewRowFields, NewRowHistory
  <2>4. /\ before[t] \in {0} \cup DOMAIN rows[t]
        /\ kept[t] \subseteq Files /\ NewRow(t).dates \in [kept[t] \cap Crashes -> Nat]
        /\ \A f \in kept[t] \cap Crashes :
             /\ NewRow(t).dates[f] <= schedule[cur] \/ Rewrites({f})
             /\ mode = "live" /\ before[t] # 0 => rows[t][before[t]].ts <= NewRow(t).dates[f]
    BY <1>0, <1>4, NewRowIsDated
  <2> QED
    BY <1>1, <1>2, <1>4, <2>1, <2>2, <2>3, <2>4
<1> QED
  BY <1>0, <1>3, <1>4, RowsStay

\* Storing some bugs of a snapshot: their hits and their dates.
LEMMA StoredBugs ==
  ASSUME NEW t \in Trials, SaveHits(t)
  PROVE  \E keys \in SUBSET KeysOf(t) :
           /\ DOMAIN hits' = DOMAIN hits \cup {<<key, t, cur>> : key \in keys}
           /\ DOMAIN bugs' = DOMAIN bugs \cup keys
           /\ \A key \in DOMAIN bugs' :
                bugs'[key] = IF key \in keys /\ (key \in DOMAIN bugs => FirstSeen(t, key) < bugs[key].ts)
                             THEN [ts |-> FirstSeen(t, key), trial |-> t, idx |-> cur]
                             ELSE bugs[key]
<1>1. PICK keys \in SUBSET KeysOf(t) : hits' = UpsertHits(t, keys) /\ bugs' = EnsureBugs(t, keys)
  BY DEF SaveHits
<1> QED
  BY <1>1 DEF UpsertHits, EnsureBugs

\* What a stored hit says of files stays as it is.
LEMMA HitDatesStay ==
  ASSUME BugsInv, [Next]_vars, NEW id \in DOMAIN hits
  PROVE  /\ id[2] \in Trials /\ id[3] \in DOMAIN rows[id[2]] /\ id[3] \in DOMAIN rows'[id[2]]
         /\ \A key : DatesOf(id, key)' = DatesOf(id, key)
<1>1. id[2] \in Trials /\ id[3] \in DOMAIN rows[id[2]]
  BY DEF BugsInv, HitsHaveRows
<1>2. /\ id[3] \in DOMAIN rows'[id[2]]
      /\ rows'[id[2]][id[3]].kept = rows[id[2]][id[3]].kept
      /\ rows'[id[2]][id[3]].dates = rows[id[2]][id[3]].dates
  BY <1>1, RowsStay DEF BugsInv, MergeInv
<1> QED
  BY <1>1, <1>2 DEF DatesOf

\* The snapshot in hand hits the bugs its crashes reproduce.
LEMMA HitInHand ==
  ASSUME BugsInv, NEW t \in Trials, SaveHits(t), NEW key \in KeysOf(t)
  PROVE  /\ cur \in DOMAIN rows[t]
         /\ DatesOf(<<key, t, cur>>, key) \in SUBSET Nat /\ DatesOf(<<key, t, cur>>, key) # {}
         /\ FirstSeen(t, key) = Min(DatesOf(<<key, t, cur>>, key))
<1>1. LedgerInv /\ TypeOK /\ FrameOK /\ MergesComeFirst /\ RowsOfFrame /\ RowsAreDated
  BY DEF BugsInv, MergeInv, LedgerInv
<1>2. phase = "crashes" /\ t \in DOMAIN kept
  BY <1>1 DEF SaveHits, IsNext, FrameOK
<1>3. cur \in DOMAIN rows[t] /\ rows[t][cur].kept = kept[t]
  BY <1>1, <1>2 DEF RowsOfFrame, MergesComeFirst, CoverPhases
<1>4. PICK g \in kept[t] \cap Crashes : BugOf[g] = key /\ key # NotReproduced
  BY DEF KeysOf, Reproduced
<1>5. HitFiles(t, key) = {f \in kept[t] \cap Crashes : BugOf[f] = key}
  BY <1>4, HitFilesOfRow
<1>6. DatesOf(<<key, t, cur>>, key) = {rows[t][cur].dates[f] : f \in HitFiles(t, key)}
  BY <1>3, <1>5 DEF DatesOf
<1>7. g \in HitFiles(t, key)
  BY <1>4, <1>5
<1>8. \A f \in HitFiles(t, key) : rows[t][cur].dates[f] \in Nat
  BY <1>1, <1>3, <1>5 DEF RowsAreDated
<1> QED
  BY <1>3, <1>6, <1>7, <1>8 DEF FirstSeen

\* Only SaveHits touches the bugs and their hits.
LEMMA BugsMove ==
  ASSUME [Next]_vars
  PROVE  UNCHANGED <<hits, bugs>> \/ \E t \in Trials : SaveHits(t)
  BY DEF Next, vars, Tock, Stop, Write, Begin, Detect, Save, JobFails, Merge, Persist, SaveHits, Prepare,
     PlanCoverage, SkipCoverage, Execute, MergedAll, Aggregate, Complete, Raise, tables

LEMMA HitRowsNext == BugsInv /\ [Next]_vars => HitsHaveRows'
<1> SUFFICES ASSUME BugsInv, [Next]_vars, NEW id \in DOMAIN hits'
             PROVE  /\ id = <<id[1], id[2], id[3]>> /\ id[2] \in Trials /\ id[3] \in DOMAIN rows'[id[2]]
                    /\ DatesOf(id, id[1])' # {} /\ id[1] \in DOMAIN bugs'
  BY DEF HitsHaveRows, DatesOf
<1>1. ASSUME id \in DOMAIN hits, DOMAIN bugs \subseteq DOMAIN bugs'
      PROVE  /\ id = <<id[1], id[2], id[3]>> /\ id[2] \in Trials /\ id[3] \in DOMAIN rows'[id[2]]
             /\ DatesOf(id, id[1])' # {} /\ id[1] \in DOMAIN bugs'
  <2>1. id = <<id[1], id[2], id[3]>> /\ DatesOf(id, id[1]) # {} /\ id[1] \in DOMAIN bugs
    BY <1>1 DEF BugsInv, HitsHaveRows
  <2>2. id[2] \in Trials /\ id[3] \in DOMAIN rows'[id[2]] /\ DatesOf(id, id[1])' = DatesOf(id, id[1])
    BY <1>1, HitDatesStay
  <2> QED
    BY <1>1, <2>1, <2>2
<1>2. ASSUME NEW t \in Trials, SaveHits(t)
      PROVE  /\ id = <<id[1], id[2], id[3]>> /\ id[2] \in Trials /\ id[3] \in DOMAIN rows'[id[2]]
             /\ DatesOf(id, id[1])' # {} /\ id[1] \in DOMAIN bugs'
  <2>1. PICK keys \in SUBSET KeysOf(t) :
          /\ DOMAIN hits' = DOMAIN hits \cup {<<key, t, cur>> : key \in keys}
          /\ DOMAIN bugs' = DOMAIN bugs \cup keys
    BY <1>2, StoredBugs
  <2>2. CASE id \in DOMAIN hits
    BY <1>1, <2>1, <2>2
  <2>3. CASE id \notin DOMAIN hits
    <3>1. PICK key \in keys : id = <<key, t, cur>>
      BY <2>1, <2>3
    <3>2. cur \in DOMAIN rows[t] /\ DatesOf(id, key) # {}
      BY <1>2, <3>1, HitInHand
    <3>3. rows' = rows
      BY <1>2 DEF SaveHits
    <3>4. DatesOf(id, key)' = DatesOf(id, key)
      BY <3>3 DEF DatesOf
    <3>5. id[1] = key /\ id[2] = t /\ id[3] = cur
      BY <3>1
    <3> QED
      BY <2>1, <3>1, <3>2, <3>3, <3>4, <3>5
  <2> QED
    BY <2>2, <2>3
<1>3. CASE UNCHANGED <<hits, bugs>>
  BY <1>1, <1>3
<1> QED
  BY <1>2, <1>3, BugsMove

\* A date that a row of the bug gives lies within the row's second and window.
LEMMA DateBounds ==
  ASSUME RowsAreDated, NEW t \in Trials, NEW i \in DOMAIN rows[t], NEW key, NEW ts \in DatesOf(<<key, t, i>>, key)
  PROVE  /\ ts \in Nat
         /\ ts <= rows[t][i].ts \/ Rewrites({f \in rows[t][i].kept \cap Crashes : BugOf[f] = key})
         /\ mode = "live" /\ rows[t][i].prev # 0 => rows[t][rows[t][i].prev].ts <= ts
<1>1. PICK f \in rows[t][i].kept \cap Crashes : BugOf[f] = key /\ ts = rows[t][i].dates[f]
  BY DEF DatesOf
<1>2. /\ rows[t][i].dates[f] \in Nat
      /\ rows[t][i].dates[f] <= rows[t][i].ts \/ Rewrites({f})
      /\ mode = "live" /\ rows[t][i].prev # 0 => rows[t][rows[t][i].prev].ts <= rows[t][i].dates[f]
  BY DEF RowsAreDated
<1>3. Rewrites({f}) => Rewrites({g \in rows[t][i].kept \cap Crashes : BugOf[g] = key})
  BY <1>1 DEF Rewrites
<1> QED
  BY <1>1, <1>2, <1>3

\* The dates of all hits of a bug.
AllDates(key) == UNION {DatesOf(id, key) : id \in HitsOf(key)}

LEMMA DatesAreNats ==
  ASSUME BugsInv, NEW key
  PROVE  AllDates(key) \in SUBSET Nat
<1>1. ASSUME NEW id \in HitsOf(key) PROVE DatesOf(id, key) \subseteq Nat
  <2>1. id[2] \in Trials /\ id[3] \in DOMAIN rows[id[2]]
    BY <1>1 DEF HitsOf, BugsInv, HitsHaveRows
  <2>2. LET row == rows[id[2]][id[3]] IN row.dates \in [row.kept \cap Crashes -> Nat]
    BY <2>1 DEF BugsInv, RowsAreDated
  <2> QED
    BY <2>2 DEF DatesOf
<1> QED
  BY <1>1 DEF AllDates

\* What a dated bug is, apart from the bounds, which follow from its row.
Dates(key) ==
  LET bug == bugs[key]
      id  == <<key, bug.trial, bug.idx>>
  IN id \in HitsOf(key) /\ bug.ts \in DatesOf(id, key) /\ bug.ts = Min(AllDates(key))

LEMMA BugDatesNext ==
  ASSUME BugsInv, [Next]_vars, NEW key \in DOMAIN bugs'
  PROVE  Dates(key)'
<1>0. key \in DOMAIN bugs => Dates(key)
  BY DEF BugsInv, BugsDatedByFirstHit, Dates, AllDates
<1>1. CASE UNCHANGED <<hits, bugs>>
  <2>1. \A id \in HitsOf(key) : DatesOf(id, key)' = DatesOf(id, key)
    BY HitDatesStay DEF HitsOf
  <2>2. HitsOf(key)' = HitsOf(key)
    BY <1>1 DEF HitsOf
  <2>3. AllDates(key)' = AllDates(key)
    BY <2>1, <2>2 DEF AllDates
  <2>4. bugs'[key] = bugs[key] /\ Dates(key)
    BY <1>0, <1>1
  <2> QED
    BY <2>1, <2>2, <2>3, <2>4 DEF Dates
<1>2. ASSUME NEW t \in Trials, SaveHits(t)
      PROVE  Dates(key)'
  <2>1. PICK keys \in SUBSET KeysOf(t) :
          /\ DOMAIN hits' = DOMAIN hits \cup {<<k, t, cur>> : k \in keys}
          /\ DOMAIN bugs' = DOMAIN bugs \cup keys
          /\ \A k \in DOMAIN bugs' :
               bugs'[k] = IF k \in keys /\ (k \in DOMAIN bugs => FirstSeen(t, k) < bugs[k].ts)
                          THEN [ts |-> FirstSeen(t, k), trial |-> t, idx |-> cur]
                          ELSE bugs[k]
    BY <1>2, StoredBugs
  <2>2. \A id, k : DatesOf(id, k)' = DatesOf(id, k)
    BY <1>2 DEF SaveHits, DatesOf
  <2>3. CASE key \notin keys
    <3>1. HitsOf(key)' = HitsOf(key)
      BY <2>1, <2>3 DEF HitsOf
    <3>2. AllDates(key)' = AllDates(key)
      BY <2>2, <3>1 DEF AllDates
    <3>3. bugs'[key] = bugs[key] /\ Dates(key)
      BY <1>0, <2>1, <2>3
    <3> QED
      BY <2>2, <3>1, <3>2, <3>3 DEF Dates
  <2>4. CASE key \in keys
    <3> DEFINE new == <<key, t, cur>>
               D == DatesOf(new, key)
    <3>1. D \in SUBSET Nat /\ D # {} /\ FirstSeen(t, key) = Min(D)
      BY <1>2, <2>4, HitInHand
    <3>2. Min(D) \in D /\ \A x \in D : Min(D) <= x
      BY <3>1, MinOfNats
    <3>3. HitsOf(key)' = HitsOf(key) \cup {new}
      <4>1. \A k : <<k, t, cur>>[1] = k
        OBVIOUS
      <4> QED
        BY <2>1, <2>4, <4>1 DEF HitsOf
    <3>4. AllDates(key)' = AllDates(key) \cup D
      BY <2>2, <3>3 DEF AllDates
    <3>5. AllDates(key) \in SUBSET Nat
      BY DatesAreNats
    <3>6. D \in SUBSET Nat /\ AllDates(key) \cup D \in SUBSET Nat /\ AllDates(key) \cup D # {}
      BY <3>1, <3>5
    <3>7. ASSUME NEW m \in AllDates(key) \cup D, \A x \in AllDates(key) \cup D : m <= x
          PROVE  m = Min(AllDates(key) \cup D)
      BY <3>6, <3>7, MinOfNats
    <3>8. new \in HitsOf(key)' /\ new[1] = key
      BY <3>3
    <3>9. CASE key \notin DOMAIN bugs
      <4>1. HitsOf(key) = {}
        BY <3>9 DEF BugsInv, HitsHaveRows, HitsOf
      <4>2. AllDates(key) = {}
        BY <4>1 DEF AllDates
      <4>3. Min(D) = Min(AllDates(key) \cup D)
        BY <4>2
      <4>4. bugs'[key] = [ts |-> Min(D), trial |-> t, idx |-> cur]
        BY <2>1, <2>4, <3>1, <3>9
      <4> QED
        BY <2>2, <3>2, <3>4, <3>8, <4>3, <4>4 DEF Dates
    <3>10. CASE key \in DOMAIN bugs /\ Min(D) < bugs[key].ts
      <4>1. bugs[key].ts = Min(AllDates(key)) /\ bugs[key].ts \in AllDates(key)
        BY <1>0, <3>10 DEF Dates, AllDates
      <4>2. \A x \in AllDates(key) : bugs[key].ts <= x
        BY <3>5, <4>1, MinOfNats
      <4>3. bugs[key].ts \in Nat /\ Min(D) \in Nat
        BY <3>1, <3>2, <3>5, <4>1
      <4>4. \A x \in AllDates(key) \cup D : Min(D) <= x
        <5>1. ASSUME NEW x \in AllDates(key) PROVE Min(D) <= x
          <6>1. x \in Nat /\ bugs[key].ts <= x
            BY <3>5, <4>2, <5>1
          <6> QED
            BY <3>10, <4>3, <6>1
        <5> QED
          BY <3>2, <5>1
      <4>5. Min(D) = Min(AllDates(key) \cup D)
        BY <3>2, <3>7, <4>4
      <4>6. bugs'[key] = [ts |-> Min(D), trial |-> t, idx |-> cur]
        BY <2>1, <2>4, <3>1, <3>10
      <4> QED
        BY <2>2, <3>2, <3>4, <3>8, <4>5, <4>6 DEF Dates
    <3>11. CASE key \in DOMAIN bugs /\ ~ (Min(D) < bugs[key].ts)
      <4>1. bugs[key].ts = Min(AllDates(key)) /\ bugs[key].ts \in AllDates(key)
        BY <1>0, <3>11 DEF Dates, AllDates
      <4>2. \A x \in AllDates(key) : bugs[key].ts <= x
        BY <3>5, <4>1, MinOfNats
      <4>3. bugs[key].ts \in Nat /\ Min(D) \in Nat
        BY <3>1, <3>2, <3>5, <4>1
      <4>4. \A x \in AllDates(key) \cup D : bugs[key].ts <= x
        <5>1. ASSUME NEW x \in D PROVE bugs[key].ts <= x
          <6>1. x \in Nat /\ Min(D) <= x
            BY <3>1, <3>2, <5>1
          <6> QED
            BY <3>11, <4>3, <6>1
        <5> QED
          BY <4>2, <5>1
      <4>5. bugs[key].ts = Min(AllDates(key) \cup D)
        BY <4>1, <3>7, <4>4
      <4>6. bugs'[key] = bugs[key]
        BY <2>1, <2>4, <3>1, <3>11
      <4>7. Dates(key)
        BY <1>0, <3>11
      <4> QED
        BY <2>2, <3>3, <3>4, <4>5, <4>6, <4>7 DEF Dates
    <3> QED
      BY <3>9, <3>10, <3>11
  <2> QED
    BY <2>3, <2>4
<1> QED
  BY <1>1, <1>2, BugsMove

BugsCore ==
  MergeInv /\ RowsOfFrame /\ RowsAreDated /\ HitsHaveRows /\ \A key \in DOMAIN bugs : Dates(key)

LEMMA CoreIsBugsInv == BugsCore => BugsInv
<1> SUFFICES ASSUME BugsCore PROVE BugsDatedByFirstHit
  BY DEF BugsCore, BugsInv
<1> SUFFICES ASSUME NEW key \in DOMAIN bugs
             PROVE  LET bug == bugs[key]
                        id  == <<key, bug.trial, bug.idx>>
                        row == rows[bug.trial][bug.idx]
                    IN /\ id \in HitsOf(key) /\ bug.ts \in DatesOf(id, key)
                       /\ bug.ts = Min(UNION {DatesOf(other, key) : other \in HitsOf(key)})
                       /\ bug.ts <= row.ts \/ Rewrites({f \in row.kept \cap Crashes : BugOf[f] = key})
                       /\ mode = "live" /\ row.prev # 0 => rows[bug.trial][row.prev].ts <= bug.ts
  BY DEF BugsDatedByFirstHit
<1> DEFINE id == <<key, bugs[key].trial, bugs[key].idx>>
<1>1. id \in HitsOf(key) /\ bugs[key].ts \in DatesOf(id, key) /\ bugs[key].ts = Min(AllDates(key))
  BY DEF BugsCore, Dates
<1>2. id \in DOMAIN hits /\ id[2] = bugs[key].trial /\ id[3] = bugs[key].idx
  BY <1>1 DEF HitsOf
<1>3. bugs[key].trial \in Trials /\ bugs[key].idx \in DOMAIN rows[bugs[key].trial] /\ RowsAreDated
  BY <1>2 DEF BugsCore, HitsHaveRows
<1>4. LET row == rows[bugs[key].trial][bugs[key].idx]
      IN /\ bugs[key].ts <= row.ts \/ Rewrites({f \in row.kept \cap Crashes : BugOf[f] = key})
         /\ mode = "live" /\ row.prev # 0 => rows[bugs[key].trial][row.prev].ts <= bugs[key].ts
  BY <1>1, <1>3, DateBounds
<1> QED
  BY <1>1, <1>4 DEF AllDates

LEMMA BugsNext == BugsInv /\ [Next]_vars => BugsInv'
<1> SUFFICES ASSUME BugsInv, [Next]_vars
             PROVE  BugsInv'
  OBVIOUS
<1>1. MergeInv'
  BY NextInv, MergesNext, PersistedNext DEF BugsInv, MergeInv
<1>2. RowsOfFrame' /\ RowsAreDated' /\ HitsHaveRows'
  BY FrameRowsNext, DatesNext, HitRowsNext DEF BugsInv
<1>3. \A key \in DOMAIN bugs' : Dates(key)'
  BY BugDatesNext
<1>4. BugsCore'
  BY <1>1, <1>2, <1>3 DEF BugsCore
<1>5. BugsCore' => BugsInv'
  BY CoreIsBugsInv, PTL
<1> QED
  BY <1>4, <1>5

LEMMA BugsInit == Init => BugsInv
<1> SUFFICES ASSUME Init PROVE BugsInv
  OBVIOUS
<1>1. DOMAIN bugs = {} /\ DOMAIN hits = {} /\ \A t \in Trials : DOMAIN rows[t] = {}
  BY DEF Init, InitTables, NoTrial
<1> QED
  BY <1>1, MergeInit, FrameRowsInit DEF BugsInv, RowsAreDated, HitsHaveRows, BugsDatedByFirstHit

\* Every row dates its crashes within its window, but for rewritten files, and every hit
\* is that of a stored row (BugsInv; collector.py:280-290, bugs.py:150-220).
THEOREM BugsInvHolds == Spec => []BugsInv
  BY BugsInit, BugsNext, PTL DEF Spec

\* A bug is dated by the earliest stored crash that hits it, whatever the order of ticks
\* and trials, and names that crash's snapshot (BugsDatedByFirstHit; db/bug.py:103-121).
THEOREM BugsAreDated == Spec => []BugsDatedByFirstHit
<1>1. BugsInv => BugsDatedByFirstHit
  BY DEF BugsInv
<1> QED
  BY <1>1, BugsInvHolds, PTL
=============================================================================
