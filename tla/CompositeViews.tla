----------------------------- MODULE CompositeViews -----------------------------
(***************************************************************************)
(* Composite reports of the web server: the registry of the measurements   *)
(* found in the run directories, the store of temporary views, and the     *)
(* request threads that use both (composite/, web/services, web/routes and *)
(* reporting/composite.py).                                                *)
(*                                                                         *)
(* The server is threaded, runs may be written and deleted while it reads  *)
(* them, the registry is refreshed only on request, and the store forgets  *)
(* the views that were not used for long.  A name shown in a report is a   *)
(* sequence: the fuzzer's name and the numbers appended to it.             *)
(***************************************************************************)
EXTENDS Integers, Sequences, FiniteSets, FiniteSetsExt, SequencesExt, Functions

CONSTANTS
  RunDirs,     \* the configured run directories, as a sequence
  Existing,    \* the runs that are finished when the server starts
  Rows,        \* Rows[r]: the <<fuzzer, target>> pairs of the campaign of run r
  Metadata,    \* Metadata[r]: the descriptor of the measurements of run r
  NoSource,    \* no benchmark_source information was recorded
  Threads,     \* request threads
  Posts,       \* the lists of selections that clients send
  MaxViews,    \* DEFAULT_MAX_VIEWS
  MaxRequests  \* bound: the number of requests

Runs == Range(RunDirs)
Origins == {"fresh", "historical"}

Key(r, row) == [run |-> r, fuzzer |-> row[1], target |-> row[2]]
Keys == UNION {{Key(r, row) : row \in Rows[r]} : r \in Runs}
Selection(k, id, origin, display) ==
  [id |-> id, key |-> k, origin |-> origin, display |-> display]

IsSequence(s) == Len(s) \in Nat /\ s = [i \in 1..Len(s) |-> s[i]]

ASSUME CompositeAssumption ==
  /\ RunDirs \in Seq(Runs) /\ IsInjective(RunDirs)
  /\ Existing \subseteq Runs /\ DOMAIN Rows = Runs /\ DOMAIN Metadata = Runs
  /\ \A r \in Runs : IsFiniteSet(Rows[r]) /\ Metadata[r].repetitions \in Nat
  /\ \A post \in Posts : IsSequence(post) /\ \A i \in DOMAIN post :
       /\ post[i].key \in Keys /\ post[i].origin \in Origins /\ IsSequence(post[i].display)
  /\ MaxViews \in Nat \ {0} /\ MaxRequests \in Nat

VARIABLES
  disk,       \* state of each run directory
  discovery,  \* CompositeRegistry._discovery
  byKey,      \* the domain of CompositeRegistry._by_key
  views,      \* CompositeViewStore._views, the least recently used first
  created,    \* number of views created so far; a view's id is its number
  requests,   \* number of requests so far
  req,        \* the request each thread works on
  steady,     \* history: keys on disk ever since the request of a thread began
  uses,       \* history: how often views were used
  lastUse     \* history: which of these uses was the last one of each view

vars == <<disk, discovery, byKey, views, created, requests, req, steady, uses, lastUse>>

Idle == [pc |-> "idle"]

\* read_measurements: the descriptor rows of a run
KeysOf(r) == {Key(r, row) : row \in disk[r].meta}
KeysOnDisk == UNION {KeysOf(r) : r \in {q \in Runs : disk[q].dir = "ok"}}

\* No database, or one without a metadata table: about to be created, or
\* about to be removed.
Unreadable == {"new", "dying"}

\* discover_measurements, for one run directory
Scanned(found, r) ==
  CASE disk[r].dir \in {"none", "gone"} -> found
    [] disk[r].dir \in Unreadable -> [found EXCEPT !.invalid = @ \cup {r}]
    [] OTHER -> [found EXCEPT !.keys = @ \cup KeysOf(r)]

Nothing == [keys |-> {}, invalid |-> {}]
Discovered == FoldLeft(Scanned, Nothing, RunDirs)

Absent == [dir |-> "none", meta |-> {}, trials |-> {}]
Finished(r) == [dir |-> "ok", meta |-> Rows[r], trials |-> Rows[r]]

\* The server starts among finished runs and runs still to come.
Init ==
  /\ disk = [r \in Runs |-> IF r \in Existing THEN Finished(r) ELSE Absent]
  /\ discovery = Discovered /\ byKey = discovery.keys
  /\ views = <<>> /\ created = 0 /\ requests = 0 /\ uses = 0 /\ lastUse = <<>>
  /\ req = [p \in Threads |-> Idle] /\ steady = [p \in Threads |-> {}]

-----------------------------------------------------------------------------
(* The run directories *)

\* What a change of the disk leaves of the keys that were always there.
Change(r, entry) ==
  /\ disk' = [disk EXCEPT ![r] = entry]
  /\ steady' = [p \in Threads |-> steady[p] \cap
       (IF entry.dir = "ok" THEN KeysOnDisk ELSE {k \in KeysOnDisk : k.run # r})]
  /\ UNCHANGED <<discovery, byKey, views, created, requests, req, uses, lastUse>>

MakeDir(r) == disk[r].dir = "none" /\ Change(r, [disk[r] EXCEPT !.dir = "new"])

MakeDb(r) == disk[r].dir = "new" /\ Change(r, [disk[r] EXCEPT !.dir = "ok"])

\* save_records: one statement for each case, before the first trial
SaveRecord(r) ==
  /\ disk[r].dir = "ok"
  /\ \E row \in Rows[r] \ disk[r].meta : Change(r, [disk[r] EXCEPT !.meta = @ \cup {row}])

\* The first trial of a fuzzer puts it into the payload of the run.
AddTrial(r) ==
  /\ disk[r].dir = "ok" /\ disk[r].meta = Rows[r]
  /\ \E row \in Rows[r] \ disk[r].trials : Change(r, [disk[r] EXCEPT !.trials = @ \cup {row}])

\* delete_run: rmtree takes the database away, and at the end the directory
DeleteRun(r) ==
  \/ disk[r].dir \in {"new", "ok"} /\ Change(r, [Absent EXCEPT !.dir = "dying"])
  \/ disk[r].dir = "dying" /\ Change(r, [Absent EXCEPT !.dir = "gone"])

-----------------------------------------------------------------------------
(* CompositeRegistry.refresh *)

Goto(p, state) == req' = [req EXCEPT ![p] = state]

NewRequest(p) ==
  /\ requests < MaxRequests /\ requests' = requests + 1
  /\ req[p] = Idle

StartRefresh(p) ==
  /\ NewRequest(p)
  /\ Goto(p, [pc |-> "scan", left |-> RunDirs, found |-> Nothing])
  /\ UNCHANGED <<disk, discovery, byKey, views, created, steady, uses, lastUse>>

ScanRun(p) ==
  /\ req[p].pc = "scan" /\ req[p].left # <<>>
  /\ Goto(p, [pc |-> "scan", left |-> Tail(req[p].left),
              found |-> Scanned(req[p].found, Head(req[p].left))])
  /\ UNCHANGED <<disk, discovery, byKey, views, created, requests, steady, uses, lastUse>>

SetDiscovery(p) ==
  /\ req[p].pc = "scan" /\ req[p].left = <<>>
  /\ discovery' = req[p].found
  /\ Goto(p, [pc |-> "index"])
  /\ UNCHANGED <<disk, byKey, views, created, requests, steady, uses, lastUse>>

\* The index is built from the attribute, which may be another thread's.
BuildIndex(p) ==
  /\ req[p].pc = "index"
  /\ Goto(p, [pc |-> "assign", keys |-> discovery.keys])
  /\ UNCHANGED <<disk, discovery, byKey, views, created, requests, steady, uses, lastUse>>

SetIndex(p) ==
  /\ req[p].pc = "assign"
  /\ byKey' = req[p].keys
  /\ Goto(p, Idle)
  /\ UNCHANGED <<disk, discovery, views, created, requests, steady, uses, lastUse>>

-----------------------------------------------------------------------------
(* CompositeViewStore: every operation runs under the lock *)

At(id) == CHOOSE i \in DOMAIN views : views[i].id = id
View(id) == views[At(id)]
Without(id) == RemoveAt(views, At(id))

\* Seeded fault: a view read is not marked as used.
TouchNothing(id) == views

\* get: move_to_end
Touch(id) == Append(Without(id), View(id))

\* replace: current is looked up with get, so the view becomes the newest
Replaced(id, selections) == Append(Without(id), [id |-> id, selections |-> selections])

\* _enforce_limit
Limited(store) == IF Len(store) > MaxViews THEN Tail(store) ELSE store

\* When the views were last used is kept apart from the store.
Uses(id) ==
  /\ uses' = uses + 1
  /\ lastUse' = [v \in {w.id : w \in Range(views)} \cup {id} |->
                   IF v = id THEN uses + 1 ELSE lastUse[v]]

CreateView(selections) ==
  /\ created' = created + 1
  /\ views' = Limited(Append(views, [id |-> created + 1, selections |-> selections]))
  /\ Uses(created + 1)

\* A client posts measurements that the server listed.
Posted == {post \in Posts : \A i \in DOMAIN post : post[i].key \in discovery.keys}

\* create_view
Create(p) ==
  /\ NewRequest(p) /\ \E post \in Posted : CreateView(post)
  /\ UNCHANGED <<disk, discovery, byKey, req, steady>>

\* The numbers of a set in their order
Ascending(S) ==
  [n \in 1..Cardinality(S) |-> CHOOSE i \in S : Cardinality({j \in S : j <= i}) = n]

\* add: the posted selections replace those of the same id in their place
Added(selections, post) ==
  LET all == selections \o post
      Same(i) == {j \in DOMAIN all : all[j].id = all[i].id}
      first == Ascending({i \in DOMAIN all : i = Min(Same(i))})
  IN [n \in DOMAIN first |-> all[Max(Same(first[n]))]]

\* remove: the selections of another id, in their order
Removed(selections, id) ==
  LET kept == Ascending({i \in DOMAIN selections : selections[i].id # id})
  IN [n \in DOMAIN kept |-> selections[kept[n]]]

ReplaceView(p, id, selections) ==
  /\ NewRequest(p) /\ views' = Replaced(id, selections) /\ Uses(id)
  /\ UNCHANGED <<disk, discovery, byKey, created, req, steady>>

AddMeasurements(p) ==
  \E v \in Range(views), post \in Posted : ReplaceView(p, v.id, Added(v.selections, post))

RemoveMeasurement(p) ==
  \E v \in Range(views) : \E s \in Range(v.selections) :
    ReplaceView(p, v.id, Removed(v.selections, s.id))

\* create_view_from_run: the database is read first, the view created then
SeedView(p) ==
  /\ NewRequest(p)
  /\ \E r \in Runs :
       /\ disk[r].dir = "ok"
       /\ Goto(p, [pc |-> "seed", keys |-> KeysOf(r)])
  /\ UNCHANGED <<disk, discovery, byKey, views, created, steady, uses, lastUse>>

Seeded(keys) ==
  LET list == SetToSeq(keys)
  IN [i \in DOMAIN list |-> Selection(list[i], list[i], "fresh", <<>>)]

CreateSeeded(p) ==
  /\ req[p].pc = "seed"
  /\ CreateView(Seeded(req[p].keys))
  /\ Goto(p, Idle)
  /\ UNCHANGED <<disk, discovery, byKey, requests, steady>>

-----------------------------------------------------------------------------
(* view_summary and view_report_data *)

OpenView(p, op, id) ==
  /\ NewRequest(p)
  /\ views' = Touch(id) /\ Uses(id)
  /\ Goto(p, [pc |-> "resolve", op |-> op, selections |-> View(id).selections,
              status |-> <<>>, payloads |-> [r \in {} |-> {}]])
  /\ steady' = [steady EXCEPT ![p] = KeysOnDisk]
  /\ UNCHANGED <<disk, discovery, byKey, created>>

ViewSummary(p) == \E v \in Range(views) : OpenView(p, "summary", v.id)
ViewReportData(p) == \E v \in Range(views) : OpenView(p, "report", v.id)

NextKey(p) == req[p].selections[Len(req[p].status) + 1].key

\* What follows when the outcome for a selection is known: a summary goes on
\* with the next one, a report ends with the first one that is not found.
Resolved(p, outcome) ==
  LET state == [req[p] EXCEPT !.status = Append(@, outcome)]
      over  == Len(state.status) = Len(state.selections)
  IN Goto(p, [state EXCEPT !.pc =
       CASE state.op = "report" /\ outcome # "ok" -> "reply"
         [] over -> IF state.op = "report" THEN "payload" ELSE "reply"
         [] OTHER -> "resolve"])

\* Seeded fault: what the registry does not know does not exist.
LookUpRegistryOnly(p) ==
  Resolved(p, IF NextKey(p) \in byKey THEN "ok" ELSE "missing")

\* registry.get
LookUp(p) ==
  IF NextKey(p) \in byKey THEN Resolved(p, "ok") ELSE Goto(p, [req[p] EXCEPT !.pc = "disk"])

Resolve(p) ==
  /\ req[p].pc = "resolve" /\ Len(req[p].status) < Len(req[p].selections)
  /\ LookUp(p)
  /\ UNCHANGED <<disk, discovery, byKey, views, created, requests, steady, uses, lastUse>>

\* An empty view: nothing to resolve.
ResolveNothing(p) ==
  /\ req[p].pc = "resolve" /\ req[p].selections = <<>>
  /\ Goto(p, [req[p] EXCEPT !.pc = "reply"])
  /\ UNCHANGED <<disk, discovery, byKey, views, created, requests, steady, uses, lastUse>>

\* _read_run_measurement: a summary takes an error for a missing source
ReadDisk(p) ==
  /\ req[p].pc = "disk"
  /\ LET r == NextKey(p).run
     IN Resolved(p, CASE disk[r].dir = "ok" /\ NextKey(p) \in KeysOf(r) -> "ok"
                      [] disk[r].dir \in Unreadable /\ req[p].op = "report" -> "error"
                      [] OTHER -> "missing")
  /\ UNCHANGED <<disk, discovery, byKey, views, created, requests, steady, uses, lastUse>>

\* The selections of runs whose payload is not built yet
Open(state) ==
  {i \in DOMAIN state.selections : state.selections[i].key.run \notin DOMAIN state.payloads}

\* build_payload of the next run, once for each run; it raises when the
\* database cannot be opened
ReadPayload(p) ==
  /\ req[p].pc = "payload"
  /\ LET open == Open(req[p])
         next == req[p].selections[Min(open)].key.run
     IN Goto(p, IF open = {} THEN [req[p] EXCEPT !.pc = "reply"]
                ELSE IF disk[next].dir # "ok"
                THEN [req[p] EXCEPT !.pc = "reply", !.status = Append(@, "error")]
                ELSE [req[p] EXCEPT !.payloads =
                        [r \in DOMAIN @ \cup {next} |->
                           IF r \in DOMAIN @ THEN @[r] ELSE disk[r].trials]])
  /\ UNCHANGED <<disk, discovery, byKey, views, created, requests, steady, uses, lastUse>>

Reply(p) ==
  /\ req[p].pc = "reply"
  /\ Goto(p, Idle) /\ steady' = [steady EXCEPT ![p] = {}]
  /\ UNCHANGED <<disk, discovery, byKey, views, created, requests, uses, lastUse>>

Next ==
  \/ \E r \in Runs : MakeDir(r) \/ MakeDb(r) \/ SaveRecord(r) \/ AddTrial(r) \/ DeleteRun(r)
  \/ \E p \in Threads :
       \/ StartRefresh(p) \/ ScanRun(p) \/ SetDiscovery(p) \/ BuildIndex(p) \/ SetIndex(p)
       \/ Create(p) \/ AddMeasurements(p) \/ RemoveMeasurement(p)
       \/ SeedView(p) \/ CreateSeeded(p)
       \/ ViewSummary(p) \/ ViewReportData(p)
       \/ Resolve(p) \/ ResolveNothing(p) \/ ReadDisk(p) \/ ReadPayload(p) \/ Reply(p)

Spec == Init /\ [][Next]_vars

-----------------------------------------------------------------------------
(* build_composite_payload *)

\* Seeded fault: the third series of a name is numbered like the second.
DisplayFuzzerSecond(base, taken) ==
  IF base \notin taken THEN base ELSE Append(base, 2)

\* _display_fuzzer
DisplayFuzzer(base, taken) ==
  IF base \notin taken THEN base
  ELSE Append(base, CHOOSE n \in 2..Cardinality(taken) + 2 :
         /\ Append(base, n) \notin taken
         /\ \A m \in 2..n - 1 : Append(base, m) \in taken)

\* The names shown, in the order of the selections; names are claimed for
\* skipped series too.
Base(s) == IF s.display = <<>> THEN <<s.key.fuzzer>> ELSE s.display
Names(selections) ==
  LET Before(i) == {j \in 1..i - 1 : selections[j].key.target = selections[i].key.target}
      names[i \in DOMAIN selections] ==
        [target |-> selections[i].key.target,
         name |-> DisplayFuzzer(Base(selections[i]), {names[j].name : j \in Before(i)})]
  IN names

\* _merge_measurement: the selections whose data the payload of their run has
Merged(state) ==
  {i \in DOMAIN state.selections :
     LET k == state.selections[i].key IN <<k.fuzzer, k.target>> \in state.payloads[k.run]}

\* source_dirs: where the coverage sets shown under a name are read from
SourceDir(state, shown) ==
  LET names == Names(state.selections)
  IN state.selections[Max({i \in Merged(state) : names[i] = shown})].key.run

\* _reference_for: 0 when there is nothing to compare with
Reference(selections, i) ==
  LET same  == {j \in DOMAIN selections : selections[j].key.target = selections[i].key.target}
      fresh == {j \in same : selections[j].origin = "fresh"}
  IN IF same = {i} THEN 0 ELSE IF fresh # {} THEN Min(fresh) ELSE Min(same)

\* compare_metadata
Compare(reference, candidate) ==
  CASE reference.config # candidate.config -> "incompatible"
    [] \/ reference.environment # candidate.environment
       \/ reference.source = NoSource \/ reference.source # candidate.source -> "risky"
    [] OTHER -> "compatible"

\* _compatibility_for, with the warnings of _attach_policy_warnings
Level(selections, i) ==
  LET at == Reference(selections, i)
      level == Compare(Metadata[selections[at].key.run], Metadata[selections[i].key.run])
      less(field) == LET c == Metadata[selections[i].key.run][field]
                         r == Metadata[selections[at].key.run][field]
                     IN c # 0 /\ r # 0 /\ c < r
  IN IF at = 0 \/ selections[at].key = selections[i].key THEN "compatible"
     ELSE IF /\ level = "compatible" /\ selections[at].origin = "fresh"
             /\ less("repetitions") \/ less("runtime")
     THEN "risky" ELSE level

Replies(op) == {req[p] : p \in {q \in Threads : req[q].pc = "reply" /\ req[q].op = op}}
Complete == {state \in Replies("report") : \A i \in DOMAIN state.status : state.status[i] = "ok"}

-----------------------------------------------------------------------------
\* The store evicts a view only to make room, and then the one whose last use
\* lies furthest back: no view that stays was used before it (CompositeViewStore).
EvictsLeastRecentlyUsed ==
  [][\A v \in Range(views) : (\A w \in Range(views') : w.id # v.id) =>
       /\ Len(views) = MaxViews /\ created' = created + 1
       /\ \A w \in Range(views) \ {v} :
            lastUse[v.id] < lastUse[w.id]]_vars

\* A measurement that is on disk as long as the request lasts is never reported
\* missing, and a report of such measurements does not fail, however stale the
\* registry is and whichever refreshes are under way (_resolve_entries).
NeverFalselyMissing ==
  \A p \in Threads : req[p].pc = "reply" =>
    LET state == req[p]
    IN /\ \A i \in DOMAIN state.status :
            i \in DOMAIN state.selections /\ state.status[i] # "ok" =>
              state.selections[i].key \notin steady[p]
       /\ {s.key : s \in Range(state.selections)} \subseteq steady[p] =>
            \A i \in DOMAIN state.status : state.status[i] = "ok"

\* In a report no two series of a target have one name, every series is shown
\* with the coverage sets of its own run, and no historical series is called
\* compatible in a target all of whose fresh series have more repetitions
\* (build_composite_payload, _compatibility_for).
SeriesAreAttributed ==
  \A state \in Complete :
    LET selections == state.selections
        names == Names(selections)
        Repetitions(i) == Metadata[selections[i].key.run].repetitions
        Fresh(i) == {j \in DOMAIN selections : selections[j].origin = "fresh"
                                               /\ names[j].target = names[i].target}
    IN /\ \A i, j \in Merged(state) : i # j => names[i] # names[j]
       /\ \A i \in Merged(state) : SourceDir(state, names[i]) = selections[i].key.run
       /\ \A i \in DOMAIN selections :
            /\ selections[i].origin = "historical" /\ 0 < Repetitions(i)
            /\ Fresh(i) # {} /\ \A j \in Fresh(i) : Repetitions(i) < Repetitions(j)
            => Level(selections, i) # "compatible"

-----------------------------------------------------------------------------
(* The inductive invariant *)

SelectionsOK(selections) ==
  /\ IsSequence(selections)
  /\ \A i \in 1..Len(selections) :
       /\ selections[i].key \in Keys /\ IsSequence(selections[i].display)

DiskOK ==
  disk \in [Runs -> [dir : {"none", "new", "ok", "dying", "gone"},
                     meta : SUBSET UNION {Rows[r] : r \in Runs},
                     trials : SUBSET UNION {Rows[r] : r \in Runs}]]

\* A descriptor on disk is one of the run's own.
DescriptorsOK == \A r \in Runs : disk[r].meta \subseteq Rows[r]

ViewsOK ==
  /\ created \in Nat /\ IsSequence(views) /\ Len(views) <= MaxViews
  /\ \A i \in 1..Len(views) :
       /\ views[i].id \in 1..created /\ SelectionsOK(views[i].selections)

\* The order of the store is the order of the last uses.
UsesOK ==
  /\ uses \in Nat
  /\ \A i \in 1..Len(views) : views[i].id \in DOMAIN lastUse /\ lastUse[views[i].id] \in 1..uses
  /\ \A i, j \in 1..Len(views) : i < j => lastUse[views[i].id] < lastUse[views[j].id]

\* What a request has found out of its selections is not contradicted by what
\* was on disk all the time.
OpenedOK(state, onDisk) ==
  /\ state = [pc |-> state.pc, op |-> state.op, selections |-> state.selections,
              status |-> state.status, payloads |-> state.payloads]
  /\ SelectionsOK(state.selections) /\ IsSequence(state.status)
  /\ state.pc = "resolve" => Len(state.status) <= Len(state.selections)
  /\ state.pc = "disk" => Len(state.status) < Len(state.selections)
  /\ state.pc = "payload" => Len(state.status) = Len(state.selections)
  /\ \A i \in 1..Len(state.status) : state.status[i] # "ok" =>
       /\ i \in 1..Len(state.selections) => state.selections[i].key \notin onDisk
       /\ \E j \in 1..Len(state.selections) : state.selections[j].key \notin onDisk

RequestOK(state, onDisk) ==
  \/ state = Idle \/ state = [pc |-> "index"]
  \/ state.pc = "scan" /\ state = [pc |-> "scan", left |-> state.left, found |-> state.found]
  \/ state.pc = "assign" /\ state = [pc |-> "assign", keys |-> state.keys]
  \/ /\ state.pc = "seed" /\ state = [pc |-> "seed", keys |-> state.keys]
     /\ state.keys \subseteq Keys /\ IsFiniteSet(state.keys)
  \/ state.pc \in {"resolve", "disk", "payload", "reply"} /\ OpenedOK(state, onDisk)

RequestsOK ==
  /\ req = [p \in Threads |-> req[p]] /\ steady = [p \in Threads |-> steady[p]]
  /\ \A p \in Threads : steady[p] \subseteq KeysOnDisk /\ RequestOK(req[p], steady[p])

ViewsInv == DiskOK /\ DescriptorsOK /\ ViewsOK /\ UsesOK /\ RequestsOK
=============================================================================
