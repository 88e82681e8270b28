-------------------------- MODULE CompositeViews_proofs --------------------------
(* What the registry and the view store promise, for any number of runs,    *)
(* threads, requests and views.                                            *)
EXTENDS CompositeViews, FiniteSetTheorems, SequenceTheorems,
  WellFoundedInduction, TLAPS

-----------------------------------------------------------------------------
(* Sequences *)

\* A sequence in the sense of the library is a function on an initial segment.
LEMMA SeqIsSequence ==
  ASSUME NEW S, NEW s \in Seq(S)
  PROVE  IsSequence(s)
BY LenProperties DEF IsSequence

LEMMA SequenceIsSeq ==
  ASSUME NEW s, IsSequence(s)
  PROVE  s \in Seq({s[i] : i \in 1..Len(s)}) /\ DOMAIN s = 1..Len(s)
<1> DEFINE S == {s[i] : i \in 1..Len(s)}
           n == Len(s)
<1>1. n \in Nat /\ s = [i \in 1..n |-> s[i]] BY DEF IsSequence
<1>2. [i \in 1..n |-> s[i]] \in [1..n -> S] OBVIOUS
<1>3. s \in [1..n -> S] BY <1>1, <1>2
<1>4. DOMAIN s = 1..n BY <1>3
<1> HIDE DEF S, n
<1>5. s \in Seq(S) BY <1>1, <1>3, SeqDef
<1> QED BY <1>4, <1>5 DEF S, n

\* Any function on an initial segment is a sequence of that length.
LEMMA FunctionIsSequence ==
  ASSUME NEW s, NEW n \in Nat, s = [i \in 1..n |-> s[i]]
  PROVE  IsSequence(s) /\ Len(s) = n /\ DOMAIN s = 1..n
<1> DEFINE S == {s[i] : i \in 1..n}
<1>1. [i \in 1..n |-> s[i]] \in [1..n -> S] OBVIOUS
<1>2. s \in [1..n -> S] BY <1>1
<1>3. DOMAIN s = 1..n BY <1>2
<1> HIDE DEF S
<1>4. s \in Seq(S) BY <1>2, SeqDef
<1>5. DOMAIN s = 1..Len(s) /\ Len(s) \in Nat BY <1>4, LenProperties
<1>6. Len(s) = n BY <1>3, <1>5
<1> QED BY <1>3, <1>4, <1>6, SeqIsSequence

LEMMA EmptyIsSequence ==
  IsSequence(<<>>) /\ Len(<<>>) = 0
BY EmptySeq, SeqIsSequence

\* What an element appended leaves of a sequence.
LEMMA Appended ==
  ASSUME NEW s, IsSequence(s), NEW x
  PROVE  /\ IsSequence(Append(s, x)) /\ Len(Append(s, x)) = Len(s) + 1
         /\ \A i \in 1..Len(s) + 1 : Append(s, x)[i] = IF i <= Len(s) THEN s[i] ELSE x
<1> DEFINE S == {s[i] : i \in 1..Len(s)} \cup {x}
<1>1. s \in Seq(S)
  <2>1. s \in Seq({s[i] : i \in 1..Len(s)}) BY SequenceIsSeq
  <2>2. {s[i] : i \in 1..Len(s)} \subseteq S OBVIOUS
  <2> QED BY <2>1, <2>2, SeqMonotonic
<1>2. Len(s) \in Nat BY DEF IsSequence
<1> HIDE DEF S
<1>3. x \in S BY DEF S
<1>4. /\ Append(s, x) \in Seq(S) /\ Append(s, x) # <<>>
      /\ Len(Append(s, x)) = Len(s) + 1
      /\ \A i \in 1..Len(s) : Append(s, x)[i] = s[i]
      /\ Append(s, x)[Len(s) + 1] = x
  BY <1>1, <1>3, AppendProperties
<1>5. IsSequence(Append(s, x)) BY <1>4, SeqIsSequence
<1> QED BY <1>2, <1>4, <1>5

\* The same of a sequence without its first element.
LEMMA Tailed ==
  ASSUME NEW s, IsSequence(s), Len(s) > 0
  PROVE  /\ IsSequence(Tail(s)) /\ Len(Tail(s)) = Len(s) - 1
         /\ \A i \in 1..Len(s) - 1 : Tail(s)[i] = s[i + 1]
<1> DEFINE S == {s[i] : i \in 1..Len(s)}
<1>1. s \in Seq(S) BY SequenceIsSeq
<1> HIDE DEF S
<1>2. s # <<>> BY EmptySeq
<1>3. /\ Tail(s) \in Seq(S) /\ Len(Tail(s)) = Len(s) - 1
      /\ \A i \in 1..Len(Tail(s)) : Tail(s)[i] = s[i + 1]
  BY <1>1, <1>2, HeadTailProperties
<1> QED BY <1>3, SeqIsSequence

\* An element taken out of its place and another one put to the end.
LEMMA Moved ==
  ASSUME NEW s, IsSequence(s), NEW k \in 1..Len(s), NEW x
  PROVE  LET t == Append(RemoveAt(s, k), x)
         IN /\ IsSequence(t) /\ Len(t) = Len(s) /\ t[Len(s)] = x
            /\ \A i \in 1..Len(s) - 1 : t[i] = IF i < k THEN s[i] ELSE s[i + 1]
<1> DEFINE n == Len(s)
           S == {s[i] : i \in 1..n}
           a == SubSeq(s, 1, k - 1)
           b == SubSeq(s, k + 1, n)
<1>1. n \in Nat /\ k \in 1..n BY DEF IsSequence
<1>2. \A i \in 1..n : s[i] \in S OBVIOUS
<1> HIDE DEF n, S
<1>3. /\ a \in Seq(S) /\ Len(a) = k - 1
      /\ \A i \in 1..k - 1 : a[i] = s[i]
  <2>1. /\ SubSeq(s, 1, k - 1) \in Seq(S)
        /\ Len(SubSeq(s, 1, k - 1)) = IF 1 <= k - 1 THEN k - 1 - 1 + 1 ELSE 0
        /\ \A i \in 1..k - 1 - 1 + 1 : SubSeq(s, 1, k - 1)[i] = s[1 + i - 1]
    BY <1>1, <1>2, SubSeqProperties
  <2> QED BY <1>1, <2>1
<1>4. /\ b \in Seq(S) /\ Len(b) = n - k
      /\ \A i \in 1..n - k : b[i] = s[k + i]
  <2>1. /\ SubSeq(s, k + 1, n) \in Seq(S)
        /\ Len(SubSeq(s, k + 1, n)) = IF k + 1 <= n THEN n - (k + 1) + 1 ELSE 0
        /\ \A i \in 1..n - (k + 1) + 1 : SubSeq(s, k + 1, n)[i] = s[k + 1 + i - 1]
    BY <1>1, <1>2, SubSeqProperties
  <2>2. Len(b) = n - k BY <1>1, <2>1
  <2>3. ASSUME NEW i \in 1..n - k PROVE b[i] = s[k + i]
    <3>1. i \in 1..n - (k + 1) + 1 /\ k + 1 + i - 1 = k + i BY <1>1
    <3>2. b[i] = s[k + 1 + i - 1] BY <2>1, <3>1
    <3> QED BY <3>1, <3>2
  <2> QED BY <2>1, <2>2, <2>3
<1> HIDE DEF a, b
<1> DEFINE r == a \o b
<1>5. /\ r \in Seq(S) /\ Len(r) = n - 1
      /\ \A i \in 1..n - 1 : r[i] = IF i < k THEN s[i] ELSE s[i + 1]
  <2>1. /\ r \in Seq(S) /\ Len(r) = Len(a) + Len(b)
        /\ \A i \in 1..Len(a) + Len(b) : r[i] = IF i <= Len(a) THEN a[i] ELSE b[i - Len(a)]
    BY <1>3, <1>4, ConcatProperties
  <2>2. Len(r) = n - 1 BY <1>1, <1>3, <1>4, <2>1
  <2>3. ASSUME NEW i \in 1..n - 1 PROVE r[i] = IF i < k THEN s[i] ELSE s[i + 1]
    <3>1. r[i] = IF i <= k - 1 THEN a[i] ELSE b[i - (k - 1)] BY <1>1, <1>3, <1>4, <2>1
    <3>2. CASE i < k BY <1>1, <1>3, <3>1, <3>2
    <3>3. CASE ~(i < k)
      <4>1. i - (k - 1) \in 1..n - k BY <1>1, <3>3
      <4>2. b[i - (k - 1)] = s[k + (i - (k - 1))] BY <1>4, <4>1
      <4>3. k + (i - (k - 1)) = i + 1 BY <1>1
      <4> QED BY <1>1, <3>1, <3>3, <4>2, <4>3
    <3> QED BY <3>2, <3>3
  <2> QED BY <2>1, <2>2, <2>3
<1>6. r = RemoveAt(s, k) BY DEF RemoveAt, r, a, b, n
<1> HIDE DEF r
<1>7. IsSequence(r) BY <1>5, SeqIsSequence
<1>8. /\ IsSequence(Append(r, x)) /\ Len(Append(r, x)) = n
      /\ \A i \in 1..n : Append(r, x)[i] = IF i <= n - 1 THEN r[i] ELSE x
  BY <1>1, <1>5, <1>7, Appended
<1>9. /\ Append(r, x)[n] = x
      /\ \A i \in 1..n - 1 : Append(r, x)[i] = IF i < k THEN s[i] ELSE s[i + 1]
  BY <1>1, <1>5, <1>8
<1> QED BY <1>6, <1>8, <1>9 DEF n

-----------------------------------------------------------------------------
(* The run directories *)

LEMMA OnDisk ==
  ASSUME NEW k
  PROVE  k \in KeysOnDisk <=>
           \E r \in Runs : \E row \in disk[r].meta : disk[r].dir = "ok" /\ k = Key(r, row)
BY DEF KeysOnDisk, KeysOf

\* What a request may rely on shrinks and never grows.
LEMMA RequestOKShrinks ==
  ASSUME NEW state, NEW S, NEW T \in SUBSET S, RequestOK(state, S)
  PROVE  RequestOK(state, T)
<1>1. CASE state.pc \in {"resolve", "disk", "payload", "reply"} /\ OpenedOK(state, S)
  <2>1. OpenedOK(state, T)
    <3>1. \A i \in 1..Len(state.status) : state.status[i] # "ok" =>
            /\ i \in 1..Len(state.selections) => state.selections[i].key \notin T
            /\ \E j \in 1..Len(state.selections) : state.selections[j].key \notin T
      BY <1>1 DEF OpenedOK
    <3> QED BY <1>1, <3>1 DEF OpenedOK
  <2> QED BY <1>1, <2>1 DEF RequestOK
<1>2. CASE ~(state.pc \in {"resolve", "disk", "payload", "reply"} /\ OpenedOK(state, S))
  BY <1>2 DEF RequestOK
<1> QED BY <1>1, <1>2

\* A descriptor read from a run directory is one of the run's own.
LEMMA KeysOfRun ==
  ASSUME DescriptorsOK, NEW r \in Runs
  PROVE  KeysOf(r) \subseteq Keys /\ IsFiniteSet(KeysOf(r))
<1>1. disk[r].meta \subseteq Rows[r] BY DEF DescriptorsOK
<1>2. KeysOf(r) \subseteq Keys BY <1>1 DEF KeysOf, Keys
<1>3. IsFiniteSet(disk[r].meta) BY <1>1, CompositeAssumption, FS_Subset
<1> DEFINE f == [row \in disk[r].meta |-> Key(r, row)]
<1>4. f \in Surjection(disk[r].meta, KeysOf(r)) BY DEF Surjection, KeysOf
<1>5. IsFiniteSet(KeysOf(r))
  <2> HIDE DEF f
  <2> QED BY <1>3, <1>4, FS_Surjection
<1> QED BY <1>2, <1>5

Dirs == {"none", "new", "ok", "dying", "gone"}
AllRows == UNION {Rows[r] : r \in Runs}
Entry == [dir : Dirs, meta : SUBSET AllRows, trials : SUBSET AllRows]

LEMMA DiskType ==
  ASSUME DiskOK
  PROVE  disk \in [Runs -> Entry]
BY DEF DiskOK, Entry, AllRows, Dirs

\* A change of one run directory that takes no descriptor from a run it leaves
\* readable keeps the invariant.
LEMMA ChangeKeeps ==
  ASSUME ViewsInv, NEW r \in Runs, NEW entry \in Entry, Change(r, entry),
         entry.meta \subseteq Rows[r],
         entry.dir = "ok" /\ disk[r].dir = "ok" => disk[r].meta \subseteq entry.meta
  PROVE  ViewsInv'
<1>1. disk' = [disk EXCEPT ![r] = entry] /\ disk \in [Runs -> Entry]
  BY DiskType DEF Change, ViewsInv
<1>2. disk' \in [Runs -> Entry] /\ disk'[r] = entry
      /\ \A q \in Runs \ {r} : disk'[q] = disk[q]
  BY <1>1
<1>3. UNCHANGED <<views, created, req, uses, lastUse>> BY DEF Change
<1>4. DiskOK' BY <1>2 DEF DiskOK, Entry, AllRows, Dirs
<1>5. DescriptorsOK' BY <1>2 DEF DescriptorsOK, ViewsInv
<1>6. ViewsOK' BY <1>3 DEF ViewsOK, ViewsInv
<1>7. UsesOK' BY <1>3 DEF UsesOK, ViewsInv
<1>8. ASSUME NEW k, k \in IF entry.dir = "ok" THEN KeysOnDisk ELSE {l \in KeysOnDisk : l.run # r}
      PROVE  k \in KeysOnDisk'
  <2>a. PICK q \in Runs : \E row \in disk[q].meta : disk[q].dir = "ok" /\ k = Key(q, row)
    BY <1>8, OnDisk
  <2>1. PICK row \in disk[q].meta : disk[q].dir = "ok" /\ k = Key(q, row)
    BY <2>a
  <2>2. CASE q = r
    <3>1. k.run = r BY <2>1, <2>2 DEF Key
    <3>2. entry.dir = "ok" BY <1>8, <3>1
    <3>3. row \in disk'[r].meta /\ disk'[r].dir = "ok" BY <1>2, <2>1, <2>2, <3>2
    <3> QED BY <2>1, <2>2, <3>3 DEF KeysOnDisk, KeysOf
  <2>3. CASE q # r
    <3>1. disk'[q] = disk[q] BY <1>2, <2>3
    <3> QED BY <2>1, <3>1 DEF KeysOnDisk, KeysOf
  <2> QED BY <2>2, <2>3
<1>9. RequestsOK'
  <2>1. steady' = [p \in Threads |-> steady[p] \cap
          (IF entry.dir = "ok" THEN KeysOnDisk ELSE {l \in KeysOnDisk : l.run # r})]
    BY DEF Change
  <2>2. req = [p \in Threads |-> req[p]] BY DEF ViewsInv, RequestsOK
  <2>3. ASSUME NEW p \in Threads
        PROVE  steady'[p] \subseteq KeysOnDisk' /\ RequestOK(req[p], steady'[p])
    <3>1. steady'[p] \subseteq steady[p] /\ steady'[p] \subseteq KeysOnDisk'
      BY <1>8, <2>1
    <3>2. RequestOK(req[p], steady[p]) BY DEF ViewsInv, RequestsOK
    <3> QED BY <3>1, <3>2, RequestOKShrinks
  <2>4. steady' = [p \in Threads |-> steady'[p]] BY <2>1
  <2> QED BY <1>3, <2>2, <2>3, <2>4 DEF RequestsOK
<1> QED BY <1>4, <1>5, <1>6, <1>7, <1>9 DEF ViewsInv

\* Every step of a run keeps the invariant.
LEMMA RunStepKeeps ==
  ASSUME ViewsInv, NEW r \in Runs,
         MakeDir(r) \/ MakeDb(r) \/ SaveRecord(r) \/ AddTrial(r) \/ DeleteRun(r)
  PROVE  ViewsInv'
<1>1. disk[r] \in Entry /\ disk[r].meta \subseteq Rows[r] /\ Rows[r] \subseteq AllRows
  BY DiskType DEF ViewsInv, DescriptorsOK, AllRows
<1>2. CASE MakeDir(r)
  <2> DEFINE entry == [disk[r] EXCEPT !.dir = "new"]
  <2>1. entry \in Entry /\ entry.meta = disk[r].meta /\ entry.dir = "new"
    BY <1>1 DEF Entry, Dirs
  <2>2. Change(r, entry) BY <1>2 DEF MakeDir
  <2> HIDE DEF entry
  <2> QED BY <1>1, <2>1, <2>2, ChangeKeeps
<1>3. CASE MakeDb(r)
  <2> DEFINE entry == [disk[r] EXCEPT !.dir = "ok"]
  <2>1. entry \in Entry /\ entry.meta = disk[r].meta
    BY <1>1 DEF Entry, Dirs
  <2>2. Change(r, entry) BY <1>3 DEF MakeDb
  <2> HIDE DEF entry
  <2> QED BY <1>1, <2>1, <2>2, ChangeKeeps
<1>4. CASE SaveRecord(r)
  <2>1. PICK row \in Rows[r] \ disk[r].meta :
          Change(r, [disk[r] EXCEPT !.meta = @ \cup {row}])
    BY <1>4 DEF SaveRecord
  <2> DEFINE entry == [disk[r] EXCEPT !.meta = @ \cup {row}]
  <2>2. entry \in Entry /\ entry.meta = disk[r].meta \cup {row}
    BY <1>1 DEF Entry, Dirs
  <2>3. Change(r, entry) BY <2>1
  <2> HIDE DEF entry
  <2> QED BY <1>1, <2>2, <2>3, ChangeKeeps
<1>5. CASE AddTrial(r)
  <2>1. PICK row \in Rows[r] \ disk[r].trials :
          Change(r, [disk[r] EXCEPT !.trials = @ \cup {row}])
    BY <1>5 DEF AddTrial
  <2> DEFINE entry == [disk[r] EXCEPT !.trials = @ \cup {row}]
  <2>2. entry \in Entry /\ entry.meta = disk[r].meta
    BY <1>1 DEF Entry, Dirs
  <2>3. Change(r, entry) BY <2>1
  <2> HIDE DEF entry
  <2> QED BY <1>1, <2>2, <2>3, ChangeKeeps
<1>6. CASE DeleteRun(r)
  <2>1. PICK dir \in {"dying", "gone"} : Change(r, [Absent EXCEPT !.dir = dir])
    BY <1>6 DEF DeleteRun
  <2> DEFINE entry == [Absent EXCEPT !.dir = dir]
  <2>2. entry \in Entry /\ entry.meta = {} /\ entry.dir # "ok"
    BY DEF Entry, Dirs, Absent
  <2>3. Change(r, entry) BY <2>1
  <2> HIDE DEF entry
  <2> QED BY <1>1, <2>2, <2>3, ChangeKeeps
<1> QED BY <1>2, <1>3, <1>4, <1>5, <1>6

-----------------------------------------------------------------------------
(* The view store *)

LEMMA ViewPlace ==
  ASSUME ViewsOK, NEW v \in Range(views)
  PROVE  At(v.id) \in 1..Len(views) /\ views[At(v.id)].id = v.id
<1>1. DOMAIN views = 1..Len(views) BY SequenceIsSeq DEF ViewsOK
<1>2. \E i \in 1..Len(views) : views[i].id = v.id BY <1>1 DEF Range
<1> QED BY <1>1, <1>2 DEF At

\* A view that is looked up or replaced goes to the end of the store and is the
\* one used last; no view leaves the store.
LEMMA UseKeeps ==
  ASSUME ViewsOK, UsesOK, NEW k \in 1..Len(views), NEW x,
         x.id = views[k].id, SelectionsOK(x.selections),
         views' = Append(RemoveAt(views, k), x), Uses(views[k].id), created' = created
  PROVE  /\ ViewsOK' /\ UsesOK'
         /\ \A v \in Range(views) : \E w \in Range(views') : w.id = v.id
<1> DEFINE n == Len(views)
           id == views[k].id
<1>1. /\ n \in Nat /\ n <= MaxViews /\ IsSequence(views) /\ created \in Nat
      /\ \A i \in 1..n : views[i].id \in 1..created /\ SelectionsOK(views[i].selections)
  BY DEF ViewsOK, IsSequence
<1>2. /\ IsSequence(views') /\ Len(views') = n /\ views'[n] = x
      /\ \A i \in 1..n - 1 : views'[i] = IF i < k THEN views[i] ELSE views[i + 1]
  BY <1>1, Moved
<1>3. ViewsOK'
  <2>1. ASSUME NEW i \in 1..n
        PROVE  views'[i].id \in 1..created /\ SelectionsOK(views'[i].selections)
    <3>1. CASE i = n BY <1>1, <1>2, <3>1
    <3>2. CASE i # n
      <4>1. i \in 1..n - 1 /\ i + 1 \in 1..n BY <1>1, <3>2
      <4>2. CASE i < k BY <1>1, <1>2, <4>1, <4>2
      <4>3. CASE ~(i < k) BY <1>1, <1>2, <4>1, <4>3
      <4> QED BY <4>2, <4>3
    <3> QED BY <3>1, <3>2
  <2> QED BY <1>1, <1>2, <2>1 DEF ViewsOK
<1>4. /\ uses \in Nat /\ uses' = uses + 1
      /\ \A i \in 1..n : views[i].id \in DOMAIN lastUse /\ lastUse[views[i].id] \in 1..uses
      /\ \A i, j \in 1..n : i < j => lastUse[views[i].id] < lastUse[views[j].id]
  BY DEF UsesOK, Uses
<1>5. /\ \A i \in 1..n : views[i].id \in DOMAIN lastUse'
      /\ lastUse'[id] = uses + 1
      /\ \A i \in 1..n : i # k => lastUse'[views[i].id] = lastUse[views[i].id]
  <2>1. lastUse' = [v \in {w.id : w \in Range(views)} \cup {id} |->
                      IF v = id THEN uses + 1 ELSE lastUse[v]]
    BY DEF Uses
  <2>2. DOMAIN views = 1..n BY <1>1, SequenceIsSeq
  <2>3. \A i \in 1..n : views[i].id \in {w.id : w \in Range(views)} BY <2>2 DEF Range
  <2>4. \A i \in 1..n : i # k => views[i].id # id BY <1>1, <1>4
  <2> QED BY <2>1, <2>3, <2>4
<1> DEFINE old(i) == IF i = n THEN k ELSE IF i < k THEN i ELSE i + 1
<1>6. /\ \A i \in 1..n : old(i) \in 1..n /\ views'[i].id = views[old(i)].id
      /\ \A i \in 1..n : i = n <=> old(i) = k
      /\ \A i, j \in 1..n - 1 : i < j => old(i) < old(j)
      /\ \A i \in 1..n : \E j \in 1..n : old(j) = i
  <2>1. ASSUME NEW i \in 1..n PROVE old(i) \in 1..n /\ views'[i].id = views[old(i)].id
    <3>1. CASE i = n BY <1>2, <3>1
    <3>2. CASE i # n BY <1>1, <1>2, <3>2
    <3> QED BY <3>1, <3>2
  <2>2. \A i \in 1..n : i = n <=> old(i) = k BY <1>1
  <2>3. \A i, j \in 1..n - 1 : i < j => old(i) < old(j) BY <1>1
  <2>4. ASSUME NEW i \in 1..n PROVE \E j \in 1..n : old(j) = i
    <3>1. CASE i = k
      <4>1. n \in 1..n /\ old(n) = k BY <1>1
      <4> QED BY <3>1, <4>1
    <3>2. CASE i < k
      <4>1. i \in 1..n /\ old(i) = i BY <1>1, <3>2
      <4> QED BY <4>1
    <3>3. CASE i > k
      <4>1. i - 1 \in 1..n /\ old(i - 1) = i BY <1>1, <3>3
      <4> QED BY <4>1
    <3>4. i = k \/ i < k \/ i > k BY <1>1
    <3> QED BY <3>1, <3>2, <3>3, <3>4
  <2> QED BY <2>1, <2>2, <2>3, <2>4
<1>a. views'[n].id = id BY <1>2
<1> HIDE DEF old, n, id
<1>7. UsesOK'
  <2>1. ASSUME NEW i \in 1..n
        PROVE  /\ views'[i].id \in DOMAIN lastUse' /\ lastUse'[views'[i].id] \in 1..uses + 1
               /\ i # n => lastUse'[views'[i].id] = lastUse[views[old(i)].id]
    <3>1. CASE i = n
      <4>1. views'[i].id = id /\ k \in 1..n BY <1>a, <1>1, <3>1 DEF n
      <4>2. id = views[k].id BY DEF id
      <4>3. uses + 1 \in 1..uses + 1 BY <1>4
      <4> QED BY <1>5, <3>1, <4>1, <4>2, <4>3
    <3>2. CASE i # n
      <4>1. old(i) # k /\ old(i) \in 1..n BY <1>6, <3>2
      <4>2. /\ lastUse'[views'[i].id] = lastUse[views[old(i)].id]
            /\ views'[i].id \in DOMAIN lastUse'
        BY <1>5, <1>6, <4>1
      <4>3. lastUse[views[old(i)].id] \in 1..uses BY <1>4, <4>1
      <4>4. lastUse[views[old(i)].id] \in 1..uses + 1 BY <1>4, <4>3
      <4> QED BY <4>2, <4>4
    <3> QED BY <3>1, <3>2
  <2>2. ASSUME NEW i \in 1..n, NEW j \in 1..n, i < j
        PROVE  lastUse'[views'[i].id] < lastUse'[views'[j].id]
    <3>0. i # n /\ i \in 1..n - 1 BY <1>1, <2>2
    <3>1. CASE j = n
      <4>1. lastUse'[views'[j].id] = uses + 1 BY <1>a, <1>5, <3>1
      <4>2. lastUse'[views'[i].id] \in 1..uses
        <5>1. lastUse'[views'[i].id] = lastUse[views[old(i)].id] BY <2>1, <3>0
        <5>2. old(i) \in 1..n BY <1>6
        <5> QED BY <1>4, <5>1, <5>2
      <4>3. uses \in Nat BY <1>4
      <4>4. \A a, b : a \in 1..uses /\ b = uses + 1 => a < b BY <4>3
      <4> QED BY <4>1, <4>2, <4>4
    <3>2. CASE j # n
      <4>1. j \in 1..n - 1 BY <1>1, <3>2
      <4>2. old(i) < old(j) BY <1>6, <2>2, <3>0, <4>1
      <4>3. old(i) \in 1..n /\ old(j) \in 1..n BY <1>6
      <4>4. lastUse[views[old(i)].id] < lastUse[views[old(j)].id] BY <1>4, <4>2, <4>3
      <4> QED BY <2>1, <3>0, <3>2, <4>4
    <3> QED BY <3>1, <3>2
  <2>3. Len(views') = n BY <1>2 DEF n
  <2> QED BY <1>4, <2>1, <2>2, <2>3 DEF UsesOK
<1>8. \A v \in Range(views) : \E w \in Range(views') : w.id = v.id
  <2>1. DOMAIN views = 1..n /\ DOMAIN views' = 1..n BY <1>1, <1>2, SequenceIsSeq DEF n
  <2>2. ASSUME NEW i \in 1..n PROVE \E j \in 1..n : views'[j].id = views[i].id
    BY <1>6
  <2>3. ASSUME NEW v \in Range(views) PROVE \E w \in Range(views') : w.id = v.id
    <3>1. PICK i \in 1..n : v = views[i] BY <2>1 DEF Range
    <3>2. PICK j \in 1..n : views'[j].id = views[i].id BY <2>2
    <3>3. views'[j] \in Range(views') BY <2>1 DEF Range
    <3> QED BY <3>1, <3>2, <3>3
  <2> QED BY <2>3
<1> QED BY <1>3, <1>7, <1>8

\* A new view takes the last place; when the store is full the first view has
\* to go, and it was used before all that stay.
LEMMA CreateKeeps ==
  ASSUME ViewsOK, UsesOK, NEW selections, SelectionsOK(selections), CreateView(selections)
  PROVE  /\ ViewsOK' /\ UsesOK'
         /\ \A v \in Range(views) : (\A w \in Range(views') : w.id # v.id) =>
              /\ Len(views) = MaxViews
              /\ \A w \in Range(views) \ {v} : lastUse[v.id] < lastUse[w.id]
<1> DEFINE n == Len(views)
           id == created + 1
           new == [id |-> id, selections |-> selections]
           store == Append(views, new)
           m == IF n + 1 > MaxViews THEN 1 ELSE 0
<1>1. /\ n \in Nat /\ n <= MaxViews /\ IsSequence(views) /\ created \in Nat /\ MaxViews \in Nat
      /\ \A i \in 1..n : views[i].id \in 1..created /\ SelectionsOK(views[i].selections)
  BY CompositeAssumption DEF ViewsOK, IsSequence
<1>2. /\ IsSequence(store) /\ Len(store) = n + 1
      /\ \A i \in 1..n + 1 : store[i] = IF i <= n THEN views[i] ELSE new
  BY <1>1, Appended
<1>3. created' = created + 1 /\ views' = Limited(store) BY DEF CreateView
<1> HIDE DEF store
<1>4. /\ IsSequence(views') /\ Len(views') = n + 1 - m
      /\ \A i \in 1..n + 1 - m : views'[i] = IF i + m <= n THEN views[i + m] ELSE new
  <2>1. CASE n + 1 > MaxViews
    <3>1. views' = Tail(store) BY <1>2, <1>3, <2>1 DEF Limited
    <3>2. /\ IsSequence(views') /\ Len(views') = n
          /\ \A i \in 1..n : views'[i] = store[i + 1]
      BY <1>1, <1>2, <3>1, Tailed
    <3>3. \A i \in 1..n : i + 1 \in 1..n + 1 BY <1>1
    <3> QED BY <1>1, <1>2, <2>1, <3>2, <3>3
  <2>2. CASE ~(n + 1 > MaxViews)
    <3>1. views' = store BY <1>2, <1>3, <2>2 DEF Limited
    <3> QED BY <1>1, <1>2, <2>2, <3>1
  <2> QED BY <2>1, <2>2
<1>5. m \in {0, 1} /\ n + 1 - m <= MaxViews /\ (m = 1 => n = MaxViews) BY <1>1
<1> HIDE DEF m
<1>6. ViewsOK'
  <2>1. ASSUME NEW i \in 1..n + 1 - m
        PROVE  views'[i].id \in 1..created' /\ SelectionsOK(views'[i].selections)
    <3>1. CASE i + m <= n
      <4>1. i + m \in 1..n BY <1>1, <1>5, <3>1
      <4> QED BY <1>1, <1>3, <1>4, <3>1, <4>1
    <3>2. CASE ~(i + m <= n) BY <1>1, <1>3, <1>4, <3>2
    <3> QED BY <3>1, <3>2
  <2> QED BY <1>1, <1>3, <1>4, <1>5, <2>1 DEF ViewsOK
<1>7. /\ uses \in Nat /\ uses' = uses + 1
      /\ \A i \in 1..n : views[i].id \in DOMAIN lastUse /\ lastUse[views[i].id] \in 1..uses
      /\ \A i, j \in 1..n : i < j => lastUse[views[i].id] < lastUse[views[j].id]
  BY DEF UsesOK, Uses, CreateView
<1>8. DOMAIN views = 1..n /\ DOMAIN views' = 1..n + 1 - m BY <1>1, <1>4, SequenceIsSeq
<1>9. /\ \A i \in 1..n : views[i].id \in DOMAIN lastUse'
      /\ id \in DOMAIN lastUse' /\ lastUse'[id] = uses + 1
      /\ \A i \in 1..n : lastUse'[views[i].id] = lastUse[views[i].id]
  <2>1. lastUse' = [v \in {w.id : w \in Range(views)} \cup {id} |->
                      IF v = id THEN uses + 1 ELSE lastUse[v]]
    BY DEF Uses, CreateView
  <2>2. \A i \in 1..n : views[i].id \in {w.id : w \in Range(views)} BY <1>8 DEF Range
  <2>3. \A i \in 1..n : views[i].id # id BY <1>1
  <2> QED BY <2>1, <2>2, <2>3
<1>10. UsesOK'
  <2>1. ASSUME NEW i \in 1..n + 1 - m
        PROVE  /\ views'[i].id \in DOMAIN lastUse'
               /\ i + m <= n => /\ i + m \in 1..n
                                /\ lastUse'[views'[i].id] = lastUse[views[i + m].id]
               /\ ~(i + m <= n) => lastUse'[views'[i].id] = uses + 1
               /\ lastUse'[views'[i].id] \in 1..uses'
    <3>1. CASE i + m <= n
      <4>1. i + m \in 1..n BY <1>1, <1>5, <3>1
      <4>2. views'[i] = views[i + m] BY <1>4, <3>1
      <4> QED BY <1>7, <1>9, <3>1, <4>1, <4>2
    <3>2. CASE ~(i + m <= n) 
      <4>1. views'[i].id = id BY <1>4, <3>2
      <4> QED BY <1>7, <1>9, <3>2, <4>1
    <3> QED BY <3>1, <3>2
  <2>2. ASSUME NEW i \in 1..n + 1 - m, NEW j \in 1..n + 1 - m, i < j
        PROVE  lastUse'[views'[i].id] < lastUse'[views'[j].id]
    <3>1. i + m <= n BY <1>1, <1>5, <2>2
    <3>2. CASE j + m <= n
      <4>1. i + m < j + m BY <1>5, <2>2
      <4> QED BY <1>7, <2>1, <3>1, <3>2, <4>1
    <3>3. CASE ~(j + m <= n)
      <4>1. lastUse'[views'[i].id] \in 1..uses BY <1>7, <2>1, <3>1
      <4> QED BY <1>7, <2>1, <3>3, <4>1
    <3> QED BY <3>2, <3>3
  <2> QED BY <1>4, <1>7, <2>1, <2>2 DEF UsesOK
<1>11. ASSUME NEW v \in Range(views), \A w \in Range(views') : w.id # v.id
       PROVE  /\ n = MaxViews
              /\ \A w \in Range(views) \ {v} : lastUse[v.id] < lastUse[w.id]
  <2>1. PICK i \in 1..n : v = views[i] BY <1>8 DEF Range
  <2>2. i = 1 /\ m = 1
    <3>1. SUFFICES ASSUME ~(i = 1 /\ m = 1) PROVE FALSE OBVIOUS
    <3>2. i - m \in 1..n + 1 - m /\ (i - m) + m = i BY <1>1, <1>5, <3>1
    <3>3. views'[i - m] = v BY <1>4, <2>1, <3>2
    <3>4. v \in Range(views') BY <1>8, <3>2, <3>3 DEF Range
    <3> QED BY <1>11, <3>4
  <2>3. ASSUME NEW w \in Range(views) \ {v} PROVE lastUse[v.id] < lastUse[w.id]
    <3>1. PICK j \in 1..n : w = views[j] BY <1>8 DEF Range
    <3>2. i < j BY <2>1, <2>2, <3>1
    <3> QED BY <1>7, <2>1, <3>1, <3>2
  <2> QED BY <1>5, <2>2, <2>3
<1> QED BY <1>6, <1>10, <1>11

-----------------------------------------------------------------------------
(* Numbers and the sequences that list them *)

\* The least and the greatest of some of the first numbers.
LEMMA MinOfNats ==
  ASSUME NEW S \in SUBSET Nat, S # {}
  PROVE  Min(S) \in S /\ \A x \in S : Min(S) <= x
<1>1. PICK n \in S : \A m \in S : ~ (<<m, n>> \in OpToRel(<, Nat))
  BY WFMin, NatLessThanWellFounded, Zenon
<1>2. \A m \in S : ~ (m < n) BY <1>1 DEF OpToRel
<1>3. \A m \in S : n <= m BY <1>2
<1> QED BY <1>3 DEF Min

LEMMA MaxOfFirst ==
  ASSUME NEW m \in Nat, NEW S \in SUBSET (1..m), S # {}
  PROVE  Max(S) \in S /\ \A x \in S : x <= Max(S)
<1> DEFINE T == {m - x : x \in S}
<1>1. T \subseteq Nat
  <2>1. \A x \in S : m - x \in Nat OBVIOUS
  <2> QED BY <2>1
<1>2. PICK n \in T : \A y \in T : n <= y
  <2>1. T # {} OBVIOUS
  <2> HIDE DEF T
  <2> QED BY <1>1, <2>1, MinOfNats
<1>3. PICK x \in S : n = m - x BY <1>2
<1>4. ASSUME NEW y \in S PROVE x >= y
  <2>1. m - y \in T OBVIOUS
  <2>2. m - x <= m - y BY <2>1, <1>2, <1>3
  <2> QED BY <2>2
<1>5. Max(S) \in S /\ \A y \in S : Max(S) >= y BY <1>4 DEF Max
<1>6. \A y \in S : y \in Int OBVIOUS
<1> QED BY <1>5, <1>6

LEMMA FirstNumbers ==
  ASSUME NEW m \in Nat, NEW S \in SUBSET (1..m)
  PROVE  /\ IsFiniteSet(S) /\ Cardinality(S) \in Nat
         /\ \A j \in S : j \in Nat /\ j >= 1
<1>1. IsFiniteSet(1..m) BY FS_Interval
<1>2. IsFiniteSet(S) BY <1>1, FS_Subset
<1>3. \A j \in S : j \in 1..m OBVIOUS
<1> QED BY <1>2, <1>3, FS_CardinalityType

UpTo(S, i) == {j \in S : j <= i}

\* Every rank is the rank of some element.
LEMMA RankExists ==
  ASSUME NEW m \in Nat, NEW S \in SUBSET (1..m), NEW n \in 1..Cardinality(S)
  PROVE  \E i \in S : Cardinality(UpTo(S, i)) = n
<1>0. /\ IsFiniteSet(S) /\ Cardinality(S) \in Nat
      /\ \A j \in S : j \in Nat /\ j >= 1
  BY FirstNumbers
<1> DEFINE Bad == {k \in 1..Cardinality(S) : ~ \E i \in S : Cardinality(UpTo(S, i)) = k}
<1>1. SUFFICES ASSUME Bad # {} PROVE FALSE BY <1>1
<1>2. Bad \subseteq Nat OBVIOUS
<1>3. PICK k \in Bad : \A l \in Bad : k <= l
  <2> HIDE DEF Bad
  <2> QED BY <1>1, <1>2, MinOfNats
<1>4. k \in 1..Cardinality(S) /\ ~ \E i \in S : Cardinality(UpTo(S, i)) = k BY <1>3
<1>5. ASSUME NEW b \in Nat, b <= m, IsFiniteSet(UpTo(S, b)), Cardinality(UpTo(S, b)) = k - 1
      PROVE  FALSE
  <2> DEFINE Above == {j \in S : b < j}
  <2>1. Above # {}
    <3>1. SUFFICES ASSUME Above = {} PROVE FALSE OBVIOUS
    <3>2. \A j \in S : j <= b BY <1>0, <1>5, <3>1
    <3>3. UpTo(S, b) = S BY <3>2 DEF UpTo
    <3> QED BY <1>0, <1>4, <1>5, <3>3
  <2>2. Above \subseteq Nat /\ Above \subseteq S BY <1>0
  <2>3. PICK i \in Above : \A j \in Above : i <= j
    <3> HIDE DEF Above
    <3> QED BY <2>1, <2>2, MinOfNats
  <2>4. i \in S /\ b < i BY <2>3
  <2>5. UpTo(S, i) = UpTo(S, b) \cup {i}
    <3>1. ASSUME NEW j \in S PROVE j <= i <=> j <= b \/ j = i
      <4>1. j \in Nat /\ i \in Nat BY <2>4
      <4>2. b < j => i <= j BY <2>3
      <4> QED BY <2>4, <4>1, <4>2
    <3> QED BY <2>4, <3>1 DEF UpTo
  <2>6. i \notin UpTo(S, b) BY <2>4 DEF UpTo
  <2>7. Cardinality(UpTo(S, i)) = k - 1 + 1 BY <1>5, <2>5, <2>6, FS_AddElement
  <2> QED BY <1>0, <1>4, <2>4, <2>7
<1>6. CASE k = 1
  <2>1. UpTo(S, 0) = {}
    <3>1. \A j \in S : ~ (j <= 0) BY <1>0
    <3> QED BY <3>1 DEF UpTo
  <2> QED BY <1>5, <1>6, <2>1, FS_EmptySet
<1>7. CASE k # 1
  <2>1. k - 1 \in 1..Cardinality(S) /\ k - 1 \notin Bad BY <1>0, <1>3, <1>4, <1>7
  <2>2. PICK i \in S : Cardinality(UpTo(S, i)) = k - 1 BY <2>1
  <2>3. IsFiniteSet(UpTo(S, i)) BY <1>0, FS_Subset DEF UpTo
  <2> QED BY <1>5, <2>2, <2>3
<1> QED BY <1>6, <1>7

\* The numbers of a set in their order are a sequence of its elements.
LEMMA AscendingLists ==
  ASSUME NEW m \in Nat, NEW S \in SUBSET (1..m)
  PROVE  /\ IsSequence(Ascending(S)) /\ Len(Ascending(S)) \in Nat
         /\ DOMAIN Ascending(S) = 1..Len(Ascending(S))
         /\ \A n \in 1..Len(Ascending(S)) : Ascending(S)[n] \in S
<1> DEFINE c == Cardinality(S)
           at(n) == CHOOSE i \in S : Cardinality({j \in S : j <= i}) = n
<1>1. c \in Nat BY FirstNumbers
<1>2. Ascending(S) = [n \in 1..c |-> at(n)] BY DEF Ascending
<1>3. \A n \in 1..c : at(n) \in S BY RankExists DEF UpTo
<1> HIDE DEF at, c
<1>4. Ascending(S) = [n \in 1..c |-> Ascending(S)[n]] BY <1>2
<1>5. /\ IsSequence(Ascending(S)) /\ Len(Ascending(S)) = c
      /\ DOMAIN Ascending(S) = 1..c
  BY <1>1, <1>4, FunctionIsSequence
<1> QED BY <1>1, <1>2, <1>3, <1>5

-----------------------------------------------------------------------------
(* The selections of a view *)

\* What is picked out of good selections is good.
LEMMA PickedOK ==
  ASSUME NEW n \in Nat, NEW picked, picked = [i \in 1..n |-> picked[i]],
         \A i \in 1..n : picked[i].key \in Keys /\ IsSequence(picked[i].display)
  PROVE  SelectionsOK(picked)
BY FunctionIsSequence DEF SelectionsOK

LEMMA PostedOK ==
  ASSUME NEW post \in Posts
  PROVE  SelectionsOK(post)
<1>1. /\ IsSequence(post)
      /\ \A i \in DOMAIN post : post[i].key \in Keys /\ IsSequence(post[i].display)
  BY CompositeAssumption
<1>2. DOMAIN post = 1..Len(post) BY <1>1, SequenceIsSeq
<1> QED BY <1>1, <1>2 DEF SelectionsOK

LEMMA AddedOK ==
  ASSUME NEW selections, SelectionsOK(selections), NEW post, SelectionsOK(post)
  PROVE  SelectionsOK(Added(selections, post))
<1> DEFINE all == selections \o post
           S == {selections[i] : i \in 1..Len(selections)} \cup {post[i] : i \in 1..Len(post)}
<1>1. selections \in Seq(S) /\ post \in Seq(S)
  <2>1. selections \in Seq({selections[i] : i \in 1..Len(selections)})
    BY SequenceIsSeq DEF SelectionsOK
  <2>2. post \in Seq({post[i] : i \in 1..Len(post)})
    BY SequenceIsSeq DEF SelectionsOK
  <2>3. /\ {selections[i] : i \in 1..Len(selections)} \subseteq S
        /\ {post[i] : i \in 1..Len(post)} \subseteq S
    OBVIOUS
  <2> HIDE DEF S
  <2>4. selections \in Seq(S) BY <2>1, <2>3, SeqMonotonic
  <2>5. post \in Seq(S) BY <2>2, <2>3, SeqMonotonic
  <2> QED BY <2>4, <2>5
<1>2. \A s \in S : s.key \in Keys /\ IsSequence(s.display) BY DEF SelectionsOK
<1> HIDE DEF S
<1>3. all \in Seq(S) BY <1>1, ConcatProperties
<1> HIDE DEF all
<1> DEFINE m == Len(all)
           Same(i) == {j \in DOMAIN all : all[j].id = all[i].id}
           F == {i \in DOMAIN all : i = Min(Same(i))}
           first == Ascending(F)
           picked == [n \in DOMAIN first |-> all[Max(Same(first[n]))]]
<1>4. m \in Nat /\ DOMAIN all = 1..m /\ \A i \in 1..m : all[i] \in S
  BY <1>3, LenProperties, ElementOfSeq
<1>5. F \in SUBSET (1..m) BY <1>4
<1>6. picked = Added(selections, post) BY DEF Added, all
<1>7. \A i \in 1..m : Max(Same(i)) \in 1..m
  <2> TAKE i \in 1..m
  <2> DEFINE T == Same(i)
  <2>1. T \in SUBSET (1..m) /\ i \in T BY <1>4
  <2> HIDE DEF T, m
  <2>2. Max(T) \in T BY <1>4, <2>1, MaxOfFirst
  <2> QED BY <2>1, <2>2 DEF T
<1> HIDE DEF F, m
<1>8. /\ DOMAIN first = 1..Len(first) /\ Len(first) \in Nat
      /\ \A n \in 1..Len(first) : first[n] \in F
  BY <1>4, <1>5, AscendingLists
<1> HIDE DEF first, Same
<1>9. \A n \in 1..Len(first) : picked[n] \in S BY <1>4, <1>5, <1>7, <1>8
<1>10. picked = [n \in 1..Len(first) |-> picked[n]] BY <1>8
<1>11. SelectionsOK(picked)
  <2> HIDE DEF picked
  <2> QED BY <1>2, <1>8, <1>9, <1>10, PickedOK
<1> QED BY <1>6, <1>11 DEF picked, first, F, Same

LEMMA RemovedOK ==
  ASSUME NEW selections, SelectionsOK(selections), NEW id
  PROVE  SelectionsOK(Removed(selections, id))
<1> DEFINE m == Len(selections)
           K == {i \in DOMAIN selections : selections[i].id # id}
           kept == Ascending(K)
           picked == [n \in DOMAIN kept |-> selections[kept[n]]]
<1>1. /\ m \in Nat /\ DOMAIN selections = 1..m
      /\ \A i \in 1..m : selections[i].key \in Keys /\ IsSequence(selections[i].display)
  BY SequenceIsSeq DEF SelectionsOK, IsSequence
<1>2. K \in SUBSET (1..m) BY <1>1
<1>3. picked = Removed(selections, id) BY DEF Removed
<1> HIDE DEF K, m
<1>4. /\ DOMAIN kept = 1..Len(kept) /\ Len(kept) \in Nat
      /\ \A n \in 1..Len(kept) : kept[n] \in K
  BY <1>1, <1>2, AscendingLists
<1> HIDE DEF kept
<1>5. \A n \in 1..Len(kept) : picked[n].key \in Keys /\ IsSequence(picked[n].display)
  BY <1>1, <1>2, <1>4
<1>6. picked = [n \in 1..Len(kept) |-> picked[n]] BY <1>4
<1>7. SelectionsOK(picked)
  <2> HIDE DEF picked
  <2> QED BY <1>4, <1>5, <1>6, PickedOK
<1> QED BY <1>3, <1>7 DEF picked, kept, K

LEMMA SeededOK ==
  ASSUME NEW keys \in SUBSET Keys, IsFiniteSet(keys)
  PROVE  SelectionsOK(Seeded(keys))
<1> DEFINE c == Cardinality(keys)
           list == SetToSeq(keys)
           picked == [i \in DOMAIN list |-> Selection(list[i], list[i], "fresh", <<>>)]
<1>1. c \in Nat /\ \E f \in [1..c -> keys] : IsInjective(f)
  <2>1. c \in Nat /\ ExistsBijection(1..c, keys) BY FS_CardinalityType
  <2> QED BY <2>1 DEF ExistsBijection, Bijection, Injection, IsInjective
<1>2. list \in [1..c -> keys] BY <1>1 DEF SetToSeq
<1>3. picked = Seeded(keys) BY DEF Seeded
<1> HIDE DEF list, c
<1>4. \A n \in 1..c : picked[n].key \in Keys /\ IsSequence(picked[n].display)
  <2>1. \A n \in 1..c : list[n] \in keys /\ picked[n] = Selection(list[n], list[n], "fresh", <<>>)
    BY <1>2
  <2>2. ASSUME NEW k
        PROVE  /\ Selection(k, k, "fresh", <<>>).key = k
               /\ Selection(k, k, "fresh", <<>>).display = <<>>
    BY DEF Selection
  <2>3. \A n \in 1..c : picked[n].key \in Keys /\ picked[n].display = <<>>
    <3> TAKE n \in 1..c
    <3>1. list[n] \in keys /\ picked[n] = Selection(list[n], list[n], "fresh", <<>>) BY <2>1
    <3> HIDE DEF picked
    <3> QED BY <2>2, <3>1
  <2> HIDE DEF picked
  <2> QED BY <2>3, EmptyIsSequence
<1>5. picked = [n \in 1..c |-> picked[n]] BY <1>2
<1>6. SelectionsOK(picked)
  <2> HIDE DEF picked
  <2> QED BY <1>1, <1>4, <1>5, PickedOK
<1> QED BY <1>3, <1>6 DEF picked, list

-----------------------------------------------------------------------------
(* The request threads *)

LEMMA GoingKeeps ==
  ASSUME ViewsInv, NEW p \in Threads, NEW state, Goto(p, state),
         RequestOK(state, steady[p]), UNCHANGED <<disk, steady>>
  PROVE  RequestsOK' /\ DiskOK' /\ DescriptorsOK'
<1>1. /\ req = [q \in Threads |-> req[q]] /\ steady = [q \in Threads |-> steady[q]]
      /\ \A q \in Threads : steady[q] \subseteq KeysOnDisk /\ RequestOK(req[q], steady[q])
  BY DEF ViewsInv, RequestsOK
<1>2. /\ req' = [q \in Threads |-> req'[q]] /\ req'[p] = state
      /\ \A q \in Threads \ {p} : req'[q] = req[q]
  BY <1>1 DEF Goto
<1>3. KeysOnDisk' = KeysOnDisk BY DEF KeysOnDisk, KeysOf
<1>4. \A q \in Threads : RequestOK(req'[q], steady[q]) BY <1>1, <1>2
<1>5. RequestsOK' BY <1>1, <1>2, <1>3, <1>4 DEF RequestsOK
<1>6. DiskOK' /\ DescriptorsOK' BY DEF DiskOK, DescriptorsOK, ViewsInv
<1> QED BY <1>5, <1>6

LEMMA StoreKept ==
  ASSUME ViewsInv, UNCHANGED <<views, created, uses, lastUse>>
  PROVE  ViewsOK' /\ UsesOK'
BY DEF ViewsInv, ViewsOK, UsesOK

LEMMA DiskKept ==
  ASSUME ViewsInv, UNCHANGED <<disk, req, steady>>
  PROVE  DiskOK' /\ DescriptorsOK' /\ RequestsOK'
<1>1. KeysOnDisk' = KeysOnDisk BY DEF KeysOnDisk, KeysOf
<1> QED BY <1>1 DEF ViewsInv, DiskOK, DescriptorsOK, RequestsOK

\* A request of the kinds that look nothing up.
LEMMA SimpleOK ==
  ASSUME NEW onDisk, NEW x, NEW y
  PROVE  /\ RequestOK(Idle, onDisk) /\ RequestOK([pc |-> "index"], onDisk)
         /\ RequestOK([pc |-> "scan", left |-> x, found |-> y], onDisk)
         /\ RequestOK([pc |-> "assign", keys |-> x], onDisk)
         /\ x \subseteq Keys /\ IsFiniteSet(x) => RequestOK([pc |-> "seed", keys |-> x], onDisk)
BY DEF RequestOK

\* A step of a thread that refreshes the registry or reads a run to seed a view.
LEMMA RefreshStepKeeps ==
  ASSUME ViewsInv, NEW p \in Threads,
         \/ StartRefresh(p) \/ ScanRun(p) \/ SetDiscovery(p) \/ BuildIndex(p) \/ SetIndex(p)
         \/ SeedView(p)
  PROVE  ViewsInv'
<1>1. ASSUME NEW state, Goto(p, state), RequestOK(state, steady[p]),
             UNCHANGED <<disk, steady, views, created, uses, lastUse>>
      PROVE  ViewsInv'
  BY <1>1, GoingKeeps, StoreKept DEF ViewsInv
<1>2. CASE StartRefresh(p)
  <2>1. /\ Goto(p, [pc |-> "scan", left |-> RunDirs, found |-> Nothing])
        /\ UNCHANGED <<disk, steady, views, created, uses, lastUse>>
    BY <1>2 DEF StartRefresh
  <2> QED BY <1>1, <2>1, SimpleOK
<1>3. CASE ScanRun(p)
  <2>1. /\ Goto(p, [pc |-> "scan", left |-> Tail(req[p].left),
                    found |-> Scanned(req[p].found, Head(req[p].left))])
        /\ UNCHANGED <<disk, steady, views, created, uses, lastUse>>
    BY <1>3 DEF ScanRun
  <2> QED BY <1>1, <2>1, SimpleOK
<1>4. CASE SetDiscovery(p)
  <2>1. /\ Goto(p, [pc |-> "index"])
        /\ UNCHANGED <<disk, steady, views, created, uses, lastUse>>
    BY <1>4 DEF SetDiscovery
  <2> QED BY <1>1, <2>1, SimpleOK
<1>5. CASE BuildIndex(p)
  <2>1. /\ Goto(p, [pc |-> "assign", keys |-> discovery.keys])
        /\ UNCHANGED <<disk, steady, views, created, uses, lastUse>>
    BY <1>5 DEF BuildIndex
  <2> QED BY <1>1, <2>1, SimpleOK
<1>6. CASE SetIndex(p)
  <2>1. Goto(p, Idle) /\ UNCHANGED <<disk, steady, views, created, uses, lastUse>>
    BY <1>6 DEF SetIndex
  <2> QED BY <1>1, <2>1, SimpleOK
<1>7. CASE SeedView(p)
  <2>1. PICK r \in Runs : Goto(p, [pc |-> "seed", keys |-> KeysOf(r)])
    BY <1>7 DEF SeedView
  <2>2. UNCHANGED <<disk, steady, views, created, uses, lastUse>> BY <1>7 DEF SeedView
  <2>3. KeysOf(r) \subseteq Keys /\ IsFiniteSet(KeysOf(r)) BY KeysOfRun DEF ViewsInv
  <2>4. RequestOK([pc |-> "seed", keys |-> KeysOf(r)], steady[p]) BY <2>3, SimpleOK
  <2> QED BY <1>1, <2>1, <2>2, <2>4
<1> QED BY <1>2, <1>3, <1>4, <1>5, <1>6, <1>7

\* What a step of the store leaves of it: an eviction makes room for a view that
\* is created, and the view that goes was used before all that stay.
Evicts ==
  \A v \in Range(views) : (\A w \in Range(views') : w.id # v.id) =>
    /\ Len(views) = MaxViews /\ created' = created + 1
    /\ \A w \in Range(views) \ {v} : lastUse[v.id] < lastUse[w.id]

LEMMA NoneEvicted ==
  ASSUME \A v \in Range(views) : \E w \in Range(views') : w.id = v.id
  PROVE  Evicts
BY DEF Evicts

LEMMA ReplaceKeeps ==
  ASSUME ViewsInv, NEW p \in Threads, NEW v \in Range(views), NEW selections,
         SelectionsOK(selections), ReplaceView(p, v.id, selections)
  PROVE  ViewsInv' /\ Evicts
<1> DEFINE k == At(v.id)
           x == [id |-> v.id, selections |-> selections]
<1>1. k \in 1..Len(views) /\ views[k].id = v.id BY ViewPlace DEF ViewsInv
<1>2. /\ views' = Append(RemoveAt(views, k), x) /\ Uses(views[k].id) /\ created' = created
      /\ UNCHANGED <<disk, req, steady>>
  BY <1>1 DEF ReplaceView, Replaced, Without
<1>3. x.id = views[k].id /\ SelectionsOK(x.selections) BY <1>1
<1> HIDE DEF x, k
<1>4. /\ ViewsOK' /\ UsesOK'
      /\ \A u \in Range(views) : \E w \in Range(views') : w.id = u.id
  BY <1>1, <1>2, <1>3, UseKeeps DEF ViewsInv
<1> QED BY <1>2, <1>4, DiskKept, NoneEvicted DEF ViewsInv

\* A step of a thread that creates or changes a view.
LEMMA ChangeStepKeeps ==
  ASSUME ViewsInv, NEW p \in Threads,
         Create(p) \/ AddMeasurements(p) \/ RemoveMeasurement(p) \/ CreateSeeded(p)
  PROVE  ViewsInv' /\ Evicts
<1>0. ASSUME NEW v \in Range(views) PROVE SelectionsOK(v.selections)
  BY SequenceIsSeq DEF Range, ViewsOK, ViewsInv
<1>1. ASSUME NEW selections, SelectionsOK(selections), CreateView(selections)
      PROVE  ViewsOK' /\ UsesOK' /\ Evicts
  <2>1. created' = created + 1 BY <1>1 DEF CreateView
  <2>2. /\ ViewsOK' /\ UsesOK'
        /\ \A v \in Range(views) : (\A w \in Range(views') : w.id # v.id) =>
              /\ Len(views) = MaxViews
              /\ \A w \in Range(views) \ {v} : lastUse[v.id] < lastUse[w.id]
    BY <1>1, CreateKeeps DEF ViewsInv
  <2> QED BY <2>1, <2>2 DEF Evicts
<1>2. CASE Create(p)
  <2>1. PICK post \in Posts : CreateView(post) BY <1>2 DEF Create, Posted
  <2>2. UNCHANGED <<disk, req, steady>> BY <1>2 DEF Create
  <2> QED BY <1>1, <2>1, <2>2, PostedOK, DiskKept DEF ViewsInv
<1>3. CASE AddMeasurements(p)
  <2>1. PICK v \in Range(views), post \in Posts : ReplaceView(p, v.id, Added(v.selections, post))
    BY <1>3 DEF AddMeasurements, Posted
  <2>2. SelectionsOK(Added(v.selections, post)) BY <1>0, PostedOK, AddedOK
  <2> QED BY <2>1, <2>2, ReplaceKeeps
<1>4. CASE RemoveMeasurement(p)
  <2>1. PICK v \in Range(views) : \E s \in Range(v.selections) :
          ReplaceView(p, v.id, Removed(v.selections, s.id))
    BY <1>4 DEF RemoveMeasurement
  <2>2. PICK s \in Range(v.selections) : ReplaceView(p, v.id, Removed(v.selections, s.id))
    BY <2>1
  <2>3. SelectionsOK(Removed(v.selections, s.id)) BY <1>0, RemovedOK
  <2> QED BY <2>2, <2>3, ReplaceKeeps
<1>5. CASE CreateSeeded(p)
  <2>1. /\ req[p].pc = "seed" /\ CreateView(Seeded(req[p].keys)) /\ Goto(p, Idle)
        /\ UNCHANGED <<disk, steady>>
    BY <1>5 DEF CreateSeeded
  <2>2. RequestOK(req[p], steady[p]) BY DEF ViewsInv, RequestsOK
  <2>3. req[p].keys \subseteq Keys /\ IsFiniteSet(req[p].keys)
    BY <2>1, <2>2 DEF RequestOK, Idle
  <2>4. SelectionsOK(Seeded(req[p].keys)) BY <2>3, SeededOK
  <2>5. ViewsOK' /\ UsesOK' /\ Evicts BY <1>1, <2>1, <2>4
  <2>6. RequestOK(Idle, steady[p]) BY SimpleOK
  <2>7. RequestsOK' /\ DiskOK' /\ DescriptorsOK' BY <2>1, <2>6, GoingKeeps
  <2> QED BY <2>5, <2>7 DEF ViewsInv
<1> QED BY <1>2, <1>3, <1>4, <1>5

-----------------------------------------------------------------------------
(* Opening a view *)

\* A change of the program counter, of the outcomes and of the payloads.
LEMMA StateExcept ==
  ASSUME NEW old, NEW new,
         old = [pc |-> old.pc, op |-> old.op, selections |-> old.selections,
                status |-> old.status, payloads |-> old.payloads]
  PROVE  /\ [old EXCEPT !.pc = new] =
              [pc |-> new, op |-> old.op, selections |-> old.selections,
               status |-> old.status, payloads |-> old.payloads]
         /\ [old EXCEPT !.status = new] =
              [pc |-> old.pc, op |-> old.op, selections |-> old.selections,
               status |-> new, payloads |-> old.payloads]
         /\ [old EXCEPT !.payloads = new] =
              [pc |-> old.pc, op |-> old.op, selections |-> old.selections,
               status |-> old.status, payloads |-> new]
<1> DEFINE O == old.op
           P == old.pc
           S == old.selections
           T == old.status
           L == old.payloads
<1>1. old = [pc |-> P, op |-> O, selections |-> S, status |-> T, payloads |-> L] OBVIOUS
<1> HIDE DEF O, P, S, T, L
<1>2. /\ [old EXCEPT !.pc = new] = [pc |-> new, op |-> O, selections |-> S, status |-> T, payloads |-> L]
      /\ [old EXCEPT !.status = new] = [pc |-> P, op |-> O, selections |-> S, status |-> new, payloads |-> L]
      /\ [old EXCEPT !.payloads = new] = [pc |-> P, op |-> O, selections |-> S, status |-> T, payloads |-> new]
  BY <1>1
<1> QED BY <1>2 DEF O, P, S, T, L

LEMMA FailedExcept ==
  ASSUME NEW old, NEW outcome,
         old = [pc |-> old.pc, op |-> old.op, selections |-> old.selections,
                status |-> old.status, payloads |-> old.payloads]
  PROVE  [old EXCEPT !.pc = "reply", !.status = Append(@, outcome)] =
           [pc |-> "reply", op |-> old.op, selections |-> old.selections,
            status |-> Append(old.status, outcome), payloads |-> old.payloads]
<1> DEFINE O == old.op
           P == old.pc
           S == old.selections
           T == old.status
           L == old.payloads
           new == [old EXCEPT !.pc = "reply"]
<1>1. old = [pc |-> P, op |-> O, selections |-> S, status |-> T, payloads |-> L] OBVIOUS
<1> HIDE DEF O, P, S, T, L
<1>2. [old EXCEPT !.pc = "reply", !.status = Append(@, outcome)] =
        [new EXCEPT !.status = Append(T, outcome)]
  BY <1>1
<1>3. new = [pc |-> "reply", op |-> O, selections |-> S, status |-> T, payloads |-> L]
  BY <1>1
<1> HIDE DEF new
<1>4. [new EXCEPT !.status = Append(T, outcome)] =
        [pc |-> "reply", op |-> O, selections |-> S, status |-> Append(T, outcome), payloads |-> L]
  BY <1>3
<1> QED BY <1>2, <1>4 DEF O, S, T, L

\* What is opened stays opened: the fields of a request that goes on.
LEMMA OpenedShape ==
  ASSUME NEW state, NEW onDisk, RequestOK(state, onDisk),
         state.pc \in {"resolve", "disk", "payload", "reply"}
  PROVE  OpenedOK(state, onDisk)
<1>1. state # Idle /\ state # [pc |-> "index"] BY DEF Idle
<1> QED BY <1>1 DEF RequestOK

\* A request goes to another phase with what it has found out so far.
LEMMA PhaseOK ==
  ASSUME NEW old, NEW onDisk, OpenedOK(old, onDisk),
         NEW pc \in {"disk", "reply"},
         pc = "disk" => Len(old.status) < Len(old.selections)
  PROVE  RequestOK([old EXCEPT !.pc = pc], onDisk)
<1> DEFINE new == [old EXCEPT !.pc = pc]
<1>1. new = [pc |-> pc, op |-> old.op, selections |-> old.selections,
             status |-> old.status, payloads |-> old.payloads]
  BY StateExcept DEF OpenedOK
<1>2. /\ new.pc = pc /\ new.op = old.op /\ new.selections = old.selections
      /\ new.status = old.status /\ new.payloads = old.payloads
  BY <1>1
<1> HIDE DEF new
<1>3. OpenedOK(new, onDisk) BY <1>1, <1>2 DEF OpenedOK
<1>4. RequestOK(new, onDisk) BY <1>2, <1>3 DEF RequestOK
<1> QED BY <1>4 DEF new

\* The outcome for one more selection, or the error a report ends with.
LEMMA OutcomeOK ==
  ASSUME NEW old, NEW onDisk, OpenedOK(old, onDisk),
         NEW pc \in {"resolve", "payload", "reply"},
         pc = "resolve" => Len(old.status) + 1 <= Len(old.selections),
         pc = "payload" => Len(old.status) + 1 = Len(old.selections),
         NEW outcome,
         outcome # "ok" =>
           /\ Len(old.status) + 1 \in 1..Len(old.selections) =>
                old.selections[Len(old.status) + 1].key \notin onDisk
           /\ \E j \in 1..Len(old.selections) : old.selections[j].key \notin onDisk
  PROVE  RequestOK([pc |-> pc, op |-> old.op, selections |-> old.selections,
                    status |-> Append(old.status, outcome), payloads |-> old.payloads], onDisk)
<1> DEFINE n == Len(old.status)
           status == Append(old.status, outcome)
           new == [pc |-> pc, op |-> old.op, selections |-> old.selections,
                   status |-> status, payloads |-> old.payloads]
<1>2. /\ new.pc = pc /\ new.op = old.op /\ new.selections = old.selections
      /\ new.status = status /\ new.payloads = old.payloads
      /\ new = [pc |-> new.pc, op |-> new.op, selections |-> new.selections,
                status |-> new.status, payloads |-> new.payloads]
  OBVIOUS
<1>3. /\ n \in Nat /\ IsSequence(status) /\ Len(status) = n + 1
      /\ \A i \in 1..n + 1 : status[i] = IF i <= n THEN old.status[i] ELSE outcome
  BY Appended DEF OpenedOK, IsSequence
<1> HIDE DEF new, status
<1>4. ASSUME NEW i \in 1..n + 1, status[i] # "ok"
      PROVE  /\ i \in 1..Len(old.selections) => old.selections[i].key \notin onDisk
             /\ \E j \in 1..Len(old.selections) : old.selections[j].key \notin onDisk
  <2>1. CASE i <= n
    <3>1. i \in 1..n /\ old.status[i] # "ok" BY <1>3, <1>4, <2>1
    <3> QED BY <3>1 DEF OpenedOK
  <2>2. CASE ~(i <= n)
    <3>1. i = n + 1 /\ outcome # "ok" BY <1>3, <1>4, <2>2
    <3> QED BY <3>1
  <2> QED BY <2>1, <2>2
<1>5. OpenedOK(new, onDisk) BY <1>2, <1>3, <1>4 DEF OpenedOK
<1>6. RequestOK(new, onDisk) BY <1>2, <1>5 DEF RequestOK
<1> QED BY <1>6 DEF new, status

\* The state a request goes to when the outcome for a selection is known.
LEMMA ResolvedOK ==
  ASSUME NEW p \in Threads, OpenedOK(req[p], steady[p]), NEW outcome, Resolved(p, outcome),
         Len(req[p].status) < Len(req[p].selections),
         outcome = "ok" \/ NextKey(p) \notin steady[p]
  PROVE  \E state : Goto(p, state) /\ RequestOK(state, steady[p])
<1> DEFINE old == req[p]
           status == Append(old.status, outcome)
           state == [old EXCEPT !.status = Append(@, outcome)]
           next == CASE state.op = "report" /\ outcome # "ok" -> "reply"
                     [] Len(state.status) = Len(state.selections) ->
                          IF state.op = "report" THEN "payload" ELSE "reply"
                     [] OTHER -> "resolve"
           new == [state EXCEPT !.pc = next]
<1>1. Goto(p, new) BY DEF Resolved
<1>2. /\ old = [pc |-> old.pc, op |-> old.op, selections |-> old.selections,
                status |-> old.status, payloads |-> old.payloads]
      /\ Len(old.status) \in Nat /\ Len(old.selections) \in Nat /\ IsSequence(old.status)
  BY DEF OpenedOK, IsSequence, SelectionsOK
<1>3. state = [pc |-> old.pc, op |-> old.op, selections |-> old.selections,
               status |-> status, payloads |-> old.payloads]
  BY <1>2, StateExcept
<1>4. /\ state.pc = old.pc /\ state.op = old.op /\ state.selections = old.selections
      /\ state.status = status /\ state.payloads = old.payloads
  BY <1>3
<1>5. Len(status) = Len(old.status) + 1 BY <1>2, Appended
<1>6. next \in {"resolve", "payload", "reply"}
      /\ (next = "resolve" => Len(old.status) + 1 <= Len(old.selections))
      /\ (next = "payload" => Len(old.status) + 1 = Len(old.selections))
  <2>1. CASE Len(state.status) = Len(state.selections) BY <1>4, <1>5, <2>1
  <2>2. CASE Len(state.status) # Len(state.selections) BY <1>2, <1>4, <1>5, <2>2
  <2> QED BY <2>1, <2>2
<1> HIDE DEF state, next
<1>7. new = [pc |-> next, op |-> old.op, selections |-> old.selections,
             status |-> status, payloads |-> old.payloads]
  <2>1. state = [pc |-> state.pc, op |-> state.op, selections |-> state.selections,
                 status |-> state.status, payloads |-> state.payloads]
    BY <1>3, <1>4
  <2>2. new = [pc |-> next, op |-> state.op, selections |-> state.selections,
               status |-> state.status, payloads |-> state.payloads]
    BY <2>1, StateExcept
  <2> QED BY <1>4, <2>2
<1>8. outcome # "ok" =>
        /\ Len(old.status) + 1 \in 1..Len(old.selections) =>
             old.selections[Len(old.status) + 1].key \notin steady[p]
        /\ \E j \in 1..Len(old.selections) : old.selections[j].key \notin steady[p]
  <2>1. Len(old.status) + 1 \in 1..Len(old.selections) BY <1>2
  <2>2. outcome # "ok" => old.selections[Len(old.status) + 1].key \notin steady[p] BY DEF NextKey
  <2> QED BY <2>1, <2>2
<1> HIDE DEF new, status
<1>9. RequestOK(new, steady[p])
  <2>1. OpenedOK(old, steady[p]) OBVIOUS
  <2> HIDE DEF old
  <2>2. RequestOK([pc |-> next, op |-> old.op, selections |-> old.selections,
                   status |-> Append(old.status, outcome), payloads |-> old.payloads], steady[p])
    BY <1>6, <1>8, <2>1, OutcomeOK
  <2> QED BY <1>7, <2>2 DEF status
<1> QED BY <1>1, <1>9

\* A step of a thread that looks a measurement up.
LEMMA LookUpStepKeeps ==
  ASSUME ViewsInv, NEW p \in Threads, Resolve(p) \/ ResolveNothing(p) \/ ReadDisk(p)
  PROVE  ViewsInv'
<1>0. /\ UNCHANGED <<disk, steady, views, created, uses, lastUse>>
      /\ req[p].pc \in {"resolve", "disk"}
  BY DEF Resolve, ResolveNothing, ReadDisk
<1>1. OpenedOK(req[p], steady[p]) /\ steady[p] \subseteq KeysOnDisk
  BY <1>0, OpenedShape DEF ViewsInv, RequestsOK
<1>2. SUFFICES \E state : Goto(p, state) /\ RequestOK(state, steady[p])
  BY <1>0, GoingKeeps, StoreKept DEF ViewsInv
<1>3. CASE Resolve(p)
  <2>1. LookUp(p) /\ Len(req[p].status) < Len(req[p].selections) BY <1>3 DEF Resolve
  <2>2. CASE NextKey(p) \in byKey
    <3>1. Resolved(p, "ok") BY <2>1, <2>2 DEF LookUp
    <3> QED BY <1>1, <2>1, <3>1, ResolvedOK
  <2>3. CASE NextKey(p) \notin byKey
    <3>1. Goto(p, [req[p] EXCEPT !.pc = "disk"]) BY <2>1, <2>3 DEF LookUp
    <3>2. RequestOK([req[p] EXCEPT !.pc = "disk"], steady[p]) BY <1>1, <2>1, PhaseOK
    <3> QED BY <3>1, <3>2
  <2> QED BY <2>2, <2>3
<1>4. CASE ResolveNothing(p)
  <2>1. Goto(p, [req[p] EXCEPT !.pc = "reply"]) BY <1>4 DEF ResolveNothing
  <2>2. RequestOK([req[p] EXCEPT !.pc = "reply"], steady[p]) BY <1>1, PhaseOK
  <2> QED BY <2>1, <2>2
<1>5. CASE ReadDisk(p)
  <2> DEFINE r == NextKey(p).run
             outcome == CASE disk[r].dir = "ok" /\ NextKey(p) \in KeysOf(r) -> "ok"
                          [] disk[r].dir \in Unreadable /\ req[p].op = "report" -> "error"
                          [] OTHER -> "missing"
  <2>1. Resolved(p, outcome) BY <1>5 DEF ReadDisk
  <2>2. Len(req[p].status) < Len(req[p].selections) BY <1>1, <1>5 DEF ReadDisk, OpenedOK
  <2>3. ASSUME NextKey(p) \in steady[p] PROVE outcome = "ok"
    <3>1. PICK q \in Runs : \E row \in disk[q].meta : disk[q].dir = "ok" /\ NextKey(p) = Key(q, row)
      BY <1>1, <2>3, OnDisk
    <3>2. PICK row \in disk[q].meta : disk[q].dir = "ok" /\ NextKey(p) = Key(q, row) BY <3>1
    <3>3. r = q BY <3>2 DEF Key
    <3>4. NextKey(p) \in KeysOf(r) BY <3>2, <3>3 DEF KeysOf
    <3>5. disk[r].dir = "ok" /\ disk[r].dir \notin Unreadable BY <3>2, <3>3 DEF Unreadable
    <3> HIDE DEF r
    <3> QED BY <3>4, <3>5
  <2> HIDE DEF outcome
  <2>4. outcome = "ok" \/ NextKey(p) \notin steady[p] BY <2>3
  <2> QED BY <1>1, <2>1, <2>2, <2>4, ResolvedOK
<1> QED BY <1>3, <1>4, <1>5

\* A request begins, or ends: what it relies on changes with it.
LEMMA TurnKeeps ==
  ASSUME ViewsInv, NEW p \in Threads, NEW state, NEW T \in SUBSET KeysOnDisk,
         Goto(p, state), steady' = [steady EXCEPT ![p] = T], RequestOK(state, T),
         UNCHANGED disk
  PROVE  DiskOK' /\ DescriptorsOK' /\ RequestsOK'
<1>1. /\ req = [q \in Threads |-> req[q]] /\ steady = [q \in Threads |-> steady[q]]
      /\ \A q \in Threads : steady[q] \subseteq KeysOnDisk /\ RequestOK(req[q], steady[q])
  BY DEF ViewsInv, RequestsOK
<1>2. /\ req' = [q \in Threads |-> req'[q]] /\ req'[p] = state
      /\ \A q \in Threads \ {p} : req'[q] = req[q]
  BY <1>1 DEF Goto
<1>3. /\ steady' = [q \in Threads |-> steady'[q]] /\ steady'[p] = T
      /\ \A q \in Threads \ {p} : steady'[q] = steady[q]
  BY <1>1
<1>4. KeysOnDisk' = KeysOnDisk BY DEF KeysOnDisk, KeysOf
<1>5. \A q \in Threads : steady'[q] \subseteq KeysOnDisk /\ RequestOK(req'[q], steady'[q])
  BY <1>1, <1>2, <1>3
<1>6. RequestsOK' BY <1>2, <1>3, <1>4, <1>5 DEF RequestsOK
<1>7. DiskOK' /\ DescriptorsOK' BY DEF DiskOK, DescriptorsOK, ViewsInv
<1> QED BY <1>6, <1>7

\* A step of a thread that opens a view: it becomes the newest.
LEMMA OpenStepKeeps ==
  ASSUME ViewsInv, NEW p \in Threads, ViewSummary(p) \/ ViewReportData(p)
  PROVE  ViewsInv' /\ Evicts
<1>1. PICK v \in Range(views), op \in {"summary", "report"} : OpenView(p, op, v.id)
  BY DEF ViewSummary, ViewReportData
<1> DEFINE k == At(v.id)
           x == views[k]
           state == [pc |-> "resolve", op |-> op, selections |-> x.selections,
                     status |-> <<>>, payloads |-> [r \in {} |-> {}]]
<1>2. k \in 1..Len(views) /\ views[k].id = v.id BY ViewPlace DEF ViewsInv
<1>3. /\ views' = Append(RemoveAt(views, k), x) /\ Uses(views[k].id) /\ created' = created
      /\ Goto(p, state) /\ steady' = [steady EXCEPT ![p] = KeysOnDisk] /\ UNCHANGED disk
  BY <1>1, <1>2 DEF OpenView, Touch, View, Without
<1>4. SelectionsOK(x.selections) BY <1>2 DEF ViewsInv, ViewsOK
<1> HIDE DEF k
<1>5. /\ ViewsOK' /\ UsesOK'
      /\ \A u \in Range(views) : \E w \in Range(views') : w.id = u.id
  BY <1>2, <1>3, <1>4, UseKeeps DEF ViewsInv
<1>6. RequestOK(state, KeysOnDisk)
  <2>1. /\ state.pc = "resolve" /\ state.selections = x.selections /\ state.status = <<>>
        /\ state = [pc |-> state.pc, op |-> state.op, selections |-> state.selections,
                    status |-> state.status, payloads |-> state.payloads]
    OBVIOUS
  <2>2. Len(x.selections) \in Nat BY <1>4 DEF SelectionsOK, IsSequence
  <2> HIDE DEF state, x
  <2>3. OpenedOK(state, KeysOnDisk) BY <1>4, <2>1, <2>2, EmptyIsSequence DEF OpenedOK
  <2> QED BY <2>1, <2>3 DEF RequestOK
<1> HIDE DEF state
<1>7. DiskOK' /\ DescriptorsOK' /\ RequestsOK' BY <1>3, <1>6, TurnKeeps
<1> QED BY <1>5, <1>7, NoneEvicted DEF ViewsInv

LEMMA ReplyKeeps ==
  ASSUME ViewsInv, NEW p \in Threads, Reply(p)
  PROVE  ViewsInv'
<1>1. /\ Goto(p, Idle) /\ steady' = [steady EXCEPT ![p] = {}]
      /\ UNCHANGED <<disk, views, created, uses, lastUse>>
  BY DEF Reply
<1>2. RequestOK(Idle, {}) BY SimpleOK
<1>3. DiskOK' /\ DescriptorsOK' /\ RequestsOK' BY <1>1, <1>2, TurnKeeps
<1> QED BY <1>1, <1>3, StoreKept DEF ViewsInv

\* A report fails on a run that cannot be opened: one of its measurements is not
\* on disk.
LEMMA PayloadStepKeeps ==
  ASSUME ViewsInv, NEW p \in Threads, ReadPayload(p)
  PROVE  ViewsInv'
<1> DEFINE old == req[p]
           open == Open(old)
           next == old.selections[Min(open)].key.run
           done == [old EXCEPT !.pc = "reply"]
           failed == [old EXCEPT !.pc = "reply", !.status = Append(@, "error")]
           more == [old EXCEPT !.payloads =
                      [r \in DOMAIN @ \cup {next} |->
                         IF r \in DOMAIN @ THEN @[r] ELSE disk[r].trials]]
<1>0. /\ UNCHANGED <<disk, steady, views, created, uses, lastUse>> /\ old.pc = "payload"
      /\ Goto(p, IF open = {} THEN done ELSE IF disk[next].dir # "ok" THEN failed ELSE more)
  BY DEF ReadPayload
<1>1. OpenedOK(old, steady[p]) /\ steady[p] \subseteq KeysOnDisk
  BY <1>0, OpenedShape DEF ViewsInv, RequestsOK
<1>2. SUFFICES \E state : Goto(p, state) /\ RequestOK(state, steady[p])
  BY <1>0, GoingKeeps, StoreKept DEF ViewsInv
<1>3. CASE open = {}
  <2>1. RequestOK(done, steady[p]) BY <1>1, PhaseOK
  <2> QED BY <1>0, <1>3, <2>1
<1>4. CASE open # {} /\ disk[next].dir # "ok"
  <2>1. DOMAIN old.selections = 1..Len(old.selections) /\ Len(old.selections) \in Nat
    BY <1>1, SequenceIsSeq DEF OpenedOK, SelectionsOK, IsSequence
  <2>2. Min(open) \in 1..Len(old.selections)
    <3>1. open \in SUBSET (1..Len(old.selections)) BY <2>1 DEF Open
    <3>2. open \in SUBSET Nat BY <3>1
    <3> HIDE DEF open
    <3>3. Min(open) \in open BY <1>4, <3>2, MinOfNats
    <3> QED BY <3>1, <3>3
  <2>3. old.selections[Min(open)].key \notin steady[p]
    <3>1. SUFFICES ASSUME old.selections[Min(open)].key \in steady[p] PROVE FALSE OBVIOUS
    <3> DEFINE key == old.selections[Min(open)].key
    <3>2. PICK q \in Runs : \E row \in disk[q].meta : disk[q].dir = "ok" /\ key = Key(q, row)
      BY <1>1, <3>1, OnDisk
    <3>3. key.run = q BY <3>2 DEF Key
    <3> QED BY <1>4, <3>2, <3>3
  <2>4. "error" # "ok" =>
          /\ Len(old.status) + 1 \in 1..Len(old.selections) =>
               old.selections[Len(old.status) + 1].key \notin steady[p]
          /\ \E j \in 1..Len(old.selections) : old.selections[j].key \notin steady[p]
    <3>1. Len(old.status) = Len(old.selections) BY <1>0, <1>1 DEF OpenedOK
    <3> QED BY <2>1, <2>2, <2>3, <3>1
  <2>5. old = [pc |-> old.pc, op |-> old.op, selections |-> old.selections,
               status |-> old.status, payloads |-> old.payloads]
    BY <1>1 DEF OpenedOK
  <2>6. failed = [pc |-> "reply", op |-> old.op, selections |-> old.selections,
                  status |-> Append(old.status, "error"), payloads |-> old.payloads]
    BY <2>5, FailedExcept
  <2>7. RequestOK([pc |-> "reply", op |-> old.op, selections |-> old.selections,
                   status |-> Append(old.status, "error"), payloads |-> old.payloads], steady[p])
    BY <1>1, <2>4, OutcomeOK
  <2> QED BY <1>0, <1>4, <2>6, <2>7
<1>5. CASE open # {} /\ ~(disk[next].dir # "ok")
  <2> DEFINE payloads == [r \in DOMAIN old.payloads \cup {next} |->
                            IF r \in DOMAIN old.payloads THEN old.payloads[r] ELSE disk[r].trials]
  <2>1. more = [pc |-> old.pc, op |-> old.op, selections |-> old.selections,
                status |-> old.status, payloads |-> payloads]
    BY <1>1, StateExcept DEF OpenedOK
  <2>2. /\ more.pc = old.pc /\ more.op = old.op /\ more.selections = old.selections
        /\ more.status = old.status /\ more.payloads = payloads
    BY <2>1
  <2> HIDE DEF more, payloads
  <2>3. OpenedOK(more, steady[p]) BY <1>1, <2>1, <2>2 DEF OpenedOK
  <2>4. RequestOK(more, steady[p]) BY <1>0, <2>2, <2>3 DEF RequestOK
  <2> QED BY <1>0, <1>5, <2>4
<1> QED BY <1>3, <1>4, <1>5

-----------------------------------------------------------------------------
(* The invariant of the specification *)

LEMMA InitOK == Init => ViewsInv
<1> SUFFICES ASSUME Init PROVE ViewsInv OBVIOUS
<1>0. /\ disk = [r \in Runs |-> IF r \in Existing THEN Finished(r) ELSE Absent]
      /\ views = <<>> /\ created = 0 /\ uses = 0
      /\ req = [p \in Threads |-> Idle] /\ steady = [p \in Threads |-> {}]
  BY DEF Init
<1>1. DiskOK BY <1>0 DEF DiskOK, Finished, Absent
<1>2. DescriptorsOK BY <1>0 DEF DescriptorsOK, Finished, Absent
<1>3. ViewsOK BY <1>0, EmptyIsSequence, CompositeAssumption DEF ViewsOK
<1>4. UsesOK BY <1>0, EmptyIsSequence DEF UsesOK
<1>5. \A p \in Threads : steady[p] \subseteq KeysOnDisk /\ RequestOK(req[p], steady[p])
  BY <1>0, SimpleOK
<1>6. RequestsOK BY <1>0, <1>5 DEF RequestsOK
<1> QED BY <1>1, <1>2, <1>3, <1>4, <1>6 DEF ViewsInv

LEMMA SameViews ==
  ASSUME UNCHANGED views
  PROVE  Evicts
BY DEF Evicts

LEMMA StepKeeps ==
  ASSUME ViewsInv, [Next]_vars
  PROVE  ViewsInv' /\ [Evicts]_vars
<1>1. CASE \E r \in Runs : MakeDir(r) \/ MakeDb(r) \/ SaveRecord(r) \/ AddTrial(r) \/ DeleteRun(r)
  <2>1. PICK r \in Runs : MakeDir(r) \/ MakeDb(r) \/ SaveRecord(r) \/ AddTrial(r) \/ DeleteRun(r)
    BY <1>1
  <2>2. UNCHANGED views BY <2>1 DEF MakeDir, MakeDb, SaveRecord, AddTrial, DeleteRun, Change
  <2> QED BY <2>1, <2>2, RunStepKeeps, SameViews
<1>2. ASSUME NEW p \in Threads,
             \/ StartRefresh(p) \/ ScanRun(p) \/ SetDiscovery(p) \/ BuildIndex(p) \/ SetIndex(p)
             \/ SeedView(p)
      PROVE  ViewsInv' /\ Evicts
  <2>1. UNCHANGED views
    BY <1>2 DEF StartRefresh, ScanRun, SetDiscovery, BuildIndex, SetIndex, SeedView
  <2> QED BY <1>2, <2>1, RefreshStepKeeps, SameViews
<1>3. ASSUME NEW p \in Threads,
             Create(p) \/ AddMeasurements(p) \/ RemoveMeasurement(p) \/ CreateSeeded(p)
      PROVE  ViewsInv' /\ Evicts
  BY <1>3, ChangeStepKeeps
<1>4. ASSUME NEW p \in Threads, ViewSummary(p) \/ ViewReportData(p)
      PROVE  ViewsInv' /\ Evicts
  BY <1>4, OpenStepKeeps
<1>5. ASSUME NEW p \in Threads, Resolve(p) \/ ResolveNothing(p) \/ ReadDisk(p)
      PROVE  ViewsInv' /\ Evicts
  <2>1. UNCHANGED views BY <1>5 DEF Resolve, ResolveNothing, ReadDisk
  <2> QED BY <1>5, <2>1, LookUpStepKeeps, SameViews
<1>6. ASSUME NEW p \in Threads, ReadPayload(p)
      PROVE  ViewsInv' /\ Evicts
  <2>1. UNCHANGED views BY <1>6 DEF ReadPayload
  <2> QED BY <1>6, <2>1, PayloadStepKeeps, SameViews
<1>7. ASSUME NEW p \in Threads, Reply(p)
      PROVE  ViewsInv' /\ Evicts
  <2>1. UNCHANGED views BY <1>7 DEF Reply
  <2> QED BY <1>7, <2>1, ReplyKeeps, SameViews
<1>8. CASE UNCHANGED vars
  <2>1. UNCHANGED <<disk, views, created, req, steady, uses, lastUse>> BY <1>8 DEF vars
  <2> QED BY <1>8, <2>1, StoreKept, DiskKept DEF ViewsInv
<1> QED BY <1>1, <1>2, <1>3, <1>4, <1>5, <1>6, <1>7, <1>8 DEF Next

\* In every state the views are well formed and ordered by their last uses, and
\* what a request has found out is not contradicted by what was on disk ever since
\* it began (CompositeViewStore, CompositeRegistry, view_report_data).
THEOREM ViewsInvHolds == Spec => []ViewsInv
<1>1. ViewsInv /\ [Next]_vars => ViewsInv' BY StepKeeps
<1> QED BY InitOK, <1>1, PTL DEF Spec

\* The store evicts only to make room for a view that is created, and then the view
\* that was used before all that stay (CompositeViewStore._enforce_limit, get).
THEOREM LeastRecentlyUsedGoes == Spec => EvictsLeastRecentlyUsed
<1>1. ViewsInv /\ [Next]_vars =>
        [\A v \in Range(views) : (\A w \in Range(views') : w.id # v.id) =>
           /\ Len(views) = MaxViews /\ created' = created + 1
           /\ \A w \in Range(views) \ {v} : lastUse[v.id] < lastUse[w.id]]_vars
  BY StepKeeps DEF Evicts
<1> QED BY <1>1, ViewsInvHolds, PTL DEF Spec, EvictsLeastRecentlyUsed

-----------------------------------------------------------------------------
(* What a request replies *)

LEMMA RepliesAreTrue ==
  ASSUME ViewsInv
  PROVE  NeverFalselyMissing
<1> SUFFICES ASSUME NEW p \in Threads, req[p].pc = "reply"
             PROVE  /\ \A i \in DOMAIN req[p].status :
                         i \in DOMAIN req[p].selections /\ req[p].status[i] # "ok" =>
                           req[p].selections[i].key \notin steady[p]
                    /\ {s.key : s \in Range(req[p].selections)} \subseteq steady[p] =>
                         \A i \in DOMAIN req[p].status : req[p].status[i] = "ok"
  BY DEF NeverFalselyMissing
<1> DEFINE state == req[p]
<1>1. OpenedOK(state, steady[p]) BY OpenedShape DEF ViewsInv, RequestsOK
<1>2. DOMAIN state.status = 1..Len(state.status) BY <1>1, SequenceIsSeq DEF OpenedOK
<1>3. DOMAIN state.selections = 1..Len(state.selections)
  BY <1>1, SequenceIsSeq DEF OpenedOK, SelectionsOK
<1>4. ASSUME NEW i \in DOMAIN state.status, state.status[i] # "ok"
      PROVE  /\ i \in DOMAIN state.selections => state.selections[i].key \notin steady[p]
             /\ \E j \in DOMAIN state.selections : state.selections[j].key \notin steady[p]
  BY <1>1, <1>2, <1>3, <1>4 DEF OpenedOK
<1> HIDE DEF state
<1>5. ASSUME {s.key : s \in Range(state.selections)} \subseteq steady[p]
      PROVE  \A i \in DOMAIN state.status : state.status[i] = "ok"
  <2>1. \A j \in DOMAIN state.selections : state.selections[j].key \in steady[p]
    BY <1>5 DEF Range
  <2> QED BY <1>4, <2>1
<1> QED BY <1>4, <1>5 DEF state

\* A measurement that is on disk as long as a request lasts is never reported
\* missing, whichever refreshes are under way (_resolve_entries).
THEOREM NothingIsFalselyMissing == Spec => []NeverFalselyMissing
<1>1. ViewsInv => NeverFalselyMissing BY RepliesAreTrue
<1> QED BY <1>1, ViewsInvHolds, PTL

-----------------------------------------------------------------------------
(* The names of the series *)

LEMMA BaseIsSequence ==
  ASSUME NEW s, IsSequence(s.display)
  PROVE  IsSequence(Base(s))
<1> DEFINE one == <<s.key.fuzzer>>
<1>1. one = [i \in 1..1 |-> one[i]] OBVIOUS
<1> HIDE DEF one
<1>2. IsSequence(one) BY <1>1, FunctionIsSequence
<1> QED BY <1>2 DEF Base, one

\* Two numbers make two names of one.
LEMMA NumbersDiffer ==
  ASSUME NEW base, IsSequence(base), NEW m, NEW n, Append(base, m) = Append(base, n)
  PROVE  m = n
<1>1. Len(base) \in Nat BY DEF IsSequence
<1>2. Len(base) + 1 \in 1..Len(base) + 1 /\ ~ (Len(base) + 1 <= Len(base)) BY <1>1
<1>3. Append(base, m)[Len(base) + 1] = m BY <1>2, Appended
<1>4. Append(base, n)[Len(base) + 1] = n BY <1>2, Appended
<1> QED BY <1>3, <1>4

\* The name given is not taken: one of more numbers than names is free.
LEMMA NameIsFree ==
  ASSUME NEW base, IsSequence(base), NEW taken, IsFiniteSet(taken)
  PROVE  DisplayFuzzer(base, taken) \notin taken
<1>1. CASE base \notin taken BY <1>1 DEF DisplayFuzzer
<1>2. CASE base \in taken
  <2> DEFINE c == Cardinality(taken)
             Free == {n \in 2..c + 2 : Append(base, n) \notin taken}
             good(n) == /\ Append(base, n) \notin taken
                        /\ \A m \in 2..n - 1 : Append(base, m) \in taken
  <2>1. c \in Nat BY FS_CardinalityType
  <2>2. Free # {}
    <3>1. SUFFICES ASSUME Free = {} PROVE FALSE OBVIOUS
    <3> DEFINE f == [n \in 2..c + 2 |-> Append(base, n)]
    <3>2. f \in [2..c + 2 -> taken] BY <3>1
    <3>3. \A m, n \in 2..c + 2 : f[m] = f[n] => m = n BY NumbersDiffer
    <3>4. f \in Injection(2..c + 2, taken) BY <3>2, <3>3 DEF Injection, IsInjective
    <3> HIDE DEF f, c
    <3>5. Cardinality(2..c + 2) <= Cardinality(taken) BY <3>4, FS_Injection
    <3>6. Cardinality(2..c + 2) = c + 1
      <4>1. 2 \in Int /\ c + 2 \in Int /\ ~ (2 > c + 2) BY <2>1
      <4>2. Cardinality(2..c + 2) = (c + 2) - 2 + 1 BY <4>1, FS_Interval
      <4> QED BY <2>1, <4>2
    <3> QED BY <2>1, <3>5, <3>6 DEF c
  <2>3. PICK n \in Free : \A m \in Free : n <= m
    <3>1. Free \subseteq Nat BY <2>1
    <3> HIDE DEF Free
    <3> QED BY <2>2, <3>1, MinOfNats
  <2>4. n \in 2..c + 2 /\ good(n)
    <3>1. n \in 2..c + 2 /\ Append(base, n) \notin taken BY <2>3
    <3>2. ASSUME NEW m \in 2..n - 1 PROVE Append(base, m) \in taken
      <4>1. m \in 2..c + 2 /\ ~ (n <= m) BY <2>1, <3>1
      <4> QED BY <2>3, <4>1
    <3> QED BY <3>1, <3>2
  <2>5. DisplayFuzzer(base, taken) = Append(base, CHOOSE k \in 2..c + 2 : good(k))
    BY <1>2 DEF DisplayFuzzer
  <2> HIDE DEF good, c
  <2>6. good(CHOOSE k \in 2..c + 2 : good(k)) BY <2>4
  <2> QED BY <2>5, <2>6 DEF good
<1> QED BY <1>1, <1>2

Earlier(selections, i) ==
  {j \in 1..i - 1 : selections[j].key.target = selections[i].key.target}
Named(selections, names, i) ==
  [target |-> selections[i].key.target,
   name |-> DisplayFuzzer(Base(selections[i]), {names[j].name : j \in Earlier(selections, i)})]

\* The names of the first selections, one after the other.
LEMMA NamesExist ==
  ASSUME NEW selections, NEW n \in Nat
  PROVE  \E g : g = [i \in 1..n |-> Named(selections, g, i)]
<1> DEFINE P(m) == \E g : g = [i \in 1..m |-> Named(selections, g, i)]
           Bad == {m \in Nat : ~ P(m)}
<1>1. SUFFICES ASSUME Bad # {} PROVE FALSE OBVIOUS
<1>2. Bad \subseteq Nat OBVIOUS
<1>3. PICK k \in Bad : \A l \in Bad : k <= l
  <2> HIDE DEF Bad
  <2> QED BY <1>1, <1>2, MinOfNats
<1>4. k \in Nat /\ ~ P(k) BY <1>3
<1>5. CASE k = 0
  <2> DEFINE g == [i \in 1..0 |-> 0]
  <2>1. g = [i \in 1..0 |-> Named(selections, g, i)] OBVIOUS
  <2> HIDE DEF g
  <2> QED BY <1>4, <1>5, <2>1
<1>6. CASE k # 0
  <2>1. k - 1 \in Nat /\ k - 1 \notin Bad BY <1>3, <1>4, <1>6
  <2>2. PICK g : g = [i \in 1..k - 1 |-> Named(selections, g, i)] BY <2>1
  <2> DEFINE h == [i \in 1..k |-> Named(selections, g, i)]
  <2>3. \A i \in 1..k - 1 : h[i] = g[i]
    <3> TAKE i \in 1..k - 1
    <3>1. i \in 1..k BY <1>4
    <3> HIDE DEF h
    <3>2. h[i] = Named(selections, g, i) BY <3>1 DEF h
    <3>3. g[i] = Named(selections, g, i) BY <2>2
    <3> QED BY <3>2, <3>3
  <2>4. ASSUME NEW i \in 1..k PROVE Named(selections, h, i) = Named(selections, g, i)
    <3>1. Earlier(selections, i) \subseteq 1..k - 1 BY <1>4 DEF Earlier
    <3> HIDE DEF h
    <3>2. {h[j].name : j \in Earlier(selections, i)} = {g[j].name : j \in Earlier(selections, i)}
      BY <2>3, <3>1
    <3> QED BY <3>2 DEF Named
  <2>5. h = [i \in 1..k |-> Named(selections, h, i)]
    <3> DEFINE a(i) == Named(selections, g, i)
               b(i) == Named(selections, h, i)
    <3>1. \A i \in 1..k : b(i) = a(i) BY <2>4
    <3>2. h = [i \in 1..k |-> a(i)] OBVIOUS
    <3> HIDE DEF a, b, h
    <3>3. h = [i \in 1..k |-> b(i)] BY <3>1, <3>2
    <3> QED BY <3>3 DEF b
  <2> HIDE DEF h
  <2> QED BY <1>4, <2>5
<1> QED BY <1>5, <1>6

LEMMA NamesEquation ==
  ASSUME NEW selections, IsSequence(selections)
  PROVE  \A i \in 1..Len(selections) : Names(selections)[i] = Named(selections, Names(selections), i)
<1>1. Len(selections) \in Nat /\ DOMAIN selections = 1..Len(selections)
  BY SequenceIsSeq DEF IsSequence
<1> DEFINE D == DOMAIN selections
           names == CHOOSE g : g = [i \in D |-> Named(selections, g, i)]
<1>2. \E g : g = [i \in D |-> Named(selections, g, i)]
  <2>1. \E g : g = [i \in 1..Len(selections) |-> Named(selections, g, i)]
    BY <1>1, NamesExist
  <2>2. D = 1..Len(selections) BY <1>1
  <2> HIDE DEF D
  <2> QED BY <2>1, <2>2
<1>3. names = [i \in D |-> Named(selections, names, i)]
  <2> HIDE DEF D
  <2> QED BY <1>2
<1>4. Names(selections) = names BY DEF Names, Named, Earlier
<1> HIDE DEF names
<1>5. \A i \in D : names[i] = Named(selections, names, i) BY <1>3
<1> QED BY <1>1, <1>4, <1>5

\* No two selections of a target are shown under one name.
LEMMA NamesDiffer ==
  ASSUME NEW selections, SelectionsOK(selections),
         NEW i \in 1..Len(selections), NEW j \in 1..Len(selections), i # j
  PROVE  Names(selections)[i] # Names(selections)[j]
<1> DEFINE names == Names(selections)
<1>1. IsSequence(selections) /\ Len(selections) \in Nat BY DEF SelectionsOK, IsSequence
<1>2. ASSUME NEW a \in 1..Len(selections), NEW b \in 1..Len(selections), a < b
      PROVE  names[a] # names[b]
  <2>1. names[b] = Named(selections, names, b) /\ names[a] = Named(selections, names, a)
    BY <1>1, NamesEquation
  <2> HIDE DEF names
  <2> DEFINE taken == {names[l].name : l \in Earlier(selections, b)}
  <2>2. /\ names[b].target = selections[b].key.target
        /\ names[a].target = selections[a].key.target
        /\ names[b].name = DisplayFuzzer(Base(selections[b]), taken)
    BY <2>1 DEF Named
  <2>3. SUFFICES ASSUME names[a] = names[b] PROVE FALSE OBVIOUS
  <2>4. a \in Earlier(selections, b)
    BY <1>1, <1>2, <2>2, <2>3 DEF Earlier
  <2>5. names[b].name \in taken BY <2>3, <2>4
  <2>6. IsFiniteSet(taken)
    <3> DEFINE E == Earlier(selections, b)
               f == [l \in E |-> names[l].name]
    <3>1. IsFiniteSet(E)
      <4>1. b - 1 \in Nat /\ E \in SUBSET (1..b - 1) BY <1>1 DEF Earlier
      <4> QED BY <4>1, FirstNumbers
    <3>2. f \in Surjection(E, taken) BY DEF Surjection
    <3> HIDE DEF f, E, taken
    <3> QED BY <3>1, <3>2, FS_Surjection
  <2>7. IsSequence(Base(selections[b])) BY BaseIsSequence DEF SelectionsOK
  <2> HIDE DEF taken
  <2>8. DisplayFuzzer(Base(selections[b]), taken) \notin taken BY <2>6, <2>7, NameIsFree
  <2> QED BY <2>2, <2>5, <2>8
<1>3. i < j \/ j < i BY <1>1
<1> HIDE DEF names
<1>4. names[i] # names[j] BY <1>2, <1>3
<1> QED BY <1>4 DEF names

\* A series is compared with the first fresh one of its target, if there is one.
LEMMA FreshDecides ==
  ASSUME NEW selections, SelectionsOK(selections), NEW i \in 1..Len(selections),
         NEW f \in 1..Len(selections),
         selections[f].origin = "fresh", selections[f].key.target = selections[i].key.target,
         f # i
  PROVE  /\ Reference(selections, i) \in 1..Len(selections)
         /\ selections[Reference(selections, i)].origin = "fresh"
         /\ selections[Reference(selections, i)].key.target = selections[i].key.target
<1> DEFINE n == Len(selections)
           same == {j \in DOMAIN selections : selections[j].key.target = selections[i].key.target}
           fresh == {j \in same : selections[j].origin = "fresh"}
<1>1. n \in Nat /\ DOMAIN selections = 1..n
  BY SequenceIsSeq DEF SelectionsOK, IsSequence
<1>2. f \in fresh /\ same # {i} BY <1>1
<1>3. Reference(selections, i) = Min(fresh) BY <1>2 DEF Reference
<1>4. Min(fresh) \in fresh
  <2>1. fresh \in SUBSET Nat BY <1>1
  <2> HIDE DEF fresh
  <2> QED BY <1>2, <2>1, MinOfNats
<1> QED BY <1>1, <1>3, <1>4

LEMMA SeriesAreRight ==
  ASSUME ViewsInv
  PROVE  SeriesAreAttributed
<1> SUFFICES ASSUME NEW state \in Complete
             PROVE  LET selections == state.selections
                        names == Names(selections)
                        Repetitions(i) == Metadata[selections[i].key.run].repetitions
                        Fresh(i) == {j \in DOMAIN selections : selections[j].origin = "fresh"
                                                               /\ names[j].target = names[i].target}
                    IN /\ \A i, j \in Merged(state) : i # j => names[i] # names[j]
                       /\ \A i \in Merged(state) : SourceDir(state, names[i]) = selections[i].key.run
                       /\ \A i \in DOMAIN selections :
                            /\ selections[i].origin = "historical" /\ 0 < Repetitions(i)
                            /\ Fresh(i) # {} /\ \A j \in Fresh(i) : Repetitions(i) < Repetitions(j)
                            => Level(selections, i) # "compatible"
  BY DEF SeriesAreAttributed
<1> DEFINE selections == state.selections
           names == Names(selections)
           n == Len(selections)
           Repetitions(i) == Metadata[selections[i].key.run].repetitions
           Fresh(i) == {j \in DOMAIN selections : selections[j].origin = "fresh"
                                                  /\ names[j].target = names[i].target}
<1>1. SelectionsOK(selections)
  <2>1. PICK p \in Threads : state = req[p] /\ req[p].pc = "reply"
    BY DEF Complete, Replies
  <2>2. OpenedOK(req[p], steady[p]) BY <2>1, OpenedShape DEF ViewsInv, RequestsOK
  <2> QED BY <2>1, <2>2 DEF OpenedOK
<1>2. n \in Nat /\ DOMAIN selections = 1..n /\ Merged(state) \subseteq 1..n
  BY <1>1, SequenceIsSeq DEF SelectionsOK, IsSequence, Merged
<1>3. \A i, j \in 1..n : i # j => names[i] # names[j] BY <1>1, NamesDiffer
<1>4. ASSUME NEW i \in Merged(state) PROVE SourceDir(state, names[i]) = selections[i].key.run
  <2> DEFINE S == {j \in Merged(state) : names[j] = names[i]}
  <2>1. S = {i} BY <1>2, <1>3
  <2>2. i \in Int BY <1>2
  <2>3. Max({i}) = i BY <2>2 DEF Max
  <2>4. SourceDir(state, names[i]) = selections[Max(S)].key.run BY DEF SourceDir
  <2> HIDE DEF S
  <2> QED BY <2>1, <2>3, <2>4
<1>5. ASSUME NEW i \in DOMAIN selections, selections[i].origin = "historical", 0 < Repetitions(i),
             Fresh(i) # {}, \A j \in Fresh(i) : Repetitions(i) < Repetitions(j)
      PROVE  Level(selections, i) # "compatible"
  <2>1. \A j \in 1..n : names[j].target = selections[j].key.target
    <3>1. ASSUME NEW j \in 1..n PROVE Names(selections)[j].target = selections[j].key.target
      <4>1. Names(selections)[j] = Named(selections, Names(selections), j)
        BY <1>1, NamesEquation DEF SelectionsOK
      <4>2. Named(selections, Names(selections), j).target = selections[j].key.target BY DEF Named
      <4> QED BY <4>1, <4>2
    <3> QED BY <3>1
  <2>2. PICK f \in 1..n : /\ selections[f].origin = "fresh"
                          /\ selections[f].key.target = selections[i].key.target
    BY <1>2, <1>5, <2>1
  <2> DEFINE at == Reference(selections, i)
             level == Compare(Metadata[selections[at].key.run], Metadata[selections[i].key.run])
             less(field) == LET c == Metadata[selections[i].key.run][field]
                                r == Metadata[selections[at].key.run][field]
                            IN c # 0 /\ r # 0 /\ c < r
  <2>3. /\ at \in 1..n /\ selections[at].origin = "fresh"
        /\ selections[at].key.target = selections[i].key.target
    BY <1>1, <1>2, <1>5, <2>2, FreshDecides
  <2>4. Repetitions(i) < Repetitions(at) BY <1>2, <1>5, <2>1, <2>3
  <2>5. Repetitions(i) \in Nat /\ Repetitions(at) \in Nat
    <3>1. selections[i].key \in Keys /\ selections[at].key \in Keys
      BY <1>1, <1>2, <2>3 DEF SelectionsOK
    <3>2. \A k \in Keys : k.run \in Runs BY DEF Keys, Key
    <3> QED BY <3>1, <3>2, CompositeAssumption
  <2>6. less("repetitions") BY <1>5, <2>4, <2>5
  <2>7. at # 0 /\ selections[at].key # selections[i].key BY <2>3, <2>4, <2>5
  <2>8. Level(selections, i) =
          IF at = 0 \/ selections[at].key = selections[i].key THEN "compatible"
          ELSE IF /\ level = "compatible" /\ selections[at].origin = "fresh"
                  /\ less("repetitions") \/ less("runtime")
          THEN "risky" ELSE level
    BY DEF Level
  <2> HIDE DEF at, level, less
  <2> QED BY <2>3, <2>6, <2>7, <2>8
<1> QED BY <1>2, <1>3, <1>4, <1>5

\* In a report no two series of a target have one name, every series is shown with
\* the coverage sets of its own run, and a historical series is not called
\* compatible with fresh ones of more repetitions (build_composite_payload).
THEOREM SeriesAreTold == Spec => []SeriesAreAttributed
<1>1. ViewsInv => SeriesAreAttributed BY SeriesAreRight
<1> QED BY <1>1, ViewsInvHolds, PTL
=============================================================================
