---------------------------- MODULE ResearchProofs ----------------------------
(***************************************************************************)
(* Proofs about Research: a dataset never leaks and misses nothing, nor    *)
(* does a ranking; a pair that was a honeypot is never cleared of it;      *)
(* features are traceable, and a run that nothing disturbs refreshes them; *)
(* for any rows, times, writers and number of runs.                        *)
(***************************************************************************)
EXTENDS Research, FiniteSetTheorems, WellFoundedInduction, TLAPS

(* The row that is built and those that are have no feature of later.      *)
NoLeak ==
  /\ build.pc \in {"idle", "outcome", "features", "over"}
  /\ build.pc = "features" => \A f \in build.row : f.asOf <= Evaluated.at
  /\ \A row \in build.rows : ~Leaks(row)

(* What an active ranking has counted so far.                              *)
Scored ==
  /\ rank.pc \in {"idle", "names", "factors", "out", "honeypot", "launch", "rug", "over"}
  /\ rank.score \in Int
  /\ rank.warned => \E i \in insights : i.type = "HoneypotDetected"
  /\ rank.pc = "honeypot" => rank.score = Base
  /\ rank.pc = "launch" /\ rank.warned => rank.score <= Base - HoneypotPenalty
  /\ rank.pc \in {"rug", "over"} /\ rank.warned =>
       rank.score <= Base - HoneypotPenalty + LaunchBoost

LEMMA ContributionType ==
  ASSUME NEW name, NEW value
  PROVE  Contribution(name, value) \in Int
<1>1. NormalizedGrowth(value) \in {0, 100}
  BY DEF NormalizedGrowth
<1>2. NormalizedMomentum(value) \in {0, 50, 100}
  BY DEF NormalizedMomentum
<1>3. (35 * NormalizedGrowth(value)) \div 100 \in Int
  BY <1>1
<1>4. (30 * NormalizedMomentum(value)) \div 100 \in Int
  BY <1>2
<1> QED
  BY <1>3, <1>4 DEF Contribution

LEMMA BaseType == Base \in Int
<1>1. \A name : Factor(name) \in Int
  BY ContributionType DEF Factor
<1> QED
  BY <1>1 DEF Base

(* The dataset changes in its own steps only.                              *)
LEMMA NoLeakStep ==
  ASSUME NoLeak, [Next]_vars
  PROVE  NoLeak'
<1>1. CASE StartBuild
  BY <1>1 DEF StartBuild, NoBuild, NoLeak
<1>2. CASE ReadNames
  BY <1>2 DEF ReadNames, NoLeak, Leaks
<1>3. CASE ReadFeature
  <2>1. PICK name \in build.names :
          build' = [build EXCEPT !.names = @ \ {name},
                                 !.row = @ \cup FeatureAt(name, Evaluated.at)]
    BY <1>3 DEF ReadFeature
  <2>2. build.pc = "features"
    BY <1>3 DEF ReadFeature
  <2> QED
    BY <2>1, <2>2 DEF NoLeak, Leaks, FeatureAt, Evaluated
<1>4. CASE AddRow
  <2>1. ~Leaks([at |-> Evaluated.at, features |-> build.row])
    BY <1>4 DEF AddRow, NoLeak, Leaks
  <2> QED
    BY <1>4, <2>1 DEF AddRow, NoLeak, Leaks
<1>5. CASE EndBuild
  BY <1>5 DEF EndBuild, NoLeak, Leaks
<1>6. CASE UNCHANGED build
  BY <1>6 DEF NoLeak, Leaks, Evaluated
<1>7. [Next]_vars => \/ StartBuild \/ ReadNames \/ ReadFeature \/ AddRow \/ EndBuild
                     \/ UNCHANGED build
  BY DEF Next, Write, Work, Read, StartSnapshots, PriceSnapshot,
         TakeSnapshot, BackfillSnapshot, SaveBar, StartScan, SaveInsight,
         SaveLabel, Others, StartJob, StartScript, Compute, Assess, SaveFeature, Interrupt,
         AskRanking, ReadFactorNames, ReadFactor, AddFactors, ReadHoneypot, ReadLaunch, ReadRug, vars
<1> QED
  BY <1>1, <1>2, <1>3, <1>4, <1>5, <1>6, <1>7

(* Insights are never deleted.                                             *)
LEMMA InsightsGrow == [Next]_vars => insights \subseteq insights'
BY DEF Next, Write, Work, Read, StartSnapshots, PriceSnapshot,
         TakeSnapshot, BackfillSnapshot, SaveBar, StartScan, SaveInsight,
       SaveLabel, Others, StartJob, StartScript, Compute, Assess, SaveFeature, Interrupt,
       StartBuild, ReadNames, ReadFeature, AddRow, EndBuild,
       AskRanking, ReadFactorNames, ReadFactor, AddFactors, ReadHoneypot, ReadLaunch, ReadRug, vars, tables

LEMMA ScoredStep ==
  ASSUME Scored, [Next]_vars
  PROVE  Scored'
<1> USE DEF HoneypotPenalty, LaunchBoost, RugPullPenalty
<1>0. Base \in Int
  BY BaseType
<1>1. insights \subseteq insights'
  BY InsightsGrow
<1>2. CASE AskRanking
  <2>1. PICK asOf \in AskedTimes :
          rank' = [NoRank EXCEPT !.pc = "names", !.asOf = asOf,
                     !.known = {f \in features : f.name \in Weighted /\ f.asOf <= asOf},
                     !.warned = \E i \in insights : i.type = "HoneypotDetected" /\ i.at <= asOf]
    BY <1>2 DEF AskRanking
  <2>2. /\ rank'.pc = "names" /\ rank'.score = 0
        /\ rank'.warned = \E i \in insights : i.type = "HoneypotDetected" /\ i.at <= asOf
    BY <2>1 DEF NoRank
  <2> QED
    BY <1>1, <2>2 DEF Scored
<1>3. CASE ReadFactorNames \/ ReadFactor
  <2>1. rank'.pc = "factors" /\ rank'.score = rank.score /\ rank'.warned = rank.warned
    <3>1. CASE ReadFactorNames
      <4>1. PICK names : rank' = [rank EXCEPT !.pc = "factors", !.names = names]
        BY <3>1 DEF ReadFactorNames
      <4> QED
        BY <4>1
    <3>2. CASE ReadFactor
      <4>1. PICK names, read : rank' = [rank EXCEPT !.names = names, !.read = read]
        <5>1. PICK name \in rank.names :
                rank' = [rank EXCEPT !.names = rank.names \ {name},
                                     !.read = rank.read \cup FeatureAt(name, rank.asOf)]
          BY <3>2 DEF ReadFactor
        <5> QED
          BY <5>1
      <4> QED
        BY <3>2, <4>1 DEF ReadFactor
    <3> QED
      BY <1>3, <3>1, <3>2
  <2> QED
    BY <1>1, <2>1 DEF Scored
<1>4. CASE AddFactors
  <2> DEFINE base == Base
  <2>1. CASE rank' = [rank EXCEPT !.pc = "out"]
    BY <1>1, <2>1 DEF Scored
  <2>2. CASE rank' = [rank EXCEPT !.pc = "honeypot", !.score = base]
    <3> HIDE DEF base
    <3>1. /\ rank'.pc = "honeypot" /\ rank'.score = base
          /\ rank'.warned = rank.warned /\ rank'.read = rank.read
      BY <2>2
    <3>2. Base' = base
      BY <3>1 DEF base, Base, Factor
    <3>3. base \in Int
      BY <1>0 DEF base
    <3> QED
      BY <1>1, <3>1, <3>2, <3>3 DEF Scored
  <2> QED
    BY <1>4, <2>1, <2>2 DEF AddFactors
<1>5. ASSUME rank'.read = rank.read
      PROVE  Base' = Base
  BY <1>5 DEF Base, Factor
<1>6. CASE ReadHoneypot
  <2>1. rank.warned => \E i \in insights : IsWarning(i)
    BY DEF Scored, IsWarning
  <2>2. /\ rank.pc = "honeypot" /\ rank'.pc = "launch" /\ rank'.warned = rank.warned
        /\ rank'.read = rank.read
        /\ rank'.score = IF \E i \in insights : IsWarning(i)
                           THEN rank.score - HoneypotPenalty ELSE rank.score
    BY <1>6 DEF ReadHoneypot, Scored
  <2> QED
    BY <1>0, <1>1, <1>5, <2>1, <2>2 DEF Scored
<1>7. CASE ReadLaunch
  <2>1. /\ rank.pc = "launch" /\ rank'.pc = "rug" /\ rank'.warned = rank.warned
        /\ rank'.read = rank.read
        /\ rank'.score = IF LatestLabel("SUCCESSFUL_LAUNCH")
                           THEN rank.score + LaunchBoost ELSE rank.score
    BY <1>7 DEF ReadLaunch, Scored
  <2> QED
    BY <1>0, <1>1, <1>5, <2>1 DEF Scored
<1>8. CASE ReadRug
  <2>1. /\ rank.pc = "rug" /\ rank'.pc = "over" /\ rank'.warned = rank.warned
        /\ rank'.read = rank.read
        /\ rank'.score = IF LatestLabel("RUG_PULL")
                           THEN rank.score - RugPullPenalty ELSE rank.score
    BY <1>8 DEF ReadRug, Scored
  <2> QED
    BY <1>0, <1>1, <1>5, <2>1 DEF Scored
<1>9. CASE UNCHANGED rank
  BY <1>1, <1>5, <1>9 DEF Scored
<1>10. [Next]_vars => \/ AskRanking \/ ReadFactorNames \/ ReadFactor \/ AddFactors
                      \/ ReadHoneypot \/ ReadLaunch \/ ReadRug
                      \/ UNCHANGED rank
  BY DEF Next, Write, Work, Read, StartSnapshots, PriceSnapshot,
         TakeSnapshot, BackfillSnapshot, SaveBar, StartScan, SaveInsight,
         SaveLabel, Others, StartJob, StartScript, Compute, Assess, SaveFeature, Interrupt,
         StartBuild, ReadNames, ReadFeature, AddRow, EndBuild, vars
<1> QED
  BY <1>2, <1>3, <1>4, <1>6, <1>7, <1>8, <1>9, <1>10

-----------------------------------------------------------------------------
(* Traceable.                                                              *)

Pending(w) ==
  /\ w.rule \in DOMAIN FeatureOrder
  /\ w.pc \in {"idle", "compute", "assess", "save", "over"}
  /\ w.pc = "assess" => Task(w).name = "honeypot_detected_score"
  /\ w.pc = "save" => IsTraceable(FeatureOf(Task(w), w.result[1]))

(* What is there is finite and what waits to be saved is traceable.        *)
Sourced ==
  /\ IsFiniteSet(snapshots) /\ IsFiniteSet(bars)
  /\ \A f \in features : IsTraceable(f)
  /\ worker = [w \in Workers |-> worker[w]]
  /\ \A w \in Workers : Pending(worker[w])

(* Sorted rows are a sequence of them.                                     *)
LEMMA SortedRows ==
  ASSUME NEW rows, IsFiniteSet(rows), NEW q \in Sorted(rows)
  PROVE  /\ Len(q) \in Nat /\ DOMAIN q = 1..Len(q)
         /\ \A i \in DOMAIN q : q[i] \in rows
<1>1. Cardinality(rows) \in Nat
  BY FS_CardinalityType
<1>2. q \in [1..Cardinality(rows) -> rows]
  BY DEF Sorted
<1>3. q \in Seq(rows) /\ Len(q) = Cardinality(rows)
  BY <1>1, <1>2
<1> QED
  BY <1>2, <1>3

LEMMA FiniteWindow ==
  ASSUME NEW rows, IsFiniteSet(rows), NEW from, NEW asOf
  PROVE  IsFiniteSet(Window(rows, from, asOf))
BY FS_Subset DEF Window

(* Rows of a window name traceable features.                               *)
LEMMA SnapshotsTraceable ==
  ASSUME NEW name, name # "honeypot_detected_score", NEW asOf, NEW from, NEW value,
         IsFiniteSet(snapshots), NEW q \in Sorted(Window(snapshots, from, asOf)), q # <<>>
  PROVE  IsTraceable([name |-> name, asOf |-> asOf, value |-> value, inputs |-> SnapshotIds(q)])
<1>1. /\ Len(q) \in Nat /\ DOMAIN q = 1..Len(q)
      /\ \A i \in DOMAIN q : q[i] \in Window(snapshots, from, asOf)
  BY FiniteWindow, SortedRows
<1>2. DOMAIN q # {}
  BY <1>1
<1>3. SnapshotIds(q) # <<>>
  BY <1>2 DEF SnapshotIds
<1>4. ASSUME NEW i \in DOMAIN SnapshotIds(q)
      PROVE  SnapshotIds(q)[i] \in RowIds /\ SnapshotIds(q)[i][1] < asOf + Second
  <2>1. i \in DOMAIN q /\ SnapshotIds(q)[i] = SnapshotId(q[i])
    BY DEF SnapshotIds
  <2>2. q[i] \in snapshots /\ q[i].at < asOf + Second
    BY <1>1, <2>1 DEF Window
  <2> QED
    BY <2>1, <2>2 DEF RowIds, SnapshotId
<1> QED
  BY <1>3, <1>4 DEF IsTraceable

LEMMA BarsTraceable ==
  ASSUME NEW name, name # "honeypot_detected_score", NEW asOf, NEW from, NEW value,
         IsFiniteSet(bars), NEW q \in Sorted(Window(bars, from, asOf)), q # <<>>
  PROVE  IsTraceable([name |-> name, asOf |-> asOf, value |-> value, inputs |-> BarIds(q)])
<1>1. /\ Len(q) \in Nat /\ DOMAIN q = 1..Len(q)
      /\ \A i \in DOMAIN q : q[i] \in Window(bars, from, asOf)
  BY FiniteWindow, SortedRows
<1>2. DOMAIN q # {}
  BY <1>1
<1>3. BarIds(q) # <<>>
  BY <1>2 DEF BarIds
<1>4. ASSUME NEW i \in DOMAIN BarIds(q)
      PROVE  BarIds(q)[i] \in RowIds /\ BarIds(q)[i][1] < asOf + Second
  <2>1. i \in DOMAIN q /\ BarIds(q)[i] = BarId(q[i])
    BY DEF BarIds
  <2>2. q[i] \in bars /\ q[i].at < asOf + Second
    BY <1>1, <2>1 DEF Window
  <2> QED
    BY <2>1, <2>2 DEF RowIds, BarId
<1> QED
  BY <1>3, <1>4 DEF IsTraceable

(* Every rule gives traceable features.                                    *)
LEMMA ResultsTraceable ==
  ASSUME IsFiniteSet(snapshots), IsFiniteSet(bars), NEW task,
         task.name \in FeatureNames, NEW r \in Results(task)
  PROVE  IsTraceable(FeatureOf(task, r))
<1> USE DEF FeatureOf
<1>1. CASE task.name = "liquidity_growth_pct_1h"
  <2>1. PICK q \in Sorted(Window(snapshots, task.asOf - Hour, task.asOf)) :
          Len(q) >= 2 /\ r.inputs = SnapshotIds(q)
    BY <1>1 DEF Results, LiquidityGrowth
  <2>2. q # <<>>
    BY <2>1
  <2> QED
    BY <1>1, <2>1, <2>2, SnapshotsTraceable
<1>2. CASE task.name = "price_momentum_zscore_1h"
  <2>1. PICK q \in Sorted(Window(bars, task.asOf - Hour, task.asOf)) :
          Len(q) >= 3 /\ r.inputs = BarIds(q)
    BY <1>2 DEF Results, PriceMomentum
  <2>2. q # <<>>
    BY <2>1
  <2> QED
    BY <1>2, <2>1, <2>2, BarsTraceable
<1>3. CASE task.name = "volume_quote_delta_1h"
  <2>1. PICK q \in Sorted(Window(bars, task.asOf - 2 * Hour, task.asOf)) :
          q # <<>> /\ r.inputs = BarIds(q)
    BY <1>3 DEF Results, VolumeDelta
  <2> QED
    BY <1>3, <2>1, BarsTraceable
<1>4. CASE task.name = "honeypot_detected_score"
  <2>1. PICK i \in insights :
          /\ i.type = "HoneypotDetected" /\ i.at <= task.asOf
          /\ r.inputs = <<InsightId(i)>>
    BY <1>4 DEF Results, HoneypotDetected, LatestInsight, InsightScore
  <2> QED
    BY <1>4, <2>1 DEF IsTraceable, InsightId, RowIds
<1>5. CASE task.name = "liquidity_usd_delta_1h"
  <2>1. PICK c \in snapshots, p \in snapshots :
          /\ c.at < task.asOf + Second /\ p.at < task.asOf + Second
          /\ r.inputs = <<SnapshotId(c), SnapshotId(p)>>
    BY <1>5 DEF Results, UsdDelta, Window
  <2> QED
    BY <1>5, <2>1 DEF IsTraceable, SnapshotId, RowIds
<1> QED
  BY <1>1, <1>2, <1>3, <1>4, <1>5 DEF FeatureNames, FeatureOrder

(* And so does the second query of the honeypot score.                     *)
LEMMA AssessedTraceable ==
  ASSUME NEW task, task.name = "honeypot_detected_score", NEW r \in Assessed(insights, task.asOf)
  PROVE  IsTraceable(FeatureOf(task, r))
<1>1. PICK i \in insights :
        /\ i.at <= task.asOf
        /\ r.inputs = <<InsightId(i)>> /\ r.value = 0
  BY DEF Assessed, LatestInsight, InsightScore
<1> QED
  BY <1>1 DEF IsTraceable, InsightId, RowIds, FeatureOf

(* Rows keep their names, so that what is traceable stays so.              *)
LEMMA RowIdsStay == [Next]_vars => RowIds \subseteq RowIds'
<1> SUFFICES ASSUME [Next]_vars PROVE RowIds \subseteq RowIds'
  OBVIOUS
<1>1. insights \subseteq insights'
  BY InsightsGrow
<1>2. CASE TakeSnapshot \/ PriceSnapshot \/ BackfillSnapshot
  <2>1. (\E s : snapshots' = SaveSnapshot(s)) /\ bars' = bars
    BY <1>2 DEF TakeSnapshot, PriceSnapshot, BackfillSnapshot
  <2> QED
    BY <1>1, <2>1 DEF RowIds, SaveSnapshot
<1>3. CASE SaveBar
  <2>1. PICK bar \in Bars : bars' = {b \in bars : b.at # bar.at} \cup {bar}
    BY <1>3 DEF SaveBar
  <2>2. \A b \in bars : b \in bars' \/ (bar \in bars' /\ BarId(b) = BarId(bar))
    BY <2>1 DEF BarId
  <2>3. snapshots' = snapshots
    BY <1>3 DEF SaveBar
  <2> QED
    BY <1>1, <2>2, <2>3 DEF RowIds
<1>4. CASE UNCHANGED <<snapshots, bars>>
  BY <1>1, <1>4 DEF RowIds
<1>5. [Next]_vars => \/ TakeSnapshot \/ PriceSnapshot \/ BackfillSnapshot \/ SaveBar
                     \/ UNCHANGED <<snapshots, bars>>
  BY DEF Next, Write, Work, Read, StartSnapshots,
         StartScan, SaveInsight, SaveLabel, StartJob, StartScript, Compute,
         Assess, SaveFeature, Interrupt, StartBuild, ReadNames, ReadFeature, AddRow, EndBuild,
         AskRanking, ReadFactorNames, ReadFactor, AddFactors, ReadHoneypot, ReadLaunch, ReadRug, vars, tables
<1> QED
  BY <1>2, <1>3, <1>4, <1>5

LEMMA TraceableStays ==
  ASSUME [Next]_vars, NEW f, IsTraceable(f)
  PROVE  IsTraceable(f)'
BY RowIdsStay DEF IsTraceable

LEMMA TablesStayFinite ==
  ASSUME Sourced, [Next]_vars
  PROVE  IsFiniteSet(snapshots') /\ IsFiniteSet(bars')
<1>1. CASE TakeSnapshot \/ PriceSnapshot \/ BackfillSnapshot
  <2>1. PICK s : snapshots' = SaveSnapshot(s) /\ bars' = bars
    BY <1>1 DEF TakeSnapshot, PriceSnapshot, BackfillSnapshot
  <2> QED
    BY <2>1, FS_Subset, FS_AddElement DEF SaveSnapshot, Sourced
<1>2. CASE SaveBar
  <2>1. PICK bar \in Bars : bars' = {b \in bars : b.at # bar.at} \cup {bar}
    BY <1>2 DEF SaveBar
  <2> QED
    BY <1>2, <2>1, FS_Subset, FS_AddElement DEF SaveBar, Sourced
<1>3. CASE UNCHANGED <<snapshots, bars>>
  BY <1>3 DEF Sourced
<1>4. [Next]_vars => \/ TakeSnapshot \/ PriceSnapshot \/ BackfillSnapshot \/ SaveBar
                     \/ UNCHANGED <<snapshots, bars>>
  BY DEF Next, Write, Work, Read, StartSnapshots,
         StartScan, SaveInsight, SaveLabel, StartJob, StartScript, Compute,
         Assess, SaveFeature, Interrupt, StartBuild, ReadNames, ReadFeature, AddRow, EndBuild,
         AskRanking, ReadFactorNames, ReadFactor, AddFactors, ReadHoneypot, ReadLaunch, ReadRug, vars, tables
<1> QED
  BY <1>1, <1>2, <1>3, <1>4

(* The next task has nothing to save yet.                                  *)
LEMMA NextTaskType ==
  ASSUME NEW w, w.rule \in DOMAIN FeatureOrder
  PROVE  NextTask(w).rule \in DOMAIN FeatureOrder /\ NextTask(w).pc \in {"compute", "over"}
BY DEF NextTask, FeatureOrder

LEMMA TaskName ==
  ASSUME NEW w, w.rule \in DOMAIN FeatureOrder
  PROVE  Task(w).name \in FeatureNames
BY DEF Task, FeatureNames

(* A worker that goes on has a traceable feature to save, or none.         *)
LEMMA ContinueKeepsSourced ==
  ASSUME Sourced, NEW w \in Workers, NEW results, Continue(w, results),
         \A r \in results : IsTraceable(FeatureOf(Task(worker[w]), r)), UNCHANGED tables
  PROVE  /\ worker' = [v \in Workers |-> worker'[v]]
         /\ \A v \in Workers : Pending(worker'[v])
<1>1. CASE results = {}
  <2>1. worker' = [worker EXCEPT ![w] = NextTask(@)]
    BY <1>1 DEF Continue
  <2> QED
    BY <2>1, NextTaskType DEF Sourced, Pending
<1>2. CASE results # {}
  <2>1. PICK r \in results : worker' = [worker EXCEPT ![w].pc = "save", ![w].result = <<r>>]
    BY <1>2 DEF Continue
  <2>2. /\ worker'[w] = [worker[w] EXCEPT !.pc = "save", !.result = <<r>>]
        /\ \A v \in Workers \ {w} : worker'[v] = worker[v]
        /\ worker' = [v \in Workers |-> worker'[v]]
    <3> DEFINE first == [worker EXCEPT ![w].pc = "save"]
    <3>1. /\ first = [v \in Workers |-> first[v]] /\ first[w] = [worker[w] EXCEPT !.pc = "save"]
          /\ \A v \in Workers \ {w} : first[v] = worker[v]
      BY DEF Sourced
    <3>2. worker' = [first EXCEPT ![w].result = <<r>>]
      BY <2>1
    <3> HIDE DEF first
    <3> QED
      BY <3>1, <3>2
  <2>3. /\ worker'[w].todo = worker[w].todo /\ worker'[w].rule = worker[w].rule
        /\ worker'[w].result = <<r>> /\ worker'[w].pc = "save"
    BY <2>2
  <2>4. Pending(worker'[w])
    BY <2>3 DEF Sourced, Pending, Task
  <2> QED
    BY <2>2, <2>4 DEF Sourced
<1> QED
  BY <1>1, <1>2

(* What waits to be saved, after every step.                               *)
LEMMA WorkersStaySourced ==
  ASSUME Sourced, [Next]_vars
  PROVE  /\ worker' = [v \in Workers |-> worker'[v]]
         /\ \A v \in Workers : Pending(worker'[v])
<1> DEFINE Goal == /\ worker' = [v \in Workers |-> worker'[v]]
                   /\ \A v \in Workers : Pending(worker'[v])
<1>1. CASE Others
  <2>1. worker' = [v \in Workers |-> [worker[v] EXCEPT !.quiet = FALSE]]
    BY <1>1 DEF Others
  <2>2. \A v \in Workers : /\ worker'[v].pc = worker[v].pc /\ worker'[v].rule = worker[v].rule
                           /\ worker'[v].todo = worker[v].todo
                           /\ worker'[v].result = worker[v].result
    <3> SUFFICES ASSUME NEW v \in Workers
                 PROVE  /\ worker'[v].pc = worker[v].pc /\ worker'[v].rule = worker[v].rule
                        /\ worker'[v].todo = worker[v].todo
                        /\ worker'[v].result = worker[v].result
      OBVIOUS
    <3>1. worker'[v] = [worker[v] EXCEPT !.quiet = FALSE]
      BY <2>1
    <3> QED
      BY <3>1
  <2>3. \A v \in Workers : Pending(worker'[v])
    BY <2>2 DEF Sourced, Pending, Task
  <2> QED
    BY <2>1, <2>2, <2>3 DEF Sourced
<1>2. ASSUME NEW w \in Workers, NEW times, worker' = [worker EXCEPT ![w] = Started(times)]
      PROVE  Goal
  <2>1. Started(times).pc = "compute" /\ Started(times).rule = 1
    BY DEF Started, IdleWorker
  <2> QED
    BY <1>2, <2>1 DEF Sourced, Pending, FeatureOrder
<1>3. ASSUME NEW w \in Workers, worker' = [worker EXCEPT ![w] = IdleWorker]
      PROVE  Goal
  <2>1. IdleWorker.pc = "idle" /\ IdleWorker.rule = 1
    BY DEF IdleWorker
  <2> QED
    BY <1>3, <2>1 DEF Sourced, Pending, FeatureOrder
<1>4. ASSUME NEW w \in Workers, worker' = [worker EXCEPT ![w] = NextTask(@)]
      PROVE  Goal
  BY <1>4, NextTaskType DEF Sourced, Pending
<1>5. ASSUME NEW w \in Workers, Compute(w)
      PROVE  Goal
  <2> DEFINE task == Task(worker[w])
  <2>1. task.name \in FeatureNames
    BY TaskName DEF Sourced, Pending
  <2>2. \A r \in Results(task) : IsTraceable(FeatureOf(task, r))
    BY <2>1, ResultsTraceable DEF Sourced
  <2>3. CASE task.name = "honeypot_detected_score" /\ Results(task) = {}
    <3>0. worker' = [worker EXCEPT ![w].pc = "assess"]
      BY <1>5, <2>3 DEF Compute
    <3>1. /\ worker'[w] = [worker[w] EXCEPT !.pc = "assess"]
          /\ \A v \in Workers \ {w} : worker'[v] = worker[v]
          /\ worker' = [v \in Workers |-> worker'[v]]
      BY <3>0 DEF Sourced
    <3>2. /\ worker'[w].pc = "assess" /\ worker'[w].rule = worker[w].rule
          /\ worker'[w].todo = worker[w].todo
      BY <3>1
    <3>3. Task(worker'[w]) = task
      BY <3>2 DEF Task
    <3>4. Pending(worker'[w])
      BY <2>3, <3>2, <3>3 DEF Sourced, Pending
    <3> QED
      BY <3>1, <3>4 DEF Sourced
  <2>4. CASE ~(task.name = "honeypot_detected_score" /\ Results(task) = {})
    <3>1. Continue(w, Results(task)) /\ UNCHANGED tables
      BY <1>5, <2>4 DEF Compute, tables
    <3> QED
      BY <2>2, <3>1, ContinueKeepsSourced
  <2> QED
    BY <2>3, <2>4
<1>6. ASSUME NEW w \in Workers, Assess(w)
      PROVE  Goal
  <2> DEFINE task == Task(worker[w])
  <2>1. task.name = "honeypot_detected_score"
    BY <1>6 DEF Assess, Sourced, Pending
  <2>2. \A r \in Assessed(insights, task.asOf) : IsTraceable(FeatureOf(task, r))
    BY <2>1, AssessedTraceable
  <2>3. Continue(w, Assessed(insights, task.asOf)) /\ UNCHANGED tables
    BY <1>6 DEF Assess, tables
  <2> QED
    BY <2>2, <2>3, ContinueKeepsSourced
<1>7. CASE UNCHANGED worker
  BY <1>7 DEF Sourced
<1>8. [Next]_vars =>
        \/ Others
        \/ \E w \in Workers : \/ \E times : worker' = [worker EXCEPT ![w] = Started(times)]
                             \/ worker' = [worker EXCEPT ![w] = IdleWorker]
                             \/ worker' = [worker EXCEPT ![w] = NextTask(@)]
                             \/ Compute(w) \/ Assess(w)
        \/ UNCHANGED worker
  BY DEF Next, Write, Work, Read, StartSnapshots, PriceSnapshot,
         TakeSnapshot, BackfillSnapshot, SaveBar, StartScan, SaveInsight,
         SaveLabel, StartJob, StartScript, SaveFeature, Interrupt, Workers,
         StartBuild, ReadNames, ReadFeature, AddRow, EndBuild,
         AskRanking, ReadFactorNames, ReadFactor, AddFactors, ReadHoneypot, ReadLaunch, ReadRug, vars
<1> QED
  BY <1>1, <1>2, <1>3, <1>4, <1>5, <1>6, <1>7, <1>8

LEMMA SourcedStep ==
  ASSUME Sourced, [Next]_vars
  PROVE  Sourced'
<1>1. IsFiniteSet(snapshots') /\ IsFiniteSet(bars')
  BY TablesStayFinite
<1>2. ASSUME NEW w \in Workers
      PROVE  Pending(worker[w])'
  <2>1. Pending(worker'[w])
    BY WorkersStaySourced
  <2> QED
    BY <2>1, RowIdsStay DEF Pending, IsTraceable, Task, FeatureOf
<1>3. ASSUME NEW f \in features'
      PROVE  IsTraceable(f)'
  <2>1. CASE f \in features
    BY <2>1, TraceableStays DEF Sourced
  <2>2. CASE f \notin features
    <3>1. PICK w \in Workers : SaveFeature(w)
      BY <2>2 DEF Next, Write, Work, Read, StartSnapshots, PriceSnapshot,
         TakeSnapshot, BackfillSnapshot, SaveBar, StartScan,
         SaveInsight, SaveLabel, Others, StartJob, StartScript, Compute, Assess, Interrupt,
         StartBuild, ReadNames, ReadFeature, AddRow, EndBuild,
         AskRanking, ReadFactorNames, ReadFactor, AddFactors, ReadHoneypot, ReadLaunch, ReadRug, vars
    <3>2. f = FeatureOf(Task(worker[w]), worker[w].result[1])
      BY <2>2, <3>1 DEF SaveFeature, SavedFeatures
    <3>3. IsTraceable(f)
      BY <3>1, <3>2 DEF SaveFeature, Sourced, Pending
    <3> QED
      BY <3>3, TraceableStays
  <2> QED
    BY <2>1, <2>2
<1> QED
  BY <1>1, <1>2, <1>3, WorkersStaySourced DEF Sourced

LEMMA InitSourced == Init => Sourced
<1> SUFFICES ASSUME Init PROVE Sourced
  OBVIOUS
<1>1. IdleWorker.pc = "idle" /\ IdleWorker.rule = 1
  BY DEF IdleWorker
<1> QED
  BY <1>1, ResearchAssumption DEF Init, Sourced, Pending, FeatureOrder

(* A feature names rows that exist and none of after its time, whatever    *)
(* rows are written, replaced or late (save_feature).                      *)
THEOREM FeaturesAreTraceable == Spec => []Traceable
<1>1. Init => Sourced
  BY InitSourced
<1>2. Sourced /\ [Next]_vars => Sourced'
  BY SourcedStep
<1>3. Sourced => Traceable
  BY DEF Sourced, Traceable
<1> QED
  BY <1>1, <1>2, <1>3, PTL DEF Spec

(* The tables keep their types and their keys.                             *)
TablesOK ==
  /\ now \in StartTime..(MaxTime + 1)
  /\ snapshots \subseteq Snapshot /\ bars \subseteq Bar
  /\ insights \subseteq Insight /\ labels \subseteq Label
  /\ \A r, s \in snapshots : SnapshotId(r) = SnapshotId(s) => r = s
  /\ \A a, b \in bars : a.at = b.at => a = b
  /\ \A l, m \in labels : l.at = m.at /\ l.type = m.type => l = m
  /\ \A f, g \in features : SameFeature(f, g) => f = g
  /\ {scan, shot} \subseteq Times \cup {Idle}

LEMMA NowIsTime ==
  ASSUME TablesOK, ClockRead
  PROVE  now \in Times /\ now' \in StartTime..(MaxTime + 1)
BY ResearchAssumption DEF TablesOK, ClockRead, Times

LEMMA TablesOKStep ==
  ASSUME TablesOK, [Next]_vars
  PROVE  TablesOK'
<1>1. ASSUME NEW s \in Snapshot, snapshots' = SaveSnapshot(s)
      PROVE  /\ snapshots' \subseteq Snapshot
             /\ \A r, t \in snapshots' : SnapshotId(r) = SnapshotId(t) => r = t
  BY <1>1 DEF SaveSnapshot, TablesOK
<1>2. CASE TakeSnapshot
  <2>1. PICK r \in Readings :
          snapshots' = SaveSnapshot([at |-> shot, source |-> "live", reserve |-> r.reserve, usd |-> r.usd])
    BY <1>2 DEF TakeSnapshot
  <2>2. r.reserve \in Nat /\ r.usd \in Price
    BY ResearchAssumption
  <2>3. shot \in Times /\ shot' = Idle
    BY <1>2 DEF TakeSnapshot, TablesOK
  <2>4. [at |-> shot, source |-> "live", reserve |-> r.reserve, usd |-> r.usd] \in Snapshot
    BY <2>2, <2>3 DEF Snapshot
  <2> QED
    BY <1>1, <1>2, <2>1, <2>3, <2>4 DEF TakeSnapshot, Others, TablesOK
<1>3. CASE PriceSnapshot
  <2>1. PICK s \in snapshots, usd \in Prices : snapshots' = SaveSnapshot([s EXCEPT !.usd = usd])
    BY <1>3 DEF PriceSnapshot
  <2>2. s \in Snapshot /\ usd \in Nat
    BY ResearchAssumption DEF TablesOK
  <2>3. [s EXCEPT !.usd = usd] \in Snapshot
    BY <2>2 DEF Snapshot, Price
  <2> QED
    BY <1>1, <1>3, <2>1, <2>3 DEF PriceSnapshot, Others, TablesOK, dates
<1>4. CASE BackfillSnapshot
  <2>1. PICK s \in Backfills : snapshots' = SaveSnapshot(s)
    BY <1>4 DEF BackfillSnapshot
  <2>2. s \in Snapshot
    BY ResearchAssumption
  <2> QED
    BY <1>1, <1>4, <2>1, <2>2 DEF BackfillSnapshot, Others, TablesOK, dates
<1>5. CASE SaveBar
  <2>1. PICK bar \in Bars : bars' = {b \in bars : b.at # bar.at} \cup {bar}
    BY <1>5 DEF SaveBar
  <2>2. bar \in Bar
    BY ResearchAssumption
  <2> QED
    BY <1>5, <2>1, <2>2 DEF SaveBar, Others, TablesOK, dates
<1>6. CASE StartScan \/ StartSnapshots
  BY <1>6, NowIsTime DEF StartScan, StartSnapshots, TablesOK, tables
<1>7. CASE SaveInsight
  <2>1. PICK type \in InsightTypes : insights' = insights \cup {[type |-> type, at |-> scan]}
    BY <1>7 DEF SaveInsight
  <2>2. [type |-> type, at |-> scan] \in Insight
    BY <1>7 DEF SaveInsight, TablesOK, Insight
  <2> QED
    BY <1>7, <2>1, <2>2 DEF SaveInsight, Others, TablesOK, dates
<1>8. CASE SaveLabel
  <2>1. PICK label \in Labels :
          /\ \A l \in labels : l.at # label.at \/ l.type # label.type
          /\ labels' = labels \cup {label}
    BY <1>8 DEF SaveLabel
  <2>2. label \in Label
    BY ResearchAssumption
  <2> QED
    BY <1>8, <2>1, <2>2 DEF SaveLabel, Others, TablesOK, dates
<1>9. ASSUME NEW w \in Workers, SaveFeature(w)
      PROVE  TablesOK'
  <2>1. \A f, g \in features' : SameFeature(f, g) => f = g
    BY <1>9 DEF SaveFeature, SavedFeatures, SameFeature, FeatureOf, Task, TablesOK
  <2> QED
    BY <1>9, <2>1 DEF SaveFeature, TablesOK, tables, dates
<1>10. CASE UNCHANGED <<tables, features, dates>> /\ (ClockRead \/ UNCHANGED now)
  BY <1>10, NowIsTime DEF TablesOK, tables, dates
<1>11. [Next]_vars =>
         \/ StartSnapshots \/ TakeSnapshot \/ PriceSnapshot \/ BackfillSnapshot
         \/ SaveBar \/ StartScan \/ SaveInsight \/ SaveLabel
         \/ \E w \in Workers : SaveFeature(w)
         \/ UNCHANGED <<tables, features, dates>> /\ (ClockRead \/ UNCHANGED now)
  BY DEF Next, Write, Work, Read,
         StartJob, StartScript, Compute, Assess, Interrupt,
         StartBuild, ReadNames, ReadFeature, AddRow, EndBuild,
         AskRanking, ReadFactorNames, ReadFactor, AddFactors, ReadHoneypot, ReadLaunch, ReadRug, vars, tables
<1> QED
  BY <1>2, <1>3, <1>4, <1>5, <1>6, <1>7, <1>8, <1>9, <1>10, <1>11

(* Every variable has its type, and no table holds two rows of one key.    *)
THEOREM TypesAreKept == Spec => []TypeOK
<1>1. Init => NoLeak /\ Scored /\ Sourced /\ TablesOK
  <2>1. Init => TablesOK
    BY ResearchAssumption DEF Init, TablesOK, Times
  <2> QED
    BY <2>1, InitSourced DEF Init, NoBuild, NoRank, NoLeak, Scored
<1>2. NoLeak /\ Scored /\ Sourced /\ TablesOK /\ [Next]_vars
        => (NoLeak /\ Scored /\ Sourced /\ TablesOK)'
  BY NoLeakStep, ScoredStep, SourcedStep, TablesOKStep
<1>3. NoLeak /\ Scored /\ Sourced /\ TablesOK => TypeOK
  BY DEF NoLeak, Scored, Sourced, Pending, TablesOK, TypeOK
<1> QED
  BY <1>1, <1>2, <1>3, PTL DEF Spec

(* The validation of the dataset never fails (assert_zero_leakage).        *)
THEOREM DatasetDoesNotLeak == Spec => []ZeroLeakage
<1>1. Init => NoLeak
  BY DEF Init, NoBuild, NoLeak
<1>2. NoLeak /\ [Next]_vars => NoLeak'
  BY NoLeakStep
<1>3. NoLeak => ZeroLeakage
  BY DEF NoLeak, ZeroLeakage
<1> QED
  BY <1>1, <1>2, <1>3, PTL DEF Spec

-----------------------------------------------------------------------------
(* Finite sets have a newest and an earliest member.                       *)

LEMMA Newest ==
  ASSUME NEW S, IsFiniteSet(S), S # {}, NEW time \in [S -> Int]
  PROVE  \E x \in S : \A y \in S : time[y] <= time[x]
<1> DEFINE Later(x) == {y \in S : time[x] <= time[y]}
           T == {Later(x) : x \in S}
<1>1. IsWellFoundedOn(StrictSubsetOrdering(S), FiniteSubsetsOf(S))
  BY FS_StrictSubsetOrderingWellFounded
<1>2. T \subseteq FiniteSubsetsOf(S) /\ T # {}
  <2>1. ASSUME NEW x \in S
        PROVE  Later(x) \in FiniteSubsetsOf(S)
    BY FS_Subset DEF FiniteSubsetsOf
  <2>2. T \subseteq FiniteSubsetsOf(S)
    <3> HIDE DEF Later
    <3> QED
      BY <2>1
  <2>3. T # {}
    <3> HIDE DEF Later
    <3> QED
      OBVIOUS
  <2> HIDE DEF T
  <2> QED
    BY <2>2, <2>3
<1>3. PICK L \in T : \A M \in T : ~(<<M, L>> \in StrictSubsetOrdering(S))
  <2> HIDE DEF T
  <2> QED
    BY <1>1, <1>2, WFMin
<1>4. PICK x \in S : L = Later(x)
  OBVIOUS
<1>5. ASSUME NEW y \in S, ~(time[y] <= time[x])
      PROVE  FALSE
  <2>1. Later(y) \subseteq Later(x)
    BY <1>5
  <2>2. x \in Later(x) /\ x \notin Later(y)
    BY <1>5
  <2>3. <<Later(y), Later(x)>> \in StrictSubsetOrdering(S)
    BY <2>1, <2>2 DEF StrictSubsetOrdering
  <2> QED
    BY <1>3, <1>4, <2>3
<1> QED
  BY <1>5

LEMMA MinIsMember ==
  ASSUME NEW S, S \subseteq Int, IsFiniteSet(S), S # {}
  PROVE  Min(S) \in S
<1> DEFINE time == [x \in S |-> 0 - x]
<1>1. time \in [S -> Int]
  OBVIOUS
<1>2. PICK x \in S : \A y \in S : time[y] <= time[x]
  <2> HIDE DEF time
  <2> QED
    BY <1>1, Newest
<1>3. \A y \in S : x =< y
  BY <1>2
<1> QED
  BY <1>3 DEF Min

(* get_feature_at finds a feature when there is one, and none is older     *)
(* than another that it could have found.                                  *)
LEMMA FeatureIsFound ==
  ASSUME IsFiniteSet(features), \A f \in features : f.asOf \in Int, NEW asOf,
         NEW f \in features, f.asOf <= asOf
  PROVE  /\ FeatureAt(f.name, asOf) # {}
         /\ \A g \in FeatureAt(f.name, asOf) : g.name = f.name /\ f.asOf <= g.asOf
<1> DEFINE named == {g \in features : g.name = f.name /\ g.asOf <= asOf}
           time == [g \in named |-> g.asOf]
<1>1. IsFiniteSet(named) /\ f \in named /\ time \in [named -> Int]
  BY FS_Subset
<1>2. PICK x \in named : \A y \in named : time[y] <= time[x]
  <2> HIDE DEF named, time
  <2> QED
    BY <1>1, Newest
<1>3. x \in FeatureAt(f.name, asOf)
  BY <1>2 DEF FeatureAt
<1> QED
  BY <1>1, <1>3 DEF FeatureAt

(* So does get_latest_insight_as_of.                                       *)
LEMMA InsightIsFound ==
  ASSUME IsFiniteSet(insights), \A i \in insights : i.at \in Int, NEW types, NEW asOf,
         NEW i \in insights, i.type \in types, i.at <= asOf
  PROVE  LatestInsight(insights, types, asOf) # {}
<1> DEFINE known == {j \in insights : j.type \in types /\ j.at <= asOf}
           time == [j \in known |-> j.at]
<1>1. IsFiniteSet(known) /\ i \in known /\ time \in [known -> Int]
  BY FS_Subset
<1>2. PICK x \in known : \A y \in known : time[y] <= time[x]
  <2> HIDE DEF known, time
  <2> QED
    BY <1>1, Newest
<1> QED
  BY <1>2 DEF LatestInsight

-----------------------------------------------------------------------------
(* What a step does to the job or the script.                              *)

\* Nothing, except that a table may change.
Stays(w) ==
  /\ worker'[w].pc = worker[w].pc /\ worker'[w].rule = worker[w].rule
  /\ worker'[w].times = worker[w].times /\ worker'[w].todo = worker[w].todo
  /\ worker'[w].result = worker[w].result
  /\ worker'[w].quiet => worker[w].quiet

\* A run begins.
Begins(w) ==
  \E times :
    /\ worker'[w] = Started(times)
    /\ \/ times = {now} /\ ClockRead /\ (w = "script" => snapshots = {})
       \/ w = "script" /\ times # {} /\ times = {s.at : s \in snapshots}

\* The rule gives nothing.
Skips(w) ==
  /\ worker'[w] = NextTask(worker[w])
  /\ \/ worker[w].pc = "compute" /\ Results(Task(worker[w])) = {}
        /\ Task(worker[w]).name # "honeypot_detected_score"
     \/ worker[w].pc = "assess" /\ Assessed(insights, Task(worker[w]).asOf) = {}

\* The first query of the honeypot score found nothing.
Asks(w) ==
  /\ worker[w].pc = "compute" /\ worker'[w].pc = "assess"
  /\ worker'[w] = [worker[w] EXCEPT !.pc = "assess"]
  /\ Task(worker[w]).name = "honeypot_detected_score" /\ Results(Task(worker[w])) = {}

\* A result is kept to be saved.
Holds(w) ==
  \E r : /\ worker'[w] = [worker[w] EXCEPT !.pc = "save", !.result = <<r>>]
         /\ \/ worker[w].pc = "compute" /\ r \in Results(Task(worker[w]))
            \/ worker[w].pc = "assess" /\ r \in Assessed(insights, Task(worker[w]).asOf)

Moves(w) ==
  \/ Stays(w)
  \/ worker'[w] = IdleWorker
  \/ Begins(w) \/ Skips(w) \/ Asks(w) \/ Holds(w)
  \/ SaveFeature(w)

LEMMA ContinueMoves ==
  ASSUME Sourced, NEW w \in Workers, NEW results, Continue(w, results)
  PROVE  /\ \A v \in Workers \ {w} : worker'[v] = worker[v]
         /\ \/ results = {} /\ worker'[w] = NextTask(worker[w])
            \/ \E r \in results :
                 worker'[w] = [worker[w] EXCEPT !.pc = "save", !.result = <<r>>]
<1>1. CASE results = {}
  <2>1. worker' = [worker EXCEPT ![w] = NextTask(@)]
    BY <1>1 DEF Continue
  <2> QED
    BY <1>1, <2>1 DEF Sourced
<1>2. CASE results # {}
  <2>1. PICK r \in results : worker' = [worker EXCEPT ![w].pc = "save", ![w].result = <<r>>]
    BY <1>2 DEF Continue
  <2> DEFINE first == [worker EXCEPT ![w].pc = "save"]
  <2>2. /\ first = [v \in Workers |-> first[v]] /\ first[w] = [worker[w] EXCEPT !.pc = "save"]
        /\ \A v \in Workers \ {w} : first[v] = worker[v]
    BY DEF Sourced
  <2>3. worker' = [first EXCEPT ![w].result = <<r>>]
    BY <2>1
  <2>4. /\ worker'[w] = [worker[w] EXCEPT !.pc = "save", !.result = <<r>>]
        /\ \A v \in Workers \ {w} : worker'[v] = worker[v]
    <3> HIDE DEF first
    <3> QED
      BY <2>2, <2>3
  <2> QED
    BY <2>4
<1> QED
  BY <1>1, <1>2

LEMMA StaysIfSame ==
  ASSUME NEW w \in Workers, worker'[w] = worker[w]
  PROVE  Stays(w)
BY DEF Stays

LEMMA WorkerMoves ==
  ASSUME Sourced, [Next]_vars, NEW w \in Workers
  PROVE  Moves(w)
<1> DEFINE Shape == worker = [v \in Workers |-> worker[v]]
<1>0. Shape
  BY DEF Sourced
<1>1. CASE Others
  <2>1. worker'[w] = [worker[w] EXCEPT !.quiet = FALSE]
    BY <1>1 DEF Others
  <2>2. Stays(w)
    BY <2>1 DEF Stays
  <2> QED
    BY <2>2 DEF Moves
<1>2. CASE StartJob
  <2>1. worker'["job"] = Started({now}) /\ worker'["script"] = worker["script"]
    BY <1>0, <1>2 DEF StartJob, Workers
  <2>2. CASE w = "job"
    BY <1>2, <2>1, <2>2 DEF StartJob, Begins, Moves
  <2>3. CASE w = "script"
    BY <2>1, <2>3, StaysIfSame DEF Moves
  <2> QED
    BY <2>2, <2>3 DEF Workers
<1>3. CASE StartScript
  <2> DEFINE anchors == {s.at : s \in snapshots}
  <2>1. /\ worker'["script"] = Started(IF anchors = {} THEN {now} ELSE anchors)
        /\ worker'["job"] = worker["job"]
        /\ anchors = {} => ClockRead
    BY <1>0, <1>3 DEF StartScript, Workers
  <2>2. CASE w = "script"
    <3>1. CASE anchors = {}
      <4>1. snapshots = {}
        BY <3>1
      <4> QED
        BY <2>1, <2>2, <3>1, <4>1 DEF Begins, Moves
    <3>2. CASE anchors # {}
      BY <2>1, <2>2, <3>2 DEF Begins, Moves
    <3> QED
      BY <3>1, <3>2
  <2>3. CASE w = "job"
    BY <2>1, <2>3, StaysIfSame DEF Moves
  <2> QED
    BY <2>2, <2>3 DEF Workers
<1>4. ASSUME NEW v \in Workers, Compute(v)
      PROVE  Moves(w)
  <2> DEFINE task == Task(worker[v])
  <2>1. CASE task.name = "honeypot_detected_score" /\ Results(task) = {}
    <3>1. worker' = [worker EXCEPT ![v].pc = "assess"] /\ worker[v].pc = "compute"
      BY <1>4, <2>1 DEF Compute
    <3>2. /\ worker'[v] = [worker[v] EXCEPT !.pc = "assess"]
          /\ \A u \in Workers \ {v} : worker'[u] = worker[u]
      BY <1>0, <3>1
    <3>3. worker'[v].pc = "assess"
      BY <3>2
    <3>4. Asks(v)
      BY <2>1, <3>1, <3>2, <3>3 DEF Asks
    <3> QED
      BY <3>2, <3>4, StaysIfSame DEF Moves
  <2>2. CASE ~(task.name = "honeypot_detected_score" /\ Results(task) = {})
    <3>1. Continue(v, Results(task)) /\ worker[v].pc = "compute"
      BY <1>4, <2>2 DEF Compute
    <3>2. /\ \A u \in Workers \ {v} : worker'[u] = worker[u]
          /\ \/ Results(task) = {} /\ worker'[v] = NextTask(worker[v])
             \/ \E r \in Results(task) :
                  worker'[v] = [worker[v] EXCEPT !.pc = "save", !.result = <<r>>]
      BY <3>1, ContinueMoves
    <3>3. Skips(v) \/ Holds(v)
      BY <2>2, <3>1, <3>2 DEF Skips, Holds
    <3> QED
      BY <3>2, <3>3, StaysIfSame DEF Moves
  <2> QED
    BY <2>1, <2>2
<1>5. ASSUME NEW v \in Workers, Assess(v)
      PROVE  Moves(w)
  <2> DEFINE results == Assessed(insights, Task(worker[v]).asOf)
  <2>1. Continue(v, results) /\ worker[v].pc = "assess"
    BY <1>5 DEF Assess
  <2>2. /\ \A u \in Workers \ {v} : worker'[u] = worker[u]
        /\ \/ results = {} /\ worker'[v] = NextTask(worker[v])
           \/ \E r \in results : worker'[v] = [worker[v] EXCEPT !.pc = "save", !.result = <<r>>]
    BY <2>1, ContinueMoves
  <2>3. Skips(v) \/ Holds(v)
    BY <2>1, <2>2 DEF Skips, Holds
  <2> QED
    BY <2>2, <2>3, StaysIfSame DEF Moves
<1>6. ASSUME NEW v \in Workers, SaveFeature(v) \/ Interrupt(v)
      PROVE  Moves(w)
  <2>1. \A u \in Workers \ {v} : worker'[u] = worker[u]
    BY <1>0, <1>6 DEF SaveFeature, Interrupt
  <2>2. Interrupt(v) => worker'[v] = IdleWorker
    BY <1>0 DEF Interrupt
  <2> QED
    BY <1>6, <2>1, <2>2, StaysIfSame DEF Moves
<1>7. CASE UNCHANGED worker
  BY <1>7, StaysIfSame DEF Moves
<1>8. [Next]_vars =>
        \/ Others \/ StartJob \/ StartScript
        \/ \E v \in Workers : Compute(v) \/ Assess(v) \/ SaveFeature(v) \/ Interrupt(v)
        \/ UNCHANGED worker
  BY DEF Next, Write, Work, Read, StartSnapshots, PriceSnapshot,
         TakeSnapshot, BackfillSnapshot, SaveBar, StartScan, SaveInsight,
         SaveLabel, StartBuild, ReadNames, ReadFeature, AddRow, EndBuild,
         AskRanking, ReadFactorNames, ReadFactor, AddFactors, ReadHoneypot, ReadLaunch, ReadRug, vars
<1> QED
  BY <1>1, <1>2, <1>3, <1>4, <1>5, <1>6, <1>7, <1>8

(* Features change only when one is saved, and the tables only when no     *)
(* run is undisturbed.                                                     *)
LEMMA FeaturesChange ==
  ASSUME [Next]_vars
  PROVE  features' = features \/ \E w \in Workers : SaveFeature(w)
BY DEF Next, Write, Work, Read, StartSnapshots, PriceSnapshot,
         TakeSnapshot, BackfillSnapshot, SaveBar, StartScan,
       SaveInsight, SaveLabel, Others, StartJob, StartScript, Compute, Assess, Interrupt,
       StartBuild, ReadNames, ReadFeature, AddRow, EndBuild,
       AskRanking, ReadFactorNames, ReadFactor, AddFactors, ReadHoneypot, ReadLaunch, ReadRug, vars

LEMMA QuietTables ==
  ASSUME Sourced, [Next]_vars, NEW w \in Workers, worker'[w].quiet
  PROVE  UNCHANGED <<snapshots, bars, insights>>
<1>1. CASE Others
  <2>1. worker'[w] = [worker[w] EXCEPT !.quiet = FALSE]
    BY <1>1 DEF Others
  <2>2. ~worker'[w].quiet
    BY <2>1
  <2> QED
    BY <2>2
<1>2. [Next]_vars => Others \/ UNCHANGED <<snapshots, bars, insights>>
  BY DEF Next, Write, Work, Read, StartSnapshots, PriceSnapshot,
         TakeSnapshot, BackfillSnapshot, SaveBar, StartScan,
         SaveInsight, SaveLabel, StartJob, StartScript, Compute, Assess, SaveFeature, Interrupt,
         StartBuild, ReadNames, ReadFeature, AddRow, EndBuild,
         AskRanking, ReadFactorNames, ReadFactor, AddFactors, ReadHoneypot, ReadLaunch, ReadRug, vars, tables
<1> QED
  BY <1>1, <1>2

-----------------------------------------------------------------------------
(* The times of the job and of the script.                                 *)

Active == {"compute", "assess", "save"}

(* A run has times left until it is over.                                  *)
TimesOf(w) ==
  /\ w.times \subseteq Times /\ IsFiniteSet(w.times)
  /\ w.todo \subseteq w.times
  /\ w.pc \in Active => w.todo # {}
  /\ w.pc = "over" => w.todo = {}

Dated ==
  /\ IsFiniteSet(features) /\ IsFiniteSet(insights)
  /\ \A f \in features : f.asOf \in Times /\ f.name \in FeatureNames
  /\ \A w \in Workers : TimesOf(worker[w])

LEMMA TimesAreInts == Times \subseteq Int
BY ResearchAssumption DEF Times

LEMMA StartedFields ==
  ASSUME NEW times
  PROVE  /\ Started(times).pc = "compute" /\ Started(times).rule = 1
         /\ Started(times).times = times /\ Started(times).todo = times
BY DEF Started, IdleWorker

LEMMA IdleFields ==
  /\ IdleWorker.pc = "idle" /\ IdleWorker.times = {} /\ IdleWorker.todo = {}
  /\ IdleWorker.quiet = FALSE
BY DEF IdleWorker

LEMMA NextTaskFields ==
  ASSUME NEW w, w.rule \in DOMAIN FeatureOrder
  PROVE  /\ NextTask(w).times = w.times /\ NextTask(w).quiet = w.quiet
         /\ \/ /\ w.rule < 5 /\ NextTask(w).pc = "compute" /\ NextTask(w).rule = w.rule + 1
               /\ NextTask(w).todo = w.todo
            \/ /\ w.rule = 5 /\ NextTask(w).rule = 1 /\ NextTask(w).todo = w.todo \ {Min(w.todo)}
               /\ NextTask(w).pc = IF w.todo = {Min(w.todo)} THEN "over" ELSE "compute"
BY DEF NextTask, FeatureOrder

LEMMA AsksFields ==
  ASSUME NEW w, Asks(w)
  PROVE  /\ worker'[w].pc = "assess" /\ worker'[w].rule = worker[w].rule
         /\ worker'[w].times = worker[w].times /\ worker'[w].todo = worker[w].todo
         /\ worker'[w].quiet = worker[w].quiet
BY DEF Asks

LEMMA HoldsFields ==
  ASSUME NEW w, Holds(w), worker[w].pc \in Active
  PROVE  /\ worker'[w].pc = "save" /\ worker'[w].rule = worker[w].rule
         /\ worker'[w].times = worker[w].times /\ worker'[w].todo = worker[w].todo
         /\ worker'[w].quiet = worker[w].quiet
         /\ \/ /\ worker[w].pc = "compute"
               /\ worker'[w].result[1] \in Results(Task(worker[w]))
            \/ /\ worker[w].pc = "assess"
               /\ worker'[w].result[1] \in Assessed(insights, Task(worker[w]).asOf)
<1>1. PICK r :
        /\ worker'[w] = [worker[w] EXCEPT !.pc = "save", !.result = <<r>>]
        /\ \/ worker[w].pc = "compute" /\ r \in Results(Task(worker[w]))
           \/ worker[w].pc = "assess" /\ r \in Assessed(insights, Task(worker[w]).asOf)
  BY DEF Holds
<1>2. worker'[w].result = <<r>>
  BY <1>1
<1> QED
  BY <1>1, <1>2

LEMMA HoldsActive == \A w : Holds(w) => worker[w].pc \in Active
BY DEF Holds, Active

(* The next task is at a time of the run, unless it is over.               *)
LEMMA NextTimes ==
  ASSUME NEW w, w.rule \in DOMAIN FeatureOrder, TimesOf(w), w.pc \in Active
  PROVE  TimesOf(NextTask(w))
<1>1. Min(w.todo) \in w.todo
  <2>1. w.todo \subseteq Int /\ IsFiniteSet(w.todo)
    BY TimesAreInts, FS_Subset DEF TimesOf
  <2> QED
    BY <2>1, MinIsMember DEF TimesOf
<1>2. CASE w.rule < 5
  BY <1>2, NextTaskFields DEF TimesOf, Active
<1>3. CASE w.rule = 5
  <2>1. /\ NextTask(w).times = w.times /\ NextTask(w).todo = w.todo \ {Min(w.todo)}
        /\ NextTask(w).pc = IF w.todo = {Min(w.todo)} THEN "over" ELSE "compute"
    BY <1>3, NextTaskFields
  <2> HIDE DEF Min
  <2> QED
    BY <1>1, <2>1 DEF TimesOf, Active
<1>4. w.rule < 5 \/ w.rule = 5
  BY DEF FeatureOrder
<1> QED
  BY <1>2, <1>3, <1>4

LEMMA TimesStep ==
  ASSUME Sourced, Dated, TablesOK, [Next]_vars, NEW w \in Workers
  PROVE  TimesOf(worker'[w])
<1>0. worker[w].rule \in DOMAIN FeatureOrder /\ TimesOf(worker[w])
  BY DEF Sourced, Pending, Dated
<1>1. CASE Stays(w)
  BY <1>0, <1>1 DEF Stays, TimesOf
<1>2. CASE worker'[w] = IdleWorker
  BY <1>2, IdleFields, FS_EmptySet DEF TimesOf, Active
<1>3. CASE Begins(w)
  <2>1. PICK times :
          /\ worker'[w] = Started(times)
          /\ \/ times = {now} /\ ClockRead
             \/ times # {} /\ times = {s.at : s \in snapshots}
    BY <1>3 DEF Begins
  <2>2. CASE times = {now} /\ ClockRead
    <3>1. times \subseteq Times /\ times # {}
      BY <2>2, NowIsTime
    <3>2. IsFiniteSet(times)
      BY <2>2, FS_Singleton
    <3> QED
      BY <2>1, <3>1, <3>2, StartedFields DEF TimesOf, Active
  <2>3. CASE times # {} /\ times = {s.at : s \in snapshots}
    <3>1. times \subseteq Times
      BY <2>3 DEF TablesOK, Snapshot
    <3>2. IsFiniteSet(times)
      <4> DEFINE at == [s \in snapshots |-> s.at]
      <4>1. at \in Surjection(snapshots, times)
        BY <2>3 DEF Surjection
      <4> QED
        BY <4>1, FS_Surjection DEF Sourced
    <3> QED
      BY <2>1, <2>3, <3>1, <3>2, StartedFields DEF TimesOf, Active
  <2> QED
    BY <2>1, <2>2, <2>3
<1>4. CASE Skips(w)
  BY <1>0, <1>4, NextTimes DEF Skips, Active
<1>5. CASE Asks(w)
  BY <1>0, <1>5, AsksFields DEF Asks, TimesOf, Active
<1>6. CASE Holds(w)
  BY <1>0, <1>6, HoldsActive, HoldsFields DEF TimesOf, Active
<1>7. CASE SaveFeature(w)
  <2>1. worker'[w] = NextTask(worker[w]) /\ worker[w].pc \in Active
    BY <1>7 DEF SaveFeature, Sourced, Active
  <2> QED
    BY <1>0, <2>1, NextTimes
<1> QED
  BY <1>1, <1>2, <1>3, <1>4, <1>5, <1>6, <1>7, WorkerMoves DEF Moves

(* The task at hand is at a time of its run.                               *)
LEMMA TaskTime ==
  ASSUME Sourced, Dated, NEW w \in Workers, worker[w].pc \in Active
  PROVE  /\ Task(worker[w]).asOf = Min(worker[w].todo)
         /\ Task(worker[w]).asOf \in worker[w].todo
         /\ Task(worker[w]).asOf \in worker[w].times
         /\ Task(worker[w]).asOf \in Times
         /\ Task(worker[w]).name = FeatureOrder[worker[w].rule]
         /\ Task(worker[w]).name \in FeatureNames
<1>1. TimesOf(worker[w]) /\ worker[w].rule \in DOMAIN FeatureOrder
  BY DEF Dated, Sourced, Pending
<1>2. worker[w].todo \subseteq Int /\ IsFiniteSet(worker[w].todo)
  BY <1>1, TimesAreInts, FS_Subset DEF TimesOf
<1>3. Min(worker[w].todo) \in worker[w].todo
  BY <1>1, <1>2, MinIsMember DEF TimesOf
<1>4. Task(worker[w]).asOf = Min(worker[w].todo) /\ Task(worker[w]).name = FeatureOrder[worker[w].rule]
  BY DEF Task
<1> QED
  BY <1>1, <1>3, <1>4, TaskName DEF TimesOf

LEMMA DatedStep ==
  ASSUME Sourced, Dated, TablesOK, [Next]_vars
  PROVE  Dated'
<1>1. IsFiniteSet(insights')
  <2>1. CASE SaveInsight
    <3>1. PICK i : insights' = insights \cup {i}
      BY <2>1 DEF SaveInsight
    <3> QED
      BY <3>1, FS_AddElement DEF Dated
  <2>2. CASE insights' = insights
    BY <2>2 DEF Dated
  <2>3. SaveInsight \/ insights' = insights
    BY DEF Next, Write, Work, Read, StartSnapshots, PriceSnapshot,
         TakeSnapshot, BackfillSnapshot, SaveBar, StartScan,
         SaveLabel, StartJob, StartScript, Compute, Assess, SaveFeature, Interrupt,
         StartBuild, ReadNames, ReadFeature, AddRow, EndBuild,
         AskRanking, ReadFactorNames, ReadFactor, AddFactors, ReadHoneypot, ReadLaunch, ReadRug, vars, tables
  <2> QED
    BY <2>1, <2>2, <2>3
<1>2. IsFiniteSet(features') /\ \A f \in features' : f.asOf \in Times /\ f.name \in FeatureNames
  <2>1. CASE features' = features
    BY <2>1 DEF Dated
  <2>2. ASSUME NEW w \in Workers, SaveFeature(w)
        PROVE  /\ IsFiniteSet(features')
               /\ \A f \in features' : f.asOf \in Times /\ f.name \in FeatureNames
    <3> DEFINE f == FeatureOf(Task(worker[w]), worker[w].result[1])
               rest == {g \in features : ~SameFeature(g, Task(worker[w]))}
    <3>1. features' = rest \cup {f}
      BY <2>2 DEF SaveFeature, SavedFeatures
    <3>2. f.asOf \in Times /\ f.name \in FeatureNames
      BY <2>2, TaskTime DEF SaveFeature, Active, FeatureOf
    <3>3. IsFiniteSet(rest)
      BY FS_Subset DEF Dated
    <3>4. \A g \in rest : g.asOf \in Times /\ g.name \in FeatureNames
      BY DEF Dated
    <3> HIDE DEF f, rest
    <3> QED
      BY <3>1, <3>2, <3>3, <3>4, FS_AddElement
  <2> QED
    BY <2>1, <2>2, FeaturesChange
<1>3. \A w \in Workers : TimesOf(worker'[w])
  BY TimesStep
<1> QED
  BY <1>1, <1>2, <1>3 DEF Dated, TimesOf

LEMMA InitDated == Init => Dated
BY FS_EmptySet, IdleFields DEF Init, Dated, TimesOf, Active

(* The job computes for readings of the clock, which are odd and read      *)
(* once; the script for times of snapshots: never for one of the job's.    *)
Apart ==
  /\ now % 2 = 1
  /\ shot # Idle => shot < now /\ shot \notin worker["job"].times
  /\ \A s \in snapshots : s.at % 2 = 0 \/ s.at < now
  /\ \A t \in worker["job"].times : t % 2 = 1 /\ t < now
  /\ \A t \in worker["script"].times : t % 2 = 0 \/ t < now
  /\ \A t \in worker["job"].times : t \notin worker["script"].times
  /\ \A t \in worker["job"].times : \A s \in snapshots : s.at # t

(* What a step does to the times of the runs.                              *)
LEMMA TimesChange ==
  ASSUME Sourced, [Next]_vars
  PROVE  \/ \A w \in Workers : worker'[w].times \subseteq worker[w].times
         \/ /\ StartJob
            /\ worker'["job"].times = {now} /\ worker'["script"].times = worker["script"].times
         \/ /\ StartScript /\ worker'["job"].times = worker["job"].times
            /\ \/ worker'["script"].times = {now} /\ ClockRead
               \/ worker'["script"].times = {s.at : s \in snapshots} /\ now' = now
<1>0. worker = [v \in Workers |-> worker[v]]
  BY DEF Sourced
<1>1. CASE StartJob
  <2>1. worker'["job"] = Started({now}) /\ worker'["script"] = worker["script"]
    BY <1>0, <1>1 DEF StartJob, Workers
  <2> QED
    BY <1>1, <2>1, StartedFields
<1>2. CASE StartScript
  <2> DEFINE anchors == {s.at : s \in snapshots}
  <2>1. /\ worker'["script"] = Started(IF anchors = {} THEN {now} ELSE anchors)
        /\ worker'["job"] = worker["job"]
        /\ IF anchors = {} THEN ClockRead ELSE now' = now
    BY <1>0, <1>2 DEF StartScript, Workers
  <2>2. worker'["script"].times = IF anchors = {} THEN {now} ELSE anchors
    BY <2>1, StartedFields
  <2> HIDE DEF anchors
  <2>3. \/ worker'["script"].times = {now} /\ ClockRead
        \/ worker'["script"].times = anchors /\ now' = now
    BY <2>1, <2>2
  <2> QED
    BY <1>2, <2>1, <2>3 DEF anchors
<1>3. ASSUME NEW w \in Workers,
             Others \/ \E v \in Workers : Compute(v) \/ Assess(v) \/ SaveFeature(v) \/ Interrupt(v)
      PROVE  worker'[w].times \subseteq worker[w].times
  <2>1. CASE Others
    <3>1. worker'[w] = [worker[w] EXCEPT !.quiet = FALSE]
      BY <2>1 DEF Others
    <3> QED
      BY <3>1
  <2>2. ASSUME NEW v \in Workers, SaveFeature(v) \/ Interrupt(v)
        PROVE  worker'[w].times \subseteq worker[w].times
    <3>1. worker[v].rule \in DOMAIN FeatureOrder
      BY DEF Sourced, Pending
    <3>2. worker'[v] = NextTask(worker[v]) \/ worker'[v] = IdleWorker
      BY <1>0, <2>2 DEF SaveFeature, Interrupt
    <3>3. \A u \in Workers \ {v} : worker'[u] = worker[u]
      BY <1>0, <2>2 DEF SaveFeature, Interrupt
    <3> QED
      BY <3>1, <3>2, <3>3, NextTaskFields, IdleFields
  <2>3. ASSUME NEW v \in Workers, NEW results, Continue(v, results)
        PROVE  worker'[w].times \subseteq worker[w].times
    <3>1. worker[v].rule \in DOMAIN FeatureOrder
      BY DEF Sourced, Pending
    <3>2. /\ \A u \in Workers \ {v} : worker'[u] = worker[u]
          /\ \/ worker'[v] = NextTask(worker[v])
             \/ \E r \in results : worker'[v] = [worker[v] EXCEPT !.pc = "save", !.result = <<r>>]
      BY <2>3, ContinueMoves
    <3>3. worker'[v].times = worker[v].times
      <4>1. CASE worker'[v] = NextTask(worker[v])
        BY <3>1, <4>1, NextTaskFields
      <4>2. ASSUME NEW r, worker'[v] = [worker[v] EXCEPT !.pc = "save", !.result = <<r>>]
            PROVE  worker'[v].times = worker[v].times
        BY <4>2
      <4> QED
        BY <3>2, <4>1, <4>2
    <3> QED
      BY <3>2, <3>3
  <2>4. ASSUME NEW v \in Workers, worker' = [worker EXCEPT ![v].pc = "assess"]
        PROVE  worker'[w].times \subseteq worker[w].times
    <3>1. /\ worker'[v] = [worker[v] EXCEPT !.pc = "assess"]
          /\ \A u \in Workers \ {v} : worker'[u] = worker[u]
      BY <1>0, <2>4
    <3>2. worker'[v].times = worker[v].times
      BY <3>1
    <3> QED
      BY <3>1, <3>2
  <2>5. \A v \in Workers :
          /\ Assess(v) => \E results : Continue(v, results)
          /\ Compute(v) => \/ worker' = [worker EXCEPT ![v].pc = "assess"]
                           \/ \E results : Continue(v, results)
    BY DEF Assess, Compute
  <2> QED
    BY <1>3, <2>1, <2>2, <2>3, <2>4, <2>5
<1>4. CASE UNCHANGED worker
  BY <1>4
<1>5. [Next]_vars =>
        \/ Others \/ StartJob \/ StartScript
        \/ \E v \in Workers : Compute(v) \/ Assess(v) \/ SaveFeature(v) \/ Interrupt(v)
        \/ UNCHANGED worker
  BY DEF Next, Write, Work, Read, StartSnapshots, PriceSnapshot,
         TakeSnapshot, BackfillSnapshot, SaveBar, StartScan, SaveInsight,
         SaveLabel, StartBuild, ReadNames, ReadFeature, AddRow, EndBuild,
         AskRanking, ReadFactorNames, ReadFactor, AddFactors, ReadHoneypot, ReadLaunch, ReadRug, vars
<1> QED
  BY <1>1, <1>2, <1>3, <1>4, <1>5

LEMMA ClockChanges ==
  ASSUME [Next]_vars
  PROVE  /\ now' = now \/ ClockRead
         /\ \/ snapshots' = snapshots
            \/ /\ now' = now
               /\ \E s : /\ \/ s \in Backfills
                            \/ \E r \in snapshots : s.at = r.at
                            \/ shot # Idle /\ s.at = shot
                         /\ snapshots' = SaveSnapshot(s)
         /\ \/ shot' = shot
            \/ shot' = Idle
            \/ ClockRead /\ shot' = now /\ worker' = worker
<1>1. CASE TakeSnapshot
  <2>1. PICK r \in Readings :
          snapshots' = SaveSnapshot([at |-> shot, source |-> "live", reserve |-> r.reserve, usd |-> r.usd])
    BY <1>1 DEF TakeSnapshot
  <2>2. [at |-> shot, source |-> "live", reserve |-> r.reserve, usd |-> r.usd].at = shot
    OBVIOUS
  <2> QED
    BY <1>1, <2>1, <2>2 DEF TakeSnapshot
<1>2. CASE PriceSnapshot
  <2>1. PICK s \in snapshots, usd \in Prices : snapshots' = SaveSnapshot([s EXCEPT !.usd = usd])
    BY <1>2 DEF PriceSnapshot
  <2>2. [s EXCEPT !.usd = usd].at = s.at
    OBVIOUS
  <2>3. \E t : (\E r \in snapshots : t.at = r.at) /\ snapshots' = SaveSnapshot(t)
    BY <2>1, <2>2
  <2> QED
    BY <1>2, <2>3 DEF PriceSnapshot, dates
<1>3. CASE BackfillSnapshot
  BY <1>3 DEF BackfillSnapshot, dates
<1>4. CASE StartSnapshots
  BY <1>4 DEF StartSnapshots, tables
<1>5. [Next]_vars => \/ TakeSnapshot \/ PriceSnapshot \/ BackfillSnapshot \/ StartSnapshots
                     \/ UNCHANGED <<snapshots, shot>> /\ (now' = now \/ ClockRead)
  BY DEF Next, Write, Work, Read, SaveBar, StartScan, SaveInsight,
         SaveLabel, StartJob, StartScript, Compute, Assess, SaveFeature, Interrupt,
         StartBuild, ReadNames, ReadFeature, AddRow, EndBuild,
         AskRanking, ReadFactorNames, ReadFactor, AddFactors, ReadHoneypot, ReadLaunch, ReadRug,
         vars, tables, dates
<1> QED
  BY <1>1, <1>2, <1>3, <1>4, <1>5

LEMMA ApartStep ==
  ASSUME Sourced, Dated, TablesOK, Apart, [Next]_vars
  PROVE  Apart'
<1>1. now \in Int /\ now % 2 = 1 /\ now \notin {t \in Int : t % 2 = 0}
  BY ResearchAssumption DEF TablesOK, Apart, Times
<1>2. \A s \in snapshots : s.at \in Int
  BY TimesAreInts DEF TablesOK, Snapshot
<1>3. now' \in Int /\ now' % 2 = 1 /\ now <= now' /\ (ClockRead => now < now')
  BY <1>1, ClockChanges DEF ClockRead
<1>4. \A w \in Workers : worker[w].times \subseteq Int
  BY TimesAreInts DEF Dated, TimesOf
<1>5. shot \in Int
  <2>1. shot \in Times \/ shot = Idle
    BY DEF TablesOK
  <2>2. Idle \in Int
    BY DEF Idle
  <2> QED
    BY <2>1, <2>2, TimesAreInts
<1>6. \A s \in snapshots' :
        /\ s.at % 2 = 0 \/ s.at < now'
        /\ \A t \in worker["job"].times : s.at # t
  <2>1. CASE snapshots' = snapshots
    BY <1>1, <1>2, <1>3, <2>1 DEF Apart
  <2>2. ASSUME NEW b \in Backfills, snapshots' = SaveSnapshot(b)
        PROVE  \A s \in snapshots' :
                 /\ s.at % 2 = 0 \/ s.at < now'
                 /\ \A t \in worker["job"].times : s.at # t
    <3>1. b.at % 2 = 0
      BY ResearchAssumption
    <3>2. \A t \in worker["job"].times : b.at # t
      BY <3>1 DEF Apart
    <3> QED
      BY <1>1, <1>2, <1>3, <2>2, <3>1, <3>2 DEF SaveSnapshot, Apart
  <2>3. ASSUME NEW b, shot # Idle, b.at = shot, snapshots' = SaveSnapshot(b)
        PROVE  \A s \in snapshots' :
                 /\ s.at % 2 = 0 \/ s.at < now'
                 /\ \A t \in worker["job"].times : s.at # t
    <3>1. b.at < now' /\ \A t \in worker["job"].times : b.at # t
      BY <1>1, <1>3, <1>5, <2>3 DEF Apart
    <3> QED
      BY <1>1, <1>2, <1>3, <2>3, <3>1 DEF SaveSnapshot, Apart
  <2>4. ASSUME NEW b, NEW r \in snapshots, b.at = r.at, snapshots' = SaveSnapshot(b)
        PROVE  \A s \in snapshots' :
                 /\ s.at % 2 = 0 \/ s.at < now'
                 /\ \A t \in worker["job"].times : s.at # t
    BY <1>1, <1>2, <1>3, <2>4 DEF SaveSnapshot, Apart
  <2> QED
    BY <2>1, <2>2, <2>3, <2>4, ClockChanges
<1>7. shot' # Idle => shot' < now' /\ shot' \notin worker'["job"].times
  <2>1. \A t \in worker["job"].times : t \in Int /\ t < now
    BY <1>4 DEF Apart, Workers
  <2>2. \A t \in worker'["job"].times : t \in worker["job"].times \/ t = now
    BY TimesChange DEF Workers
  <2>3. CASE shot' = shot
    BY <1>1, <1>3, <1>5, <2>2, <2>3 DEF Apart
  <2>4. CASE ClockRead /\ shot' = now /\ worker' = worker
    BY <1>1, <1>3, <2>1, <2>4
  <2> QED
    BY <2>3, <2>4, ClockChanges
<1>8. CASE \A w \in Workers : worker'[w].times \subseteq worker[w].times
  <2>1. /\ worker'["job"].times \subseteq worker["job"].times
        /\ worker'["script"].times \subseteq worker["script"].times
        /\ worker["job"].times \subseteq Int /\ worker["script"].times \subseteq Int
    BY <1>4, <1>8 DEF Workers
  <2>2. \A t \in worker'["job"].times : /\ t % 2 = 1 /\ t < now'
                                        /\ t \notin worker'["script"].times
                                        /\ \A s \in snapshots' : s.at # t
    BY <1>1, <1>3, <1>6, <2>1 DEF Apart
  <2>3. \A t \in worker'["script"].times : t % 2 = 0 \/ t < now'
    BY <1>1, <1>3, <2>1 DEF Apart
  <2> QED
    BY <1>3, <1>6, <1>7, <2>2, <2>3 DEF Apart
<1>9. CASE /\ StartJob
           /\ worker'["job"].times = {now} /\ worker'["script"].times = worker["script"].times
  <2>1. ClockRead /\ snapshots' = snapshots
    BY <1>9 DEF StartJob, tables
  <2>2. now < now' /\ worker["script"].times \subseteq Int
    BY <1>3, <1>4, <2>1 DEF Workers
  <2>3. \A t \in worker["script"].times : (t % 2 = 0 \/ t < now') /\ t # now
    BY <1>1, <1>3, <2>2 DEF Apart
  <2>4. \A s \in snapshots : s.at # now
    BY <1>1, <1>2 DEF Apart
  <2> QED
    BY <1>1, <1>3, <1>6, <1>7, <1>9, <2>1, <2>2, <2>3, <2>4 DEF Apart
<1>10. CASE /\ StartScript /\ worker'["job"].times = worker["job"].times
           /\ \/ worker'["script"].times = {now} /\ ClockRead
              \/ worker'["script"].times = {s.at : s \in snapshots} /\ now' = now
  <2>1. snapshots' = snapshots /\ worker["job"].times \subseteq Int
    BY <1>4, <1>10 DEF StartScript, tables, Workers
  <2>2. \A t \in worker["job"].times : t % 2 = 1 /\ t < now' /\ t # now
    BY <1>1, <1>3, <2>1 DEF Apart
  <2>3. \A t \in worker'["script"].times : /\ t % 2 = 0 \/ t < now'
                                           /\ t \notin worker["job"].times
    BY <1>1, <1>2, <1>3, <1>10 DEF Apart
  <2> QED
    BY <1>3, <1>6, <1>7, <1>10, <2>1, <2>2, <2>3 DEF Apart
<1> QED
  BY <1>8, <1>9, <1>10, TimesChange

LEMMA InitApart == Init => Apart
BY ResearchAssumption, IdleFields DEF Init, Apart, Workers

-----------------------------------------------------------------------------
(* Rows miss nothing.                                                      *)

\* "have" has a feature that is not older than any that was known at "at".
Serves(have, f) == \E g \in have : g.name = f.name /\ f.asOf <= g.asOf

(* What was known is still there, if recomputed; and the row that is built *)
(* has it or will ask for it.                                              *)
NothingMissed ==
  /\ \A f \in build.known : \E g \in features : SameFeature(g, f)
  /\ build.pc = "features" =>
       \A f \in build.known : f.asOf <= Evaluated.at =>
         f.name \in build.names \/ Serves(build.row, f)
  /\ \A row \in build.rows : \A f \in build.known : f.asOf <= row.at => Serves(row.features, f)

(* A feature is replaced, never deleted.                                   *)
LEMMA FeaturesStay ==
  ASSUME [Next]_vars, NEW f \in features
  PROVE  \E g \in features' : SameFeature(g, f)
<1>1. ASSUME NEW w \in Workers, SaveFeature(w)
      PROVE  \E g \in features' : SameFeature(g, f)
  <2> DEFINE task == Task(worker[w])
             new == FeatureOf(task, worker[w].result[1])
  <2>1. /\ new \in features' /\ SameFeature(new, task)
        /\ ~SameFeature(f, task) => f \in features'
    BY <1>1 DEF SaveFeature, SavedFeatures, FeatureOf, SameFeature
  <2> HIDE DEF task, new
  <2> QED
    BY <2>1 DEF SameFeature
<1>2. features' = features => \E g \in features' : SameFeature(g, f)
  BY DEF SameFeature
<1> QED
  BY <1>1, <1>2, FeaturesChange

LEMMA NothingMissedStep ==
  ASSUME Dated, NothingMissed, [Next]_vars
  PROVE  NothingMissed'
<1>1. CASE StartBuild
  <2>1. /\ build'.pc = "outcome" /\ build'.known = features /\ build'.rows = {}
        /\ features' = features
    BY <1>1 DEF StartBuild, NoBuild
  <2> QED
    BY <2>1 DEF NothingMissed, SameFeature
<1>2. CASE ReadNames
  <2>1. /\ build'.names = {f.name : f \in features} /\ build'.known = build.known
        /\ build'.rows = build.rows /\ features' = features
    BY <1>2 DEF ReadNames
  <2>2. \A f \in build.known : f.name \in build'.names
    BY <2>1 DEF NothingMissed, SameFeature
  <2> QED
    BY <2>1, <2>2 DEF NothingMissed
<1>3. CASE ReadFeature
  <2>1. PICK name \in build.names :
          build' = [build EXCEPT !.names = @ \ {name},
                                 !.row = @ \cup FeatureAt(name, Evaluated.at)]
    BY <1>3 DEF ReadFeature
  <2>2. /\ build.pc = "features" /\ features' = features
        /\ build'.known = build.known /\ build'.rows = build.rows
        /\ build'.names = build.names \ {name}
        /\ build'.row = build.row \cup FeatureAt(name, Evaluated.at)
        /\ build'.labels = build.labels
    <3>1. PICK found : found = FeatureAt(name, Evaluated.at)
      OBVIOUS
    <3>2. build' = [build EXCEPT !.names = @ \ {name}, !.row = @ \cup found]
      BY <2>1, <3>1
    <3>3. build.pc = "features" /\ features' = features
      BY <1>3 DEF ReadFeature
    <3> QED
      BY <3>1, <3>2, <3>3
  <2>3. Evaluated' = Evaluated
    BY <2>2 DEF Evaluated
  <2>4. ASSUME NEW f \in build.known, f.asOf <= Evaluated.at
        PROVE  f.name \in build'.names \/ Serves(build'.row, f)
    <3>1. CASE f.name = name
      <4>1. PICK g \in features : SameFeature(g, f)
        BY DEF NothingMissed
      <4>2. g.name = name /\ g.asOf = f.asOf /\ g.asOf <= Evaluated.at
        BY <2>4, <3>1, <4>1 DEF SameFeature
      <4>3. \A h \in features : h.asOf \in Int
        BY TimesAreInts DEF Dated
      <4>4. IsFiniteSet(features)
        BY DEF Dated
      <4>5. /\ FeatureAt(g.name, Evaluated.at) # {}
            /\ \A h \in FeatureAt(g.name, Evaluated.at) : h.name = g.name /\ g.asOf <= h.asOf
        BY <4>2, <4>3, <4>4, FeatureIsFound
      <4> QED
        BY <2>2, <3>1, <4>2, <4>5 DEF Serves
    <3>2. CASE f.name # name
      BY <2>2, <2>4, <3>2 DEF NothingMissed, Serves
    <3> QED
      BY <3>1, <3>2
  <2> QED
    BY <2>2, <2>3, <2>4 DEF NothingMissed
<1>4. CASE AddRow
  <2>1. /\ build'.pc = "outcome" /\ build'.known = build.known /\ features' = features
        /\ build'.rows = build.rows \cup {[at |-> Evaluated.at, features |-> build.row]}
        /\ build.pc = "features" /\ build.names = {}
    BY <1>4 DEF AddRow
  <2>2. \A f \in build.known : f.asOf <= Evaluated.at => Serves(build.row, f)
    BY <2>1 DEF NothingMissed
  <2> QED
    BY <2>1, <2>2 DEF NothingMissed
<1>5. CASE EndBuild
  <2>1. /\ build'.pc \in {"failed", "over"} /\ build'.known = build.known
        /\ build'.rows = build.rows /\ features' = features
    BY <1>5 DEF EndBuild
  <2> QED
    BY <2>1 DEF NothingMissed
<1>6. ASSUME UNCHANGED build
      PROVE  NothingMissed'
  <2>1. \A f \in features : \E g \in features' : SameFeature(g, f)
    BY FeaturesStay
  <2>2. \A f \in build.known : \E g \in features' : SameFeature(g, f)
    BY <2>1 DEF NothingMissed, SameFeature
  <2>3. Evaluated' = Evaluated
    BY <1>6 DEF Evaluated
  <2> QED
    BY <1>6, <2>2, <2>3 DEF NothingMissed
<1>7. [Next]_vars => \/ StartBuild \/ ReadNames \/ ReadFeature \/ AddRow \/ EndBuild
                     \/ UNCHANGED build
  BY DEF Next, Write, Work, Read, StartSnapshots, PriceSnapshot,
         TakeSnapshot, BackfillSnapshot, SaveBar, StartScan, SaveInsight,
         SaveLabel, Others, StartJob, StartScript, Compute, Assess, SaveFeature, Interrupt,
         AskRanking, ReadFactorNames, ReadFactor, AddFactors, ReadHoneypot, ReadLaunch, ReadRug, vars
<1> QED
  BY <1>1, <1>2, <1>3, <1>4, <1>5, <1>6, <1>7

LEMMA InitNothingMissed == Init => NothingMissed
BY DEF Init, NoBuild, NothingMissed

-----------------------------------------------------------------------------
(* A ranking counts what was known.                                        *)

\* The ranking has read f, or a newer feature of the name and of before its time.
Heeded(f) ==
  \E g \in rank.read : g.name = f.name /\ f.asOf <= g.asOf /\ g.asOf <= rank.asOf

(* What was known is still there, if recomputed, and is read or will be.   *)
NothingIgnored ==
  /\ \A f \in rank.known : f.name \in Weighted /\ f.asOf <= rank.asOf
  /\ \A f \in rank.known : \E g \in features : SameFeature(g, f)
  /\ rank.pc = "factors" => \A f \in rank.known : f.name \in rank.names \/ Heeded(f)
  /\ rank.pc \in {"out", "honeypot", "launch", "rug", "over"} => \A f \in rank.known : Heeded(f)

LEMMA NothingIgnoredStep ==
  ASSUME Dated, NothingIgnored, [Next]_vars
  PROVE  NothingIgnored'
<1>1. CASE AskRanking
  <2>1. PICK asOf \in AskedTimes :
          \E warned :
            rank' = [NoRank EXCEPT !.pc = "names", !.asOf = asOf,
                       !.known = {f \in features : f.name \in Weighted /\ f.asOf <= asOf},
                       !.warned = warned]
    BY <1>1 DEF AskRanking
  <2>2. /\ rank'.pc = "names" /\ rank'.asOf = asOf /\ features' = features
        /\ rank'.known = {f \in features : f.name \in Weighted /\ f.asOf <= asOf}
    BY <1>1, <2>1 DEF AskRanking, NoRank
  <2> QED
    BY <2>2 DEF NothingIgnored, SameFeature
<1>2. CASE ReadFactorNames
  <2>1. /\ rank'.pc = "factors" /\ rank'.names = {f.name : f \in features} \cap Weighted
        /\ rank'.known = rank.known /\ rank'.asOf = rank.asOf /\ features' = features
    BY <1>2 DEF ReadFactorNames
  <2>2. \A f \in rank.known : f.name \in rank'.names
    BY <2>1 DEF NothingIgnored, SameFeature
  <2> QED
    BY <2>1, <2>2 DEF NothingIgnored
<1>3. CASE ReadFactor
  <2>0. PICK name \in rank.names :
          rank' = [rank EXCEPT !.names = @ \ {name}, !.read = @ \cup FeatureAt(name, rank.asOf)]
    BY <1>3 DEF ReadFactor
  <2>1. PICK found :
          /\ found = FeatureAt(name, rank.asOf)
          /\ rank' = [rank EXCEPT !.names = @ \ {name}, !.read = @ \cup found]
    BY <2>0
  <2>2. /\ rank.pc = "factors" /\ rank'.pc = "factors" /\ features' = features
        /\ rank'.known = rank.known /\ rank'.asOf = rank.asOf
        /\ rank'.names = rank.names \ {name} /\ rank'.read = rank.read \cup found
    <3>1. rank.pc = "factors" /\ features' = features
      BY <1>3 DEF ReadFactor
    <3> QED
      BY <2>1, <3>1
  <2>3. ASSUME NEW f \in rank.known
        PROVE  f.name \in rank'.names \/ Heeded(f)'
    <3>1. CASE f.name = name
      <4>1. PICK g \in features : SameFeature(g, f)
        BY DEF NothingIgnored
      <4>2. g.name = name /\ g.asOf = f.asOf /\ g.asOf <= rank.asOf
        BY <3>1, <4>1 DEF SameFeature, NothingIgnored
      <4>3. IsFiniteSet(features) /\ \A h \in features : h.asOf \in Int
        BY TimesAreInts DEF Dated
      <4>4. PICK h \in FeatureAt(g.name, rank.asOf) : h.name = g.name /\ g.asOf <= h.asOf
        BY <4>2, <4>3, FeatureIsFound
      <4>5. h \in rank'.read /\ h.asOf <= rank.asOf
        BY <2>1, <2>2, <4>2, <4>4 DEF FeatureAt
      <4> QED
        BY <2>2, <3>1, <4>2, <4>4, <4>5 DEF Heeded
    <3>2. CASE f.name # name
      BY <2>2, <3>2 DEF NothingIgnored, Heeded
    <3> QED
      BY <3>1, <3>2
  <2> QED
    BY <2>2, <2>3 DEF NothingIgnored
<1>4. CASE AddFactors
  <2>1. /\ rank.pc = "factors" /\ rank.names = {} /\ features' = features
        /\ rank'.pc \in {"out", "honeypot"} /\ rank'.known = rank.known
        /\ rank'.asOf = rank.asOf /\ rank'.read = rank.read
    <3>1. PICK pc, score : /\ rank' = [rank EXCEPT !.pc = pc, !.score = score]
                           /\ pc \in {"out", "honeypot"}
      <4> DEFINE base == Base
      <4>1. CASE rank' = [rank EXCEPT !.pc = "out"]
        <5>1. rank' = [rank EXCEPT !.pc = "out", !.score = rank.score]
          BY <4>1
        <5> QED
          BY <5>1
      <4>2. CASE rank' = [rank EXCEPT !.pc = "honeypot", !.score = base]
        <5> HIDE DEF base
        <5> QED
          BY <4>2
      <4> QED
        BY <1>4, <4>1, <4>2 DEF AddFactors
    <3> QED
      BY <1>4, <3>1 DEF AddFactors
  <2> QED
    BY <2>1 DEF NothingIgnored, Heeded
<1>5. CASE ReadHoneypot \/ ReadLaunch \/ ReadRug
  <2>1. PICK pc, score : /\ rank' = [rank EXCEPT !.pc = pc, !.score = score]
                         /\ rank.pc \in {"honeypot", "launch", "rug"}
                         /\ pc \in {"launch", "rug", "over"} /\ features' = features
    BY <1>5 DEF ReadHoneypot, ReadLaunch, ReadRug
  <2>2. /\ rank'.pc \in {"launch", "rug", "over"} /\ rank'.known = rank.known
        /\ rank'.asOf = rank.asOf /\ rank'.read = rank.read
    BY <2>1
  <2> QED
    BY <2>1, <2>2 DEF NothingIgnored, Heeded
<1>6. CASE UNCHANGED rank
  <2>1. \A f \in rank.known : \E g \in features' : SameFeature(g, f)
    BY FeaturesStay DEF NothingIgnored, SameFeature
  <2> QED
    BY <1>6, <2>1 DEF NothingIgnored, Heeded
<1>7. [Next]_vars => \/ AskRanking \/ ReadFactorNames \/ ReadFactor \/ AddFactors
                     \/ ReadHoneypot \/ ReadLaunch \/ ReadRug
                     \/ UNCHANGED rank
  BY DEF Next, Write, Work, Read, StartSnapshots, PriceSnapshot,
         TakeSnapshot, BackfillSnapshot, SaveBar, StartScan, SaveInsight,
         SaveLabel, Others, StartJob, StartScript, Compute, Assess, SaveFeature, Interrupt,
         StartBuild, ReadNames, ReadFeature, AddRow, EndBuild, vars
<1> QED
  BY <1>1, <1>2, <1>3, <1>4, <1>5, <1>6, <1>7

LEMMA InitNothingIgnored == Init => NothingIgnored
BY DEF Init, NoRank, NothingIgnored

-----------------------------------------------------------------------------
(* A run that no table changes under.                                      *)

\* What the rules give for a task, both queries of the honeypot score taken.
Given(task) ==
  IF task.name = "honeypot_detected_score" /\ Results(task) = {}
    THEN Assessed(insights, task.asOf) ELSE Results(task)

Matches(f) == Given(f) = {} \/ [value |-> f.value, inputs |-> f.inputs] \in Given(f)

\* The run has computed the feature.
Done(w, f) ==
  \/ f.asOf \in w.times /\ f.asOf \notin w.todo
  \/ /\ w.pc \in Active /\ f.asOf = Min(w.todo)
     /\ \E i \in DOMAIN FeatureOrder : i < w.rule /\ FeatureOrder[i] = f.name

(* What it has computed is as the rules give it, and what it has in hand.  *)
Refreshed(w) ==
  w.quiet =>
    /\ \A f \in features : Done(w, f) => Matches(f)
    /\ w.pc = "assess" => /\ Task(w).name = "honeypot_detected_score"
                          /\ Results(Task(w)) = {}
    /\ w.pc = "save" => w.result[1] \in Given(Task(w))

\* Only name and time of a task decide what the rules give.
LEMMA GivenSame ==
  ASSUME NEW f, NEW task, SameFeature(f, task)
  PROVE  Results(f) = Results(task) /\ Given(f) = Given(task)
BY DEF SameFeature, Given, Results

\* The results depend on three tables.
LEMMA GivenStays ==
  ASSUME UNCHANGED <<snapshots, bars, insights>>, NEW f
  PROVE  /\ Results(f)' = Results(f) /\ Given(f)' = Given(f)
         /\ Matches(f)' = Matches(f)
BY DEF Matches, Given, Results

\* The next task leaves the one at hand done.
LEMMA DoneNext ==
  ASSUME NEW w \in Workers, Sourced, Dated, worker[w].pc \in Active, NEW f,
         f.name \in FeatureNames, Done(NextTask(worker[w]), f)
  PROVE  Done(worker[w], f) \/ SameFeature(f, Task(worker[w]))
<1> DEFINE v == worker[w]
<1>1. v.rule \in 1..5 /\ DOMAIN FeatureOrder = 1..5
  BY DEF Sourced, Pending, FeatureOrder
<1>2. Task(v).asOf = Min(v.todo) /\ Task(v).name = FeatureOrder[v.rule] /\ Min(v.todo) \in v.times
  BY TaskTime
<1>3. NextTask(v).times = v.times
  BY NextTaskFields, <1>1
<1>4. CASE v.rule < 5
  <2>1. NextTask(v).rule = v.rule + 1 /\ NextTask(v).todo = v.todo
    BY <1>1, <1>4, NextTaskFields
  <2>2. CASE f.asOf \in v.times /\ f.asOf \notin v.todo
    BY <2>2 DEF Done
  <2>3. ASSUME f.asOf = Min(v.todo), NEW i \in DOMAIN FeatureOrder,
               i < v.rule + 1, FeatureOrder[i] = f.name
        PROVE  Done(v, f) \/ SameFeature(f, Task(v))
    <3>1. CASE i < v.rule
      BY <2>3, <3>1 DEF Done
    <3>2. CASE i = v.rule
      BY <1>2, <2>3, <3>2 DEF SameFeature
    <3> QED
      BY <1>1, <2>3, <3>1, <3>2
  <2> DEFINE n == NextTask(v)
  <2>4. n.times = v.times /\ n.todo = v.todo /\ n.rule = v.rule + 1 /\ Done(n, f)
    BY <1>3, <2>1
  <2>5. Done(v, f) \/ SameFeature(f, Task(v))
    <3> HIDE DEF v, n
    <3> QED
      BY <2>2, <2>3, <2>4 DEF Done
  <2> QED
    BY <2>5
<1>5. CASE v.rule = 5
  <2>1. NextTask(v).rule = 1 /\ NextTask(v).todo = v.todo \ {Min(v.todo)}
    BY <1>1, <1>5, NextTaskFields
  <2>2. f.asOf \in v.times /\ (f.asOf \notin v.todo \/ f.asOf = Min(v.todo))
    <3>1. ~\E i \in DOMAIN FeatureOrder : i < 1
      BY <1>1
    <3> DEFINE n == NextTask(v)
    <3>2. n.times = v.times /\ n.todo = v.todo \ {Min(v.todo)} /\ n.rule = 1 /\ Done(n, f)
      BY <1>3, <2>1
    <3> HIDE DEF v, n
    <3> QED
      BY <3>1, <3>2 DEF Done
  <2>3. CASE f.asOf = Min(v.todo)
    <3>1. PICK i \in DOMAIN FeatureOrder : FeatureOrder[i] = f.name
      BY DEF FeatureNames
    <3>2. CASE i < v.rule
      BY <2>3, <3>1, <3>2 DEF Done
    <3>3. CASE i = v.rule
      BY <1>2, <2>3, <3>1, <3>3 DEF SameFeature
    <3> QED
      BY <1>1, <1>5, <3>1, <3>2, <3>3
  <2> QED
    BY <2>2, <2>3 DEF Done
<1> QED
  BY <1>1, <1>4, <1>5

Shaped(r) == [value |-> r.value, inputs |-> r.inputs] = r

LEMMA ResultsShape ==
  ASSUME NEW task, task.name \in FeatureNames, NEW r \in Results(task)
  PROVE  Shaped(r)
<1>0. \A value, inputs : Shaped([value |-> value, inputs |-> inputs])
  BY DEF Shaped
<1>1. CASE task.name = "liquidity_growth_pct_1h"
  <2>1. \E value, inputs : r = [value |-> value, inputs |-> inputs]
    BY <1>1 DEF Results, LiquidityGrowth
  <2> QED
    BY <1>0, <2>1
<1>2. CASE task.name = "price_momentum_zscore_1h"
  <2>1. \E value, inputs : r = [value |-> value, inputs |-> inputs]
    BY <1>2 DEF Results, PriceMomentum
  <2> QED
    BY <1>0, <2>1
<1>3. CASE task.name = "volume_quote_delta_1h"
  <2>1. \E value, inputs : r = [value |-> value, inputs |-> inputs]
    BY <1>3 DEF Results, VolumeDelta
  <2> QED
    BY <1>0, <2>1
<1>4. CASE task.name = "honeypot_detected_score"
  <2>1. \E value, inputs : r = [value |-> value, inputs |-> inputs]
    BY <1>4 DEF Results, HoneypotDetected, InsightScore
  <2> QED
    BY <1>0, <2>1
<1>5. CASE task.name = "liquidity_usd_delta_1h"
  <2>1. \E value, inputs : r = [value |-> value, inputs |-> inputs]
    BY <1>5 DEF Results, UsdDelta
  <2> QED
    BY <1>0, <2>1
<1> QED
  BY <1>1, <1>2, <1>3, <1>4, <1>5 DEF FeatureNames, FeatureOrder

LEMMA GivenShape ==
  ASSUME NEW task, task.name \in FeatureNames, NEW r \in Given(task)
  PROVE  Shaped(r)
<1>1. CASE r \in Results(task)
  BY <1>1, ResultsShape
<1>2. CASE r \in Assessed(insights, task.asOf)
  <2>1. PICK i : r = InsightScore(0, i)
    BY <1>2 DEF Assessed
  <2> QED
    BY <2>1 DEF InsightScore, Shaped
<1> QED
  BY <1>1, <1>2 DEF Given

LEMMA TaskStays ==
  ASSUME UNCHANGED <<snapshots, bars, insights>>, NEW w
  PROVE  /\ Results(Task(worker[w]))' = Results(Task(worker'[w]))
         /\ Given(Task(worker[w]))' = Given(Task(worker'[w]))
BY DEF Results, Given, Task

LEMMA DoneTimes ==
  ASSUME Sourced, Dated, NEW w \in Workers, NEW f, Done(worker[w], f)
  PROVE  f.asOf \in worker[w].times
BY TaskTime DEF Done, Active

(* A run that begins has done nothing.                                     *)
LEMMA NothingDone ==
  ASSUME NEW times, NEW f
  PROVE  ~Done(Started(times), f)
<1>1. ~\E i \in DOMAIN FeatureOrder : i < 1
  BY DEF FeatureOrder
<1> QED
  BY <1>1, StartedFields DEF Done

Refreshing == \A w \in Workers : Refreshed(worker[w])

(* A step that saves no feature.                                           *)
LEMMA RefreshedByWork ==
  ASSUME Sourced, Dated, Refreshing, [Next]_vars, NEW w \in Workers, worker'[w].quiet,
         features' = features, ~SaveFeature(w)
  PROVE  /\ \A f \in features : Done(worker'[w], f) => Matches(f)
         /\ worker'[w].pc = "assess" => /\ Task(worker'[w]).name = "honeypot_detected_score"
                                        /\ Results(Task(worker'[w])) = {}
         /\ worker'[w].pc = "save" => worker'[w].result[1] \in Given(Task(worker'[w]))
<1> DEFINE v == worker[w]
           n == worker'[w]
           Goal == /\ \A f \in features : Done(n, f) => Matches(f)
                   /\ n.pc = "assess" => /\ Task(n).name = "honeypot_detected_score"
                                         /\ Results(Task(n)) = {}
                   /\ n.pc = "save" => n.result[1] \in Given(Task(n))
<1>0. v.rule \in DOMAIN FeatureOrder
  BY DEF Sourced, Pending
<1>1. Refreshed(v)
  BY DEF Refreshing
<1>2. CASE Stays(w)
  <2>1. /\ n.pc = v.pc /\ n.rule = v.rule /\ n.times = v.times /\ n.todo = v.todo
        /\ n.result = v.result /\ v.quiet
    BY <1>2 DEF Stays
  <2>2. Goal
    <3> HIDE DEF n, v
    <3> QED
      BY <1>1, <2>1 DEF Refreshed, Done, Task
  <2> QED
    BY <2>2
<1>3. CASE worker'[w] = IdleWorker
  BY <1>3, IdleFields
<1>4. CASE Begins(w)
  <2>1. PICK times : n = Started(times)
    BY <1>4 DEF Begins
  <2>2. n.pc = "compute"
    BY <2>1, StartedFields
  <2> QED
    BY <2>1, <2>2, NothingDone
<1>5. CASE Skips(w)
  <2>1. n = NextTask(v) /\ v.pc \in Active /\ v.quiet
    BY <1>0, <1>5, NextTaskFields DEF Skips, Active
  <2>2. n.pc \in {"compute", "over"}
    BY <1>0, <2>1, NextTaskType
  <2>3. Given(Task(v)) = {}
    BY <1>1, <1>5, <2>1 DEF Skips, Refreshed, Given
  <2>4. ASSUME NEW f \in features, Done(n, f)
        PROVE  Matches(f)
    <3>1. Done(v, f) \/ SameFeature(f, Task(v))
      BY <2>1, <2>4, DoneNext DEF Dated
    <3>2. SameFeature(f, Task(v)) => Matches(f)
      BY <2>3, GivenSame DEF Matches
    <3> QED
      BY <1>1, <2>1, <3>1, <3>2 DEF Refreshed
  <2> QED
    BY <2>2, <2>4
<1>6. CASE Asks(w)
  <2>1. /\ n.pc = "assess" /\ n.rule = v.rule /\ n.times = v.times /\ n.todo = v.todo
        /\ v.quiet /\ v.pc = "compute"
    BY <1>6, AsksFields DEF Asks
  <2>2. Task(v).name = "honeypot_detected_score" /\ Results(Task(v)) = {}
    BY <1>6 DEF Asks
  <2>3. Task(n) = Task(v)
    BY <2>1 DEF Task
  <2>4. Goal
    <3> HIDE DEF n, v
    <3>1. \A f : Done(n, f) => Done(v, f)
      BY <2>1 DEF Done, Active
    <3> QED
      BY <1>1, <2>1, <2>2, <2>3, <3>1 DEF Refreshed
  <2> QED
    BY <2>4
<1>7. CASE Holds(w)
  <2>1. /\ n.pc = "save" /\ n.rule = v.rule /\ n.times = v.times /\ n.todo = v.todo
        /\ v.quiet /\ v.pc \in Active
        /\ \/ v.pc = "compute" /\ n.result[1] \in Results(Task(v))
           \/ v.pc = "assess" /\ n.result[1] \in Assessed(insights, Task(v).asOf)
    BY <1>7, HoldsActive, HoldsFields
  <2>2. Task(n) = Task(v)
    BY <2>1 DEF Task
  <2>3. Goal
    <3> HIDE DEF n, v
    <3>1. \A f : Done(n, f) => Done(v, f)
      BY <2>1 DEF Done, Active
    <3>2. n.result[1] \in Given(Task(v))
      BY <1>1, <2>1 DEF Refreshed, Given
    <3> QED
      BY <1>1, <2>1, <2>2, <3>1, <3>2 DEF Refreshed
  <2> QED
    BY <2>3
<1> QED
  BY <1>2, <1>3, <1>4, <1>5, <1>6, <1>7, WorkerMoves DEF Moves

(* The run saves the feature it has in hand.                               *)
LEMMA RefreshedBySave ==
  ASSUME Sourced, Dated, Refreshing, NEW w \in Workers, worker'[w].quiet, SaveFeature(w)
  PROVE  /\ \A f \in features' : Done(worker'[w], f) => Matches(f)
         /\ worker'[w].pc \in {"compute", "over"}
<1> DEFINE v == worker[w]
           n == worker'[w]
           task == Task(v)
           new == FeatureOf(task, v.result[1])
<1>0. v.rule \in DOMAIN FeatureOrder /\ Refreshed(v)
  BY DEF Sourced, Pending, Refreshing
<1>1. n = NextTask(v) /\ v.pc = "save" /\ v.pc \in Active
  BY DEF SaveFeature, Sourced, Active
<1>2. n.pc \in {"compute", "over"} /\ v.quiet
  BY <1>0, <1>1, NextTaskType, NextTaskFields
<1>3. v.result[1] \in Given(task)
  BY <1>0, <1>1, <1>2 DEF Refreshed
<1>4. task.name \in FeatureNames
  BY <1>0, TaskName
<1>5. Matches(new)
  <2>1. Shaped(v.result[1])
    BY <1>3, <1>4, GivenShape
  <2>2. SameFeature(new, task) /\ new.value = v.result[1].value /\ new.inputs = v.result[1].inputs
    BY DEF FeatureOf, SameFeature
  <2>3. Given(new) = Given(task)
    BY <2>2, GivenSame
  <2> HIDE DEF new, task, v
  <2> QED
    BY <1>3, <2>1, <2>2, <2>3 DEF Matches, Shaped
<1>6. ASSUME NEW f \in features', Done(n, f)
      PROVE  Matches(f)
  <2>1. f = new \/ (f \in features /\ ~SameFeature(f, task))
    BY DEF SaveFeature, SavedFeatures
  <2>2. CASE f = new
    BY <1>5, <2>2
  <2>3. CASE f \in features /\ ~SameFeature(f, task)
    <3>1. f.name \in FeatureNames
      BY <2>3 DEF Dated
    <3>2. Done(v, f)
      BY <1>1, <1>6, <2>3, <3>1, DoneNext
    <3> QED
      BY <1>0, <1>2, <2>3, <3>2 DEF Refreshed
  <2> QED
    BY <2>1, <2>2, <2>3
<1> QED
  BY <1>2, <1>6

(* The other run saves a feature, of a time that is not of this run.       *)
LEMMA RefreshedByOther ==
  ASSUME Sourced, Dated, Apart, Refreshing, NEW w \in Workers, worker'[w].quiet,
         NEW u \in Workers \ {w}, SaveFeature(u)
  PROVE  /\ worker'[w] = worker[w]
         /\ \A f \in features' : Done(worker'[w], f) => Matches(f)
<1>1. worker'[w] = worker[w]
  BY DEF SaveFeature, Sourced
<1>2. Refreshed(worker[w]) /\ worker[w].quiet
  BY <1>1 DEF Refreshing
<1>3. ASSUME NEW f \in features', Done(worker[w], f)
      PROVE  Matches(f)
  <2>1. f.asOf \in worker[w].times
    BY <1>3, DoneTimes
  <2>2. Task(worker[u]).asOf \in worker[u].times
    BY TaskTime DEF SaveFeature, Active
  <2>3. f.asOf # Task(worker[u]).asOf
    BY <2>1, <2>2 DEF Apart, Workers
  <2>4. f \in features
    BY <2>3 DEF SaveFeature, SavedFeatures, FeatureOf
  <2> QED
    BY <1>2, <1>3, <2>4 DEF Refreshed
<1> QED
  BY <1>1, <1>3

LEMMA RefreshingStep ==
  ASSUME Sourced, Dated, Apart, Refreshing, [Next]_vars
  PROVE  Refreshing'
<1> SUFFICES ASSUME NEW w \in Workers, worker'[w].quiet
             PROVE  /\ \A f \in features' : Done(worker'[w], f) => Matches(f)'
                    /\ worker'[w].pc = "assess" =>
                         /\ Task(worker'[w]).name = "honeypot_detected_score"
                         /\ Results(Task(worker[w]))' = {}
                    /\ worker'[w].pc = "save" =>
                         worker'[w].result[1] \in Given(Task(worker[w]))'
  BY DEF Refreshing, Refreshed, Done, Task
<1>1. UNCHANGED <<snapshots, bars, insights>>
  BY QuietTables
<1>2. /\ Results(Task(worker[w]))' = Results(Task(worker'[w]))
      /\ Given(Task(worker[w]))' = Given(Task(worker'[w]))
  BY <1>1, TaskStays
<1>3. \A f : Matches(f)' <=> Matches(f)
  BY <1>1, GivenStays
<1>4. CASE features' = features /\ ~SaveFeature(w)
  BY <1>2, <1>3, <1>4, RefreshedByWork
<1>5. CASE SaveFeature(w)
  BY <1>2, <1>3, <1>5, RefreshedBySave
<1>6. ASSUME NEW u \in Workers \ {w}, SaveFeature(u)
      PROVE  /\ \A f \in features' : Done(worker'[w], f) => Matches(f)
             /\ worker'[w] = worker[w]
  BY <1>6, RefreshedByOther
<1>7. ASSUME NEW u \in Workers \ {w}, SaveFeature(u)
      PROVE  /\ \A f \in features' : Done(worker'[w], f) => Matches(f)'
             /\ worker'[w].pc = "assess" =>
                  /\ Task(worker'[w]).name = "honeypot_detected_score"
                  /\ Results(Task(worker[w]))' = {}
             /\ worker'[w].pc = "save" =>
                  worker'[w].result[1] \in Given(Task(worker[w]))'
  BY <1>2, <1>3, <1>6, <1>7 DEF Refreshing, Refreshed
<1> QED
  BY <1>4, <1>5, <1>7, FeaturesChange

LEMMA InitRefreshing == Init => Refreshing
BY IdleFields DEF Init, Refreshing, Refreshed

-----------------------------------------------------------------------------
(* A honeypot is not cleared.                                              *)

Warned(time) == \E i \in insights : i.type = "HoneypotDetected" /\ i.at <= time

\* A score of 100 is about to be saved for a reason, and one that is not 100
\* does not replace one that is.
InHand(w) ==
  LET task == Task(w)
  IN  /\ w.pc = "save" /\ task.name = "honeypot_detected_score" =>
           (w.result[1].value = 100 => Warned(task.asOf))
      /\ \/ w.pc = "assess"
         \/ /\ w.pc = "save" /\ task.name = "honeypot_detected_score"
            /\ w.result[1].value # 100
         => \A f \in features : SameFeature(f, task) => f.value # 100

Assured ==
  /\ \A f \in features : f.name = "honeypot_detected_score" /\ f.value = 100 => Warned(f.asOf)
  /\ \A w \in Workers : InHand(worker[w])

LEMMA WarnedStays == [Next]_vars => \A time : Warned(time) => Warned(time)'
BY InsightsGrow DEF Warned

\* The first query finds what warns of the pair, and nothing else.
LEMMA ScoreOfHoneypot ==
  ASSUME Dated, TablesOK, NEW task, task.name = "honeypot_detected_score"
  PROVE  /\ Results(task) = {} => ~Warned(task.asOf)
         /\ \A r \in Results(task) : r.value = 100 /\ Warned(task.asOf)
<1>1. Results(task) = {InsightScore(100, i) :
                         i \in LatestInsight(insights, {"HoneypotDetected"}, task.asOf)}
  BY DEF Results, HoneypotDetected
<1>2. Results(task) = {} => ~Warned(task.asOf)
  <2> SUFFICES ASSUME NEW i \in insights, i.type = "HoneypotDetected", i.at <= task.asOf
               PROVE  Results(task) # {}
    BY DEF Warned
  <2>1. IsFiniteSet(insights) /\ \A j \in insights : j.at \in Int
    BY TimesAreInts DEF Dated, TablesOK, Insight
  <2>2. LatestInsight(insights, {"HoneypotDetected"}, task.asOf) # {}
    BY <2>1, InsightIsFound
  <2> QED
    BY <1>1, <2>2
<1>3. ASSUME NEW r \in Results(task)
      PROVE  r.value = 100 /\ Warned(task.asOf)
  <2>1. PICK i \in LatestInsight(insights, {"HoneypotDetected"}, task.asOf) :
          r = InsightScore(100, i)
    BY <1>1
  <2>2. i \in insights /\ i.type = "HoneypotDetected" /\ i.at <= task.asOf
    BY DEF LatestInsight
  <2> QED
    BY <2>1, <2>2 DEF InsightScore, Warned
<1> QED
  BY <1>2, <1>3

LEMMA AssessedScore ==
  ASSUME NEW asOf, NEW r \in Assessed(insights, asOf)
  PROVE  r.value # 100
<1>1. PICK i : r = InsightScore(0, i)
  BY DEF Assessed
<1> QED
  BY <1>1 DEF InsightScore

\* A step that saves no feature.
LEMMA InHandByWork ==
  ASSUME Sourced, Dated, TablesOK, Assured, [Next]_vars, NEW w \in Workers,
         features' = features, ~SaveFeature(w)
  PROVE  InHand(worker'[w])
<1> DEFINE v == worker[w]
           n == worker'[w]
<1>0. v.rule \in DOMAIN FeatureOrder /\ Pending(v) /\ InHand(v)
  BY DEF Sourced, Pending, Assured
<1>1. CASE Stays(w)
  <2>1. n.pc = v.pc /\ n.rule = v.rule /\ n.todo = v.todo /\ n.result = v.result
    BY <1>1 DEF Stays
  <2>2. InHand(n)
    <3> HIDE DEF n, v
    <3> QED
      BY <1>0, <2>1 DEF InHand, Task
  <2> QED
    BY <2>2
<1>2. CASE n.pc \notin {"assess", "save"}
  <2>1. InHand(n)
    <3> HIDE DEF n, v
    <3> QED
      BY <1>2 DEF InHand
  <2> QED
    BY <2>1
<1>3. CASE worker'[w] = IdleWorker
  BY <1>2, <1>3, IdleFields
<1>4. CASE Begins(w)
  BY <1>2, <1>4, StartedFields DEF Begins
<1>5. CASE Skips(w)
  BY <1>0, <1>2, <1>5, NextTaskType DEF Skips
<1>6. CASE Asks(w)
  <2>1. n.pc = "assess" /\ Task(n) = Task(v)
    BY <1>6, AsksFields DEF Task
  <2>2. Task(v).name = "honeypot_detected_score" /\ ~Warned(Task(v).asOf)
    BY <1>6, ScoreOfHoneypot DEF Asks
  <2>3. \A f \in features : SameFeature(f, Task(v)) => f.value # 100
    BY <2>2 DEF Assured, SameFeature
  <2>4. InHand(n)
    <3> HIDE DEF n, v
    <3> QED
      BY <2>1, <2>3 DEF InHand
  <2> QED
    BY <2>4
<1>7. CASE Holds(w)
  <2>1. /\ n.pc = "save" /\ Task(n) = Task(v)
        /\ \/ v.pc = "compute" /\ n.result[1] \in Results(Task(v))
           \/ v.pc = "assess" /\ n.result[1] \in Assessed(insights, Task(v).asOf)
    BY <1>7, HoldsActive, HoldsFields DEF Task
  <2>2. CASE v.pc = "compute" /\ n.result[1] \in Results(Task(v))
    <3>1. Task(v).name = "honeypot_detected_score" =>
            n.result[1].value = 100 /\ Warned(Task(v).asOf)
      BY <2>2, ScoreOfHoneypot
    <3>2. InHand(n)
      <4> HIDE DEF n, v
      <4> QED
        BY <2>1, <3>1 DEF InHand
    <3> QED
      BY <3>2
  <2>3. CASE v.pc = "assess" /\ n.result[1] \in Assessed(insights, Task(v).asOf)
    <3>1. n.result[1].value # 100
      BY <2>3, AssessedScore
    <3>2. InHand(n)
      <4> HIDE DEF n, v
      <4> QED
        BY <1>0, <2>1, <2>3, <3>1 DEF InHand
    <3> QED
      BY <3>2
  <2> QED
    BY <2>1, <2>2, <2>3
<1> QED
  BY <1>1, <1>3, <1>4, <1>5, <1>6, <1>7, WorkerMoves DEF Moves

\* The features that a save leaves as they are, at the time of the other run.
LEMMA SaveIsApart ==
  ASSUME Sourced, Dated, Apart, NEW w \in Workers, NEW u \in Workers \ {w}, SaveFeature(u),
         worker[w].pc \in Active
  PROVE  \A f \in features' : SameFeature(f, Task(worker[w])) => f \in features
<1>1. /\ Task(worker[w]).asOf \in worker[w].times
      /\ Task(worker[u]).asOf \in worker[u].times
  BY TaskTime DEF SaveFeature, Active
<1>2. Task(worker[w]).asOf # Task(worker[u]).asOf
  BY <1>1 DEF Apart, Workers
<1> QED
  BY <1>2 DEF SaveFeature, SavedFeatures, FeatureOf, SameFeature

LEMMA InHandStep ==
  ASSUME Sourced, Dated, Apart, TablesOK, Assured, [Next]_vars, NEW w \in Workers
  PROVE  InHand(worker[w])'
<1>1. \A time : Warned(time) => Warned(time)'
  BY WarnedStays
<1>2. CASE features' = features /\ ~SaveFeature(w)
  <2>1. InHand(worker'[w])
    BY <1>2, InHandByWork
  <2> QED
    BY <1>1, <1>2, <2>1 DEF InHand, Task
<1>3. CASE SaveFeature(w)
  <2>1. worker'[w].pc \in {"compute", "over"}
    BY <1>3, NextTaskType DEF SaveFeature, Sourced, Pending
  <2> QED
    BY <2>1 DEF InHand
<1>4. ASSUME NEW u \in Workers \ {w}, SaveFeature(u)
      PROVE  InHand(worker[w])'
  <2>1. worker'[w] = worker[w] /\ InHand(worker[w])
    BY <1>4 DEF SaveFeature, Sourced, Assured
  <2>2. worker[w].pc \in Active =>
          \A f \in features' : SameFeature(f, Task(worker[w])) => f \in features
    BY <1>4, SaveIsApart
  <2>3. worker[w].pc \in {"assess", "save"} => worker[w].pc \in Active
    BY DEF Active
  <2>4. Task(worker[w])' = Task(worker[w])
    BY <2>1 DEF Task
  <2>5. \A f : SameFeature(f, Task(worker[w]))' <=> SameFeature(f, Task(worker[w]))
    BY <2>4 DEF SameFeature
  <2> QED
    BY <1>1, <2>1, <2>2, <2>3, <2>4, <2>5 DEF InHand
<1> QED
  BY <1>2, <1>3, <1>4, FeaturesChange

LEMMA AssuredStep ==
  ASSUME Sourced, Dated, Apart, TablesOK, Assured, [Next]_vars
  PROVE  Assured'
<1>1. \A time : Warned(time) => Warned(time)'
  BY WarnedStays
<1>2. \A f \in features' : f.name = "honeypot_detected_score" /\ f.value = 100 => Warned(f.asOf)
  <2>1. ASSUME NEW w \in Workers, SaveFeature(w), NEW f \in features', f \notin features,
               f.name = "honeypot_detected_score", f.value = 100
        PROVE  Warned(f.asOf)
    <3>1. f = FeatureOf(Task(worker[w]), worker[w].result[1])
      BY <2>1 DEF SaveFeature, SavedFeatures
    <3>2. /\ f.name = Task(worker[w]).name /\ f.asOf = Task(worker[w]).asOf
          /\ f.value = worker[w].result[1].value
      BY <3>1 DEF FeatureOf
    <3>3. worker[w].pc = "save" /\ InHand(worker[w])
      BY <2>1 DEF SaveFeature, Assured
    <3> QED
      BY <2>1, <3>2, <3>3 DEF InHand
  <2> QED
    BY <2>1, FeaturesChange DEF Assured
<1>3. \A w \in Workers : InHand(worker[w])'
  BY InHandStep
<1> QED
  BY <1>1, <1>2, <1>3 DEF Assured

LEMMA InitAssured == Init => Assured
BY IdleFields DEF Init, Assured, InHand

(* A score of 100 is replaced by a score of 100 only.                      *)
LEMMA NotCleared ==
  ASSUME Assured, [Next]_vars, NEW f \in features,
         f.name = "honeypot_detected_score", f.value = 100
  PROVE  \E g \in features' : g.name = f.name /\ g.asOf = f.asOf /\ g.value = 100
<1>1. CASE features' = features
  BY <1>1
<1>2. ASSUME NEW w \in Workers, SaveFeature(w)
      PROVE  \E g \in features' : g.name = f.name /\ g.asOf = f.asOf /\ g.value = 100
  <2> DEFINE task == Task(worker[w])
             new == FeatureOf(task, worker[w].result[1])
  <2>1. CASE ~SameFeature(f, task)
    BY <1>2, <2>1 DEF SaveFeature, SavedFeatures
  <2>2. CASE SameFeature(f, task)
    <3>1. worker[w].pc = "save" /\ InHand(worker[w])
      BY <1>2 DEF SaveFeature, Assured
    <3>2. task.name = "honeypot_detected_score"
      BY <2>2 DEF SameFeature
    <3>3. worker[w].result[1].value = 100
      BY <2>2, <3>1, <3>2 DEF InHand
    <3>4. new \in features'
      BY <1>2 DEF SaveFeature, SavedFeatures
    <3>5. new.name = f.name /\ new.asOf = f.asOf /\ new.value = 100
      BY <2>2, <3>3 DEF SameFeature, FeatureOf
    <3> HIDE DEF new
    <3> QED
      BY <3>4, <3>5
  <2> QED
    BY <2>1, <2>2
<1> QED
  BY <1>1, <1>2, FeaturesChange

-----------------------------------------------------------------------------
(* What is known of every reachable state.                                 *)
ResearchInv ==
  /\ Sourced /\ TablesOK /\ Dated /\ Apart
  /\ NothingMissed /\ NothingIgnored /\ Scored /\ Refreshing /\ Assured

THEOREM ResearchInvHolds == Spec => []ResearchInv
<1>1. Init => ResearchInv
  <2>1. Init => TablesOK
    BY ResearchAssumption DEF Init, TablesOK, Times
  <2>2. Init => Scored
    BY DEF Init, NoRank, Scored
  <2> QED
    BY <2>1, <2>2, InitSourced, InitDated, InitApart, InitNothingMissed, InitNothingIgnored,
       InitRefreshing, InitAssured
    DEF ResearchInv
<1>2. ResearchInv /\ [Next]_vars => ResearchInv'
  BY SourcedStep, TablesOKStep, DatedStep, ApartStep, NothingMissedStep, NothingIgnoredStep,
     ScoredStep, RefreshingStep, AssuredStep
  DEF ResearchInv
<1> QED
  BY <1>1, <1>2, PTL DEF Spec

(* A row of the dataset lacks no feature that was known when the build     *)
(* began, and has none that is older (list_latest_features).               *)
THEOREM DatasetMissesNothing == Spec => []RowsMissNothing
<1>1. ResearchInv => RowsMissNothing
  BY DEF ResearchInv, NothingMissed, RowsMissNothing, Serves
<1> QED
  BY <1>1, ResearchInvHolds, PTL

(* What was known of a time when its ranking was asked for is in it: the   *)
(* newest features of then or newer ones, none of after, and a honeypot    *)
(* (compute_ranking, _signals).                                            *)
THEOREM RankingsCountTheKnown == Spec => []RankingMissesNothing
<1>1. ResearchInv => RankingMissesNothing
  BY DEF ResearchInv, NothingIgnored, Heeded, Scored, RankingMissesNothing
<1> QED
  BY <1>1, ResearchInvHolds, PTL

(* A run to whose end no table changed leaves every feature of its times   *)
(* as the rules give it (save_feature).                                    *)
THEOREM RerunsRefresh == Spec => []RerunRefreshes
<1>1. ASSUME ResearchInv
      PROVE  RerunRefreshes
  <2> SUFFICES ASSUME NEW w \in Workers, worker[w].pc = "over", worker[w].quiet,
                      NEW f \in features, f.asOf \in worker[w].times
               PROVE  Given(f) = {} \/ [value |-> f.value, inputs |-> f.inputs] \in Given(f)
    BY DEF RerunRefreshes, Given
  <2>1. worker[w].todo = {}
    BY <1>1 DEF ResearchInv, Dated, TimesOf
  <2>2. Done(worker[w], f)
    BY <2>1 DEF Done
  <2> QED
    BY <1>1, <2>2 DEF ResearchInv, Refreshing, Refreshed, Matches
<1> QED
  BY <1>1, ResearchInvHolds, PTL

(* A pair that was a honeypot at some time is not cleared of it when the   *)
(* feature is computed again (compute_honeypot_detected_score).            *)
THEOREM HoneypotsStayFlagged == Spec => RiskNeverCleared
<1> DEFINE Keeps == \A f \in features : f.name = "honeypot_detected_score" /\ f.value = 100 =>
                      \E g \in features' : g.name = f.name /\ g.asOf = f.asOf /\ g.value = 100
<1>1. ResearchInv /\ [Next]_vars => Keeps
  BY NotCleared DEF ResearchInv
<1>2. ResearchInv /\ [Next]_vars => [Keeps]_vars
  BY <1>1
<1> QED
  BY <1>2, ResearchInvHolds, PTL DEF Spec, RiskNeverCleared
=============================================================================
