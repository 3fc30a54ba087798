------------------------------- MODULE Research -------------------------------
(***************************************************************************)
(* What is made of the tables of one pair: features, by an hourly job for  *)
(* the present and by a script for the time of every snapshot; a training  *)
(* dataset, which joins features and labels; and the pair's place in a     *)
(* ranking.  Snapshots, bars, insights and labels are written meanwhile by *)
(* the snapshot job, the intelligence scan and scripts.  Every query and   *)
(* every commit is a step.                                                 *)
(*                                                                         *)
(* Scripts compute with the times of blocks, which are whole seconds: even *)
(* ticks.  Readings of the clock are odd, and no two are the same.         *)
(***************************************************************************)
EXTENDS FeatureRules

CONSTANTS
  OldSnapshots,  \* snapshots and bars there are at the beginning
  OldBars,
  Readings,      \* what the snapshot job may read: a reserve and its price
  Backfills,     \* snapshots, bars and labels the scripts may write, and the
                 \* prices they may find for snapshots that have none
  Bars,
  Labels,
  Prices,
  InsightTypes,  \* the types of insights, "HoneypotDetected" among them
  AskedTimes,    \* times rankings are asked for
  StartTime,     \* the first reading of the clock
  MaxTime,       \* bound: the clock stops here
  MaxWrites,     \* bound: rows written by others
  MaxRuns,       \* bound: runs of the job and the script
  MaxReads       \* bound: datasets and rankings asked for

Times == 0..MaxTime
Price == Nat \cup {Unpriced}
Snapshot == [at : Times, source : {"live", "post_process"}, reserve : Nat, usd : Price]
Bar == [at : Times, close : Nat, volume : Nat]
Label == [type : {"RUG_PULL", "SUCCESSFUL_LAUNCH"}, at : Times, value : BOOLEAN]

ASSUME ResearchAssumption ==
  /\ {Second, Hour, MaxTime, MaxWrites, MaxRuns, MaxReads} \subseteq Nat
  /\ StartTime \in Times /\ StartTime % 2 = 1
  /\ OldSnapshots \cup Backfills \subseteq {s \in Snapshot : s.source = "post_process"}
  /\ Readings \subseteq [reserve : Nat, usd : Price]
  /\ OldBars \cup Bars \subseteq Bar
  /\ Labels \subseteq Label
  /\ Prices \subseteq Nat
  /\ IsFiniteSet(OldSnapshots) /\ IsFiniteSet(OldBars)
  /\ \A r, s \in OldSnapshots : SnapshotId(r) = SnapshotId(s) => r = s
  /\ \A a, b \in OldBars : a.at = b.at => a = b
  /\ \A r \in OldSnapshots \cup Backfills \cup OldBars \cup Bars \cup Labels : r.at % 2 = 0

VARIABLES
  now,        \* the next reading of the clock
  snapshots,  \* table observation_snapshots
  bars,       \* table market_bars
  insights,   \* table insights
  labels,     \* table outcomes, of one type and window, and RUG_PULL's
  features,   \* table features
  scan,       \* when the last scan began, or Idle
  shot,       \* when the snapshot job began that has yet to reach the pair, or Idle
  worker,     \* the job and the script
  runs,       \* how often the job and the script were run
  writes,     \* rows written by others
  build,      \* the dataset
  rank,       \* the ranking
  reads       \* datasets and rankings asked for

tables == <<snapshots, bars, insights, labels>>
dates == <<scan, shot>>
vars == <<now, tables, features, dates, worker, runs, writes, build, rank, reads>>

Idle == -1
Workers == {"job", "script"}
IdleWorker ==
  [pc |-> "idle", times |-> {}, todo |-> {}, rule |-> 1, result |-> <<>>, quiet |-> FALSE]
-----------------------------------------------------------------------------
(* The writers.                                                            *)

\* save_snapshot: ON CONFLICT DO UPDATE.
SaveSnapshot(s) == {r \in snapshots : SnapshotId(r) # SnapshotId(s)} \cup {s}

\* The bound on rows; no row is begun that could not be written.
MoreRows == writes < MaxWrites

\* A table changes; "quiet" is auxiliary.
Others ==
  /\ MoreRows
  /\ writes' = writes + 1
  /\ worker' = [w \in Workers |-> [worker[w] EXCEPT !.quiet = FALSE]]
  /\ UNCHANGED <<features, runs, build, rank, reads>>

ClockRead == now < MaxTime /\ now' = now + 2

\* The snapshot job reads the clock; another run of it ends before.
StartSnapshots ==
  /\ MoreRows
  /\ ClockRead
  /\ shot' = now
  /\ UNCHANGED <<tables, features, scan, worker, runs, writes, build, rank, reads>>

\* It reaches the pair, after those before and after the price was asked for.
TakeSnapshot ==
  /\ shot # Idle
  /\ shot' = Idle
  /\ \E r \in Readings :
       snapshots' = SaveSnapshot([at |-> shot, source |-> "live", reserve |-> r.reserve, usd |-> r.usd])
  /\ Others
  /\ UNCHANGED <<now, bars, insights, labels, scan>>

\* A script finds the price of a snapshot that has none.
PriceSnapshot ==
  /\ \E s \in {r \in snapshots : r.usd = Unpriced}, usd \in Prices :
       snapshots' = SaveSnapshot([s EXCEPT !.usd = usd])
  /\ Others
  /\ UNCHANGED <<now, bars, insights, labels, dates>>

\* The script's snapshots, replayed from the facts there are now.
BackfillSnapshot ==
  /\ \E s \in Backfills : snapshots' = SaveSnapshot(s)
  /\ Others
  /\ UNCHANGED <<now, bars, insights, labels, dates>>

\* save_bar replaces the bar.
SaveBar ==
  /\ \E bar \in Bars : bars' = {b \in bars : b.at # bar.at} \cup {bar}
  /\ Others
  /\ UNCHANGED <<now, snapshots, insights, labels, dates>>

\* Insights are dated when their scan began.
StartScan ==
  /\ MoreRows
  /\ ClockRead
  /\ scan' = now
  /\ UNCHANGED <<shot, tables, features, worker, runs, writes, build, rank, reads>>

SaveInsight ==
  /\ scan # Idle
  /\ \E type \in InsightTypes : insights' = insights \cup {[type |-> type, at |-> scan]}
  /\ Others
  /\ UNCHANGED <<now, snapshots, bars, labels, dates>>

\* Labels are evaluated at the end of their window and never change.
SaveLabel ==
  /\ \E label \in Labels :
       /\ label.at < now
       /\ \A l \in labels : l.at # label.at \/ l.type # label.type
       /\ labels' = labels \cup {label}
  /\ Others
  /\ UNCHANGED <<now, snapshots, bars, insights, dates>>
-----------------------------------------------------------------------------
(* The job and the script.                                                 *)

Started(times) ==
  [IdleWorker EXCEPT !.pc = "compute", !.times = times, !.todo = times, !.quiet = TRUE]

\* _compute_features, once an hour.
StartJob ==
  /\ worker["job"].pc \in {"idle", "over"}
  /\ runs < MaxRuns
  /\ runs' = runs + 1
  /\ ClockRead
  /\ worker' = [worker EXCEPT !["job"] = Started({now})]
  /\ UNCHANGED <<tables, features, dates, writes, build, rank, reads>>

\* compute_features of the script: every time there is a snapshot of, or, if
\* there is none, the clock's.
StartScript ==
  /\ worker["script"].pc \in {"idle", "over"}
  /\ runs < MaxRuns
  /\ runs' = runs + 1
  /\ LET anchors == {s.at : s \in snapshots}
     IN  /\ IF anchors = {} THEN ClockRead ELSE UNCHANGED now
         /\ worker' = [worker EXCEPT !["script"] =
                         Started(IF anchors = {} THEN {now} ELSE anchors)]
  /\ UNCHANGED <<tables, features, dates, writes, build, rank, reads>>

\* Every rule at the earliest time, then at the next.
Task(w) == [asOf |-> Min(w.todo), name |-> FeatureOrder[w.rule]]

\* The result of a feature rule on the tables of the moment.
Results(task) ==
  CASE task.name = "liquidity_growth_pct_1h" -> LiquidityGrowth(snapshots, task.asOf)
    [] task.name = "price_momentum_zscore_1h" -> PriceMomentum(bars, task.asOf)
    [] task.name = "volume_quote_delta_1h" -> VolumeDelta(bars, task.asOf)
    [] task.name = "honeypot_detected_score" -> HoneypotDetected(insights, task.asOf)
    [] task.name = "liquidity_usd_delta_1h" -> UsdDelta(snapshots, task.asOf)

NextTask(w) ==
  IF w.rule < Len(FeatureOrder)
    THEN [w EXCEPT !.pc = "compute", !.rule = @ + 1, !.result = <<>>]
    ELSE [w EXCEPT !.pc = IF w.todo = {Min(w.todo)} THEN "over" ELSE "compute",
                   !.rule = 1, !.todo = @ \ {Min(@)}, !.result = <<>>]

\* A result is kept to be saved, and the next rule follows one without a result.
Continue(w, results) ==
  worker' \in
    IF results = {} THEN {[worker EXCEPT ![w] = NextTask(@)]}
    ELSE {[worker EXCEPT ![w].pc = "save", ![w].result = <<r>>] : r \in results}

Compute(w) ==
  /\ worker[w].pc = "compute"
  /\ LET task == Task(worker[w])
     IN  IF task.name = "honeypot_detected_score" /\ Results(task) = {}
           THEN worker' = [worker EXCEPT ![w].pc = "assess"]
           ELSE Continue(w, Results(task))
  /\ UNCHANGED <<now, tables, features, dates, runs, writes, build, rank, reads>>

\* The second query of compute_honeypot_detected_score.
Assess(w) ==
  /\ worker[w].pc = "assess"
  /\ Continue(w, Assessed(insights, Task(worker[w]).asOf))
  /\ UNCHANGED <<now, tables, features, dates, runs, writes, build, rank, reads>>

SameFeature(f, task) == f.name = task.name /\ f.asOf = task.asOf
FeatureOf(task, result) ==
  [name |-> task.name, asOf |-> task.asOf, value |-> result.value, inputs |-> result.inputs]

\* Not the code: a feature that is there stays as it is.
KeptFeatures(task, result) ==
  IF \E f \in features : SameFeature(f, task) THEN features
  ELSE features \cup {FeatureOf(task, result)}

\* save_feature replaces the feature of the same name and time.
SavedFeatures(task, result) ==
  {f \in features : ~SameFeature(f, task)} \cup {FeatureOf(task, result)}

SaveFeature(w) ==
  /\ worker[w].pc = "save"
  /\ features' = SavedFeatures(Task(worker[w]), worker[w].result[1])
  /\ worker' = [worker EXCEPT ![w] = NextTask(@)]
  /\ UNCHANGED <<now, tables, dates, runs, writes, build, rank, reads>>

\* An exception, or the process is stopped.
Interrupt(w) ==
  /\ worker[w].pc \in {"compute", "assess", "save"}
  /\ worker' = [worker EXCEPT ![w] = IdleWorker]
  /\ UNCHANGED <<now, tables, features, dates, runs, writes, build, rank, reads>>
-----------------------------------------------------------------------------
(* The training dataset: the labels of one type, each with the newest      *)
(* feature of every name at its evaluation.                                *)

NoBuild == [pc |-> "idle", labels |-> {}, names |-> {}, row |-> {}, rows |-> {}, known |-> {}]

\* Not the code: the newest feature whatever its time.
NewestFeature(name, asOf) ==
  LET named == {f \in features : f.name = name}
  IN  {f \in named : \A g \in named : g.asOf <= f.asOf}

\* Not the code: the order is not reversed.
OldestFeature(name, asOf) ==
  LET named == {f \in features : f.name = name /\ f.asOf <= asOf}
  IN  {f \in named : \A g \in named : f.asOf <= g.asOf}

\* get_feature_at.
FeatureAt(name, asOf) ==
  LET named == {f \in features : f.name = name /\ f.asOf <= asOf}
  IN  {f \in named : \A g \in named : g.asOf <= f.asOf}

\* list_outcomes_for_entity; "known" is auxiliary.
StartBuild ==
  /\ build.pc \in {"idle", "over"}
  /\ reads < MaxReads
  /\ reads' = reads + 1
  /\ build' = [NoBuild EXCEPT !.pc = "outcome", !.known = features,
                 !.labels = {l \in labels : l.type = "RUG_PULL"}]
  /\ UNCHANGED <<now, tables, features, dates, worker, runs, writes, rank>>

\* The next label: list_feature_names.
ReadNames ==
  /\ build.pc = "outcome"
  /\ build.labels # {}
  /\ build' = [build EXCEPT !.pc = "features", !.names = {f.name : f \in features}, !.row = {}]
  /\ UNCHANGED <<now, tables, features, dates, worker, runs, writes, rank, reads>>

Evaluated == CHOOSE l \in build.labels : \A m \in build.labels : l.at <= m.at

ReadFeature ==
  /\ build.pc = "features"
  /\ \E name \in build.names :
       build' = [build EXCEPT !.names = @ \ {name},
                              !.row = @ \cup FeatureAt(name, Evaluated.at)]
  /\ UNCHANGED <<now, tables, features, dates, worker, runs, writes, rank, reads>>

AddRow ==
  /\ build.pc = "features"
  /\ build.names = {}
  /\ build' = [build EXCEPT !.pc = "outcome", !.labels = @ \ {Evaluated},
                            !.rows = @ \cup {[at |-> Evaluated.at, features |-> build.row]}]
  /\ UNCHANGED <<now, tables, features, dates, worker, runs, writes, rank, reads>>

\* assert_zero_leakage.
Leaks(row) == \E f \in row.features : ~(f.asOf <= row.at)

EndBuild ==
  /\ build.pc = "outcome"
  /\ build.labels = {}
  /\ build' = [build EXCEPT !.pc = IF \E r \in build.rows : Leaks(r) THEN "failed" ELSE "over"]
  /\ UNCHANGED <<now, tables, features, dates, worker, runs, writes, rank, reads>>
-----------------------------------------------------------------------------
(* The pair's score in a ranking.                                          *)

\* "known" and "warned" are auxiliary: features and a honeypot that are known
\* when the ranking is asked for.
NoRank ==
  [pc |-> "idle", asOf |-> 0, names |-> {}, read |-> {}, score |-> 0,
   known |-> {}, warned |-> FALSE]

\* The time may be any.
AskRanking ==
  /\ rank.pc \in {"idle", "out", "over"}
  /\ reads < MaxReads
  /\ reads' = reads + 1
  /\ \E asOf \in AskedTimes :
       rank' = [NoRank EXCEPT !.pc = "names", !.asOf = asOf,
                  !.known = {f \in features : f.name \in Weighted /\ f.asOf <= asOf},
                  !.warned = \E i \in insights : i.type = "HoneypotDetected" /\ i.at <= asOf]
  /\ UNCHANGED <<now, tables, features, dates, worker, runs, writes, build>>

\* list_feature_names.  Features without a weight are read too, and dropped.
ReadFactorNames ==
  /\ rank.pc = "names"
  /\ rank' = [rank EXCEPT !.pc = "factors", !.names = {f.name : f \in features} \cap Weighted]
  /\ UNCHANGED <<now, tables, features, dates, worker, runs, writes, build, reads>>

ReadFactor ==
  /\ rank.pc = "factors"
  /\ \E name \in rank.names :
       rank' = [rank EXCEPT !.names = @ \ {name}, !.read = @ \cup FeatureAt(name, rank.asOf)]
  /\ UNCHANGED <<now, tables, features, dates, worker, runs, writes, build, reads>>

\* A factor of the score; a pair without the feature lacks it.
Factor(name) ==
  IF \E f \in rank.read : f.name = name
    THEN Contribution(name, (CHOOSE f \in rank.read : f.name = name).value)
    ELSE 0

Base == Factor("liquidity_growth_pct_1h") + Factor("price_momentum_zscore_1h")

\* _rank_one_pair: a pair without any factor is no candidate.
AddFactors ==
  /\ rank.pc = "factors"
  /\ rank.names = {}
  /\ rank' = IF rank.read = {} THEN [rank EXCEPT !.pc = "out"]
             ELSE [rank EXCEPT !.pc = "honeypot", !.score = Base]
  /\ UNCHANGED <<now, tables, features, dates, worker, runs, writes, build, reads>>

\* Not the code: the newest insight decides, whatever its type.
NewestIsWarning(i) ==
  i.type = "HoneypotDetected" /\ \A j \in insights \ {i} : j.at < i.at

\* get_latest_insight: of one type, and of any time.
IsWarning(i) == i.type = "HoneypotDetected"

ReadHoneypot ==
  /\ rank.pc = "honeypot"
  /\ rank' = [rank EXCEPT !.pc = "launch",
                !.score = IF \E i \in insights : IsWarning(i) THEN @ - HoneypotPenalty ELSE @]
  /\ UNCHANGED <<now, tables, features, dates, worker, runs, writes, build, reads>>

\* get_latest_outcome: whether the newest label of the type is true.
LatestLabel(type) ==
  \E l \in labels : /\ l.type = type /\ l.value
                    /\ \A m \in labels : m.type = type => m.at <= l.at

ReadLaunch ==
  /\ rank.pc = "launch"
  /\ rank' = [rank EXCEPT !.pc = "rug",
                !.score = IF LatestLabel("SUCCESSFUL_LAUNCH") THEN @ + LaunchBoost ELSE @]
  /\ UNCHANGED <<now, tables, features, dates, worker, runs, writes, build, reads>>

ReadRug ==
  /\ rank.pc = "rug"
  /\ rank' = [rank EXCEPT !.pc = "over",
                !.score = IF LatestLabel("RUG_PULL") THEN @ - RugPullPenalty ELSE @]
  /\ UNCHANGED <<now, tables, features, dates, worker, runs, writes, build, reads>>
-----------------------------------------------------------------------------
Init ==
  /\ now = StartTime
  /\ snapshots = OldSnapshots /\ bars = OldBars /\ insights = {} /\ labels = {} /\ features = {}
  /\ scan = Idle /\ shot = Idle
  /\ worker = [w \in Workers |-> IdleWorker]
  /\ runs = 0 /\ writes = 0 /\ reads = 0
  /\ build = NoBuild /\ rank = NoRank

Write ==
  \/ StartSnapshots \/ TakeSnapshot \/ PriceSnapshot \/ BackfillSnapshot \/ SaveBar
  \/ StartScan \/ SaveInsight \/ SaveLabel

Work ==
  \/ StartJob \/ StartScript
  \/ \E w \in Workers : Compute(w) \/ Assess(w) \/ SaveFeature(w) \/ Interrupt(w)

Read ==
  \/ StartBuild \/ ReadNames \/ ReadFeature \/ AddRow \/ EndBuild
  \/ AskRanking \/ ReadFactorNames \/ ReadFactor \/ AddFactors \/ ReadHoneypot \/ ReadLaunch \/ ReadRug

Next == Write \/ Work \/ Read

Spec == Init /\ [][Next]_vars
-----------------------------------------------------------------------------
(* Properties.                                                             *)

Insight == [type : InsightTypes, at : Times]

\* Every variable has its type, and no table holds two rows of one key.
TypeOK ==
  /\ now \in StartTime..(MaxTime + 1)
  /\ snapshots \subseteq Snapshot /\ bars \subseteq Bar
  /\ insights \subseteq Insight /\ labels \subseteq Label
  /\ \A r, s \in snapshots : SnapshotId(r) = SnapshotId(s) => r = s
  /\ \A a, b \in bars : a.at = b.at => a = b
  /\ \A l, m \in labels : l.at = m.at /\ l.type = m.type => l = m
  /\ \A f, g \in features : SameFeature(f, g) => f = g
  /\ {scan, shot} \subseteq Times \cup {Idle}
  /\ \A w \in Workers :
       /\ worker[w].pc \in {"idle", "compute", "assess", "save", "over"}
       /\ worker[w].rule \in DOMAIN FeatureOrder
  /\ build.pc \in {"idle", "outcome", "features", "over", "failed"}
  /\ rank.pc \in {"idle", "names", "factors", "out", "honeypot", "launch", "rug", "over"}

RowIds ==
  {SnapshotId(s) : s \in snapshots} \cup {BarId(b) : b \in bars} \cup {InsightId(n) : n \in insights}

\* A feature names rows that exist, none of a time after its own, up to the
\* second that the window adds to it; a score of 100 names a honeypot.
IsTraceable(f) ==
  /\ f.inputs # <<>>
  /\ \A i \in DOMAIN f.inputs : f.inputs[i] \in RowIds
  /\ IF f.name = "honeypot_detected_score"
       THEN /\ f.inputs[1][1] <= f.asOf
            /\ f.value = 100 => f.inputs[1][2] = "HoneypotDetected"
       ELSE \A i \in DOMAIN f.inputs : f.inputs[i][1] < f.asOf + Second

\* Features never see data of after their time, and what a feature names stays
\* there whatever is written since ("every Feature must have a non-empty inputs
\* list", "features never see data after their as_of").
Traceable == \A f \in features : IsTraceable(f)

\* A run of the job or of the script to whose end no table changed leaves every
\* feature of its times as the rules give it, whatever late rows and interrupted
\* runs came before ("Idempotent re-computation", save_feature).  A feature stays
\* whose rule gives nothing any more: nothing deletes it.
RerunRefreshes ==
  \A w \in Workers : worker[w].pc = "over" /\ worker[w].quiet =>
    \A f \in features : f.asOf \in worker[w].times =>
      LET scores == Results(f)
          results == IF f.name = "honeypot_detected_score" /\ scores = {}
                       THEN Assessed(insights, f.asOf) ELSE scores
      IN  results = {} \/ [value |-> f.value, inputs |-> f.inputs] \in results

\* A pair that was a honeypot at some time is not cleared of it when the feature
\* of that time is computed again, whatever newer scans and runs find
\* (compute_honeypot_detected_score).
RiskNeverCleared ==
  [][\A f \in features : f.name = "honeypot_detected_score" /\ f.value = 100 =>
       \E g \in features' : g.name = f.name /\ g.asOf = f.asOf /\ g.value = 100]_vars

\* The validation of the dataset never fails, whatever is written while it is
\* built (assert_zero_leakage).
ZeroLeakage == build.pc # "failed"

\* A row has no feature that is older than one that was known when the build
\* began and could have been used, and lacks none (list_latest_features).
RowsMissNothing ==
  \A row \in build.rows : \A f \in build.known :
    f.asOf <= row.at => \E g \in row.features : g.name = f.name /\ f.asOf <= g.asOf

\* What was known of a time when its ranking was asked for is in the ranking:
\* features of then or newer ones, none of after it, and a honeypot, which ranks
\* the pair lower than its features alone would.  Nothing of after the time is
\* asked to count, although insights do (compute_ranking, _signals).
RankingMissesNothing ==
  /\ rank.pc \in {"out", "over"} =>
       \A f \in rank.known :
         \E g \in rank.read : g.name = f.name /\ f.asOf <= g.asOf /\ g.asOf <= rank.asOf
  /\ rank.pc = "over" /\ rank.warned => rank.score <= Base - HoneypotPenalty + LaunchBoost
=============================================================================
