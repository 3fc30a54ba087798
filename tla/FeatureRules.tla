----------------------------- MODULE FeatureRules -----------------------------
(***************************************************************************)
(* The five features of a pair (analytics/feature_engine.py) and the score *)
(* a ranking gives it (strategy/ranking.py), as functions of the rows they *)
(* read.  A feature rule gives the set of results it may have: none, when  *)
(* it has too little data, and several, when rows of one time come in any  *)
(* order.  Amounts are small integers, and of a z-score only its sign is   *)
(* kept, as a value at the cap of the ranking.                             *)
(***************************************************************************)
EXTENDS Integers, Sequences, FiniteSetsExt

CONSTANTS
  Second,  \* ticks of the epsilon added to as_of
  Hour     \* ticks of the window of a feature

Unpriced == -1

FeatureOrder ==
  <<"liquidity_growth_pct_1h", "price_momentum_zscore_1h", "volume_quote_delta_1h",
    "honeypot_detected_score", "liquidity_usd_delta_1h">>
FeatureNames == {FeatureOrder[i] : i \in DOMAIN FeatureOrder}

\* What names a row in the inputs of a feature.
SnapshotId(s) == <<s.at, s.source>>
BarId(b) == <<b.at, "bar">>
InsightId(i) == <<i.at, i.type>>

\* list_snapshots and list_bars, from a time to a second after as_of.
Window(rows, from, asOf) == {r \in rows : from <= r.at /\ r.at < asOf + Second}

\* The orders in which rows sorted by their time may come.
Sorted(rows) ==
  {q \in [1..Cardinality(rows) -> rows] :
     \A i, j \in DOMAIN q : i < j => q[i] # q[j] /\ q[i].at <= q[j].at}

SnapshotIds(q) == [i \in DOMAIN q |-> SnapshotId(q[i])]
BarIds(q) == [i \in DOMAIN q |-> BarId(q[i])]
Sign(n) == IF n > 0 THEN 1 ELSE IF n < 0 THEN -1 ELSE 0
-----------------------------------------------------------------------------
Growth(oldest, latest) == (100 * (latest - oldest)) \div oldest

\* From the oldest to the latest reserve0 of the last hour, in percent.
LiquidityGrowth(snapshots, asOf) ==
  {[value |-> Growth(q[1].reserve, q[Len(q)].reserve), inputs |-> SnapshotIds(q)] :
     q \in {s \in Sorted(Window(snapshots, asOf - Hour, asOf)) : Len(s) >= 2 /\ s[1].reserve # 0}}

\* The latest return against the mean of the returns.
Deviation(q) ==
  LET Return(i) == q[i + 1].close - q[i].close
      returns == 1..(Len(q) - 1)
  IN  Cardinality(returns) * Return(Len(q) - 1) - MapThenSumSet(Return, returns)

\* Two bars have one return, and that is not enough.
PriceMomentum(bars, asOf) ==
  {[value |-> 3 * Sign(Deviation(q)), inputs |-> BarIds(q)] :
     q \in {b \in Sorted(Window(bars, asOf - Hour, asOf)) : Len(b) >= 3}}

\* The volume from a time on less that before it.
Surplus(rows, from) ==
  MapThenSumSet(LAMBDA b : IF b.at >= from THEN b.volume ELSE 0 - b.volume, rows)

\* The volume of the last hour less that of the hour before.
VolumeDelta(bars, asOf) ==
  LET rows == Window(bars, asOf - 2 * Hour, asOf)
  IN  {[value |-> Surplus(rows, asOf - Hour), inputs |-> BarIds(q)] :
         q \in {b \in Sorted(rows) : b # <<>>}}

\* Not the code: the newest insight whatever its time.
LatestInsightEver(insights, types, asOf) ==
  {i \in insights : i.type \in types /\ \A j \in insights : j.type \in types => j.at <= i.at}

\* get_latest_insight_as_of, of a type or of any.
LatestInsight(insights, types, asOf) ==
  LET known == {i \in insights : i.type \in types /\ i.at <= asOf}
  IN  {i \in known : \A j \in known : j.at <= i.at}

InsightScore(value, i) == [value |-> value, inputs |-> <<InsightId(i)>>]

\* Not the code: the newest insight decides.
NewestIsHoneypot(insights, asOf) ==
  {InsightScore(100, i) :
     i \in {j \in LatestInsight(insights, {k.type : k \in insights}, asOf) : j.type = "HoneypotDetected"}}

\* 100 once a honeypot was detected; if not, a second query.
HoneypotDetected(insights, asOf) ==
  {InsightScore(100, i) : i \in LatestInsight(insights, {"HoneypotDetected"}, asOf)}

\* 0 for a pair of which there is any insight, and none for the others.
Assessed(insights, asOf) ==
  {InsightScore(0, i) : i \in LatestInsight(insights, {j.type : j \in insights}, asOf)}

\* The last priced snapshot of this hour less that of the hour before.
UsdDelta(snapshots, asOf) ==
  LET priced == {s \in Window(snapshots, asOf - 2 * Hour, asOf) : s.usd # Unpriced}
      Last(half) == {s \in half : \A r \in half : r.at <= s.at}
      current == Last({s \in priced : s.at >= asOf - Hour})
      previous == Last({s \in priced : s.at < asOf - Hour})
  IN  {[value |-> c.usd - p.usd, inputs |-> <<SnapshotId(c), SnapshotId(p)>>] :
         c \in current, p \in previous}
-----------------------------------------------------------------------------
(* The score of a ranking, in hundredths.                                  *)

HoneypotPenalty == 50
RugPullPenalty == 40
LaunchBoost == 15

\* LIQUIDITY_GROWTH_CAP is 1, and the feature is in percent: one percent is as
\* good as a hundred.
NormalizedGrowth(value) == IF value = 0 THEN 0 ELSE 100
NormalizedMomentum(value) == IF value > 0 THEN 100 ELSE IF value = 0 THEN 50 ELSE 0

\* The features that have a weight.
Weighted == {"liquidity_growth_pct_1h", "price_momentum_zscore_1h"}

Contribution(name, value) ==
  IF name = "liquidity_growth_pct_1h" THEN (35 * NormalizedGrowth(value)) \div 100
  ELSE IF name = "price_momentum_zscore_1h" THEN (30 * NormalizedMomentum(value)) \div 100
  ELSE 0
=============================================================================
