---------------------------- MODULE OutcomeRules ----------------------------
(***************************************************************************)
(* The labelling rules of analytics/outcome_rules.py as predicates over    *)
(* what one evaluation read: how many snapshots, the liquidity depth       *)
(* (reserve0 * reserve1) of the earliest, the latest and the deepest of    *)
(* them, the trades of the bars, and whether a honeypot insight exists.    *)
(* Thresholds are records, one for each observation window; fractions are  *)
(* percentages, so that every comparison is one of integers.               *)
(***************************************************************************)
EXTENDS Integers

Types == {"RUG_PULL", "SUCCESSFUL_LAUNCH", "DEAD_TOKEN"}

\* The insight table holds no insight of type HoneypotDetected.
Never == -1

ThresholdConfig ==
  [drop : 0..100, retention : 0..100, trades : Nat, dead : Nat]

Evidence ==
  [rows : Nat, early : Nat, late : Nat, peak : Nat, trades : Nat,
   honeypot : Nat \cup {Never}]

\* Depths that can be those of one list of snapshots.
WellRead(e) ==
  /\ e \in Evidence
  /\ e.early <= e.peak
  /\ e.late <= e.peak

IsHoneypot(e) == e.honeypot # Never

\* A drop is measured between two snapshots, and never from zero depth.
Dropped(e, th) ==
  /\ e.rows >= 2
  /\ e.early # 0
  /\ (e.early - e.late) * 100 > th.drop * e.early

RugPull(e, th) == IsHoneypot(e) \/ Dropped(e, th)

\* Not the code: the liquidity retained is taken from the first snapshot.
EarlySuccess(e, th) ==
  /\ ~IsHoneypot(e)
  /\ e.trades >= th.trades
  /\ e.rows > 0
  /\ e.peak # 0
  /\ e.early * 100 >= th.retention * e.peak

SuccessfulLaunch(e, th) ==
  /\ ~IsHoneypot(e)
  /\ e.trades >= th.trades
  /\ e.rows > 0
  /\ e.peak # 0
  /\ e.late * 100 >= th.retention * e.peak

DeadToken(e, th) ==
  \/ e.trades <= th.dead
  \/ e.rows > 0 /\ e.late = 0

EvaluateForType(type, e, th) ==
  CASE type = "RUG_PULL" -> RugPull(e, th)
    [] type = "SUCCESSFUL_LAUNCH" -> SuccessfulLaunch(e, th)
    [] type = "DEAD_TOKEN" -> DeadToken(e, th)

\* Thresholds under which a successful launch excludes the other two labels.
\* Both configurations of WINDOW_THRESHOLDS satisfy it: 90 + 70 and 70 + 50.
Coherent(th) ==
  /\ th \in ThresholdConfig
  /\ th.drop + th.retention >= 100
  /\ th.retention > 0
  /\ th.dead < th.trades
=============================================================================
