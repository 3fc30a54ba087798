------------------------------ MODULE MCResearch ------------------------------
(* One pair, of which the script wrote a snapshot of a time to come.         *)
EXTENDS Research

Backfilled(at, reserve, usd) ==
  [at |-> at, source |-> "post_process", reserve |-> reserve, usd |-> usd]
BarAt(at, close, volume) == [at |-> at, close |-> close, volume |-> volume]

MCOldSnapshots == {Backfilled(6, 1, 1)}
MCOldBars == {BarAt(0, 1, 1), BarAt(2, 2, 1), BarAt(4, 1, 1)}
MCReadings == {[reserve |-> 0, usd |-> Unpriced]}
MCBackfills == {Backfilled(2, 1, 2)}
MCBars == {BarAt(4, 2, 2)}
MCLabels ==
  {[type |-> "RUG_PULL", at |-> 4, value |-> TRUE],
   [type |-> "SUCCESSFUL_LAUNCH", at |-> 4, value |-> TRUE]}
MCPrices == {1}
MCInsightTypes == {"HoneypotDetected", "HighSellTax"}
=============================================================================
