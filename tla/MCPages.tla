------------------------------- MODULE MCPages -------------------------------
(* Four rows whose times are in another order than their identities.  Two   *)
(* snapshots of different sources have the same time, and so have two       *)
(* insights of one scan.                                                     *)
EXTENDS Pages

Row(id, time) == [id |-> id, time |-> time]
MCRows == {Row(1, 3), Row(2, 1), Row(3, 4), Row(4, 2)}

MCListings ==
  {ListPairs, ListFactsForPair, ListFactsForWallet, ListBars, ListSnapshots, ListOutcomes,
   ListInsights, PairsOfJob, MissingLiquidity}
MCTable ==
  [name \in {l.name : l \in Listings} |->
     IF name \in {"snapshots", "insights"}
       THEN {Row(1, 2), Row(2, 1), Row(3, 2), Row(4, 3)}
       ELSE MCRows]

MCBackfill == {MissingLiquidity}
=============================================================================
