-------------------------------- MODULE MCScan --------------------------------
(* Two pools, and two answers: one whose score is a threshold on paper, with *)
(* a high tax, and one without any flag.                                     *)
EXTENDS IntelligenceScan

MCNewest == <<"young", "old">>
MCActivities == {[liquid |-> TRUE, trades |-> 10]}
Flagged(flags, tax) == [flags |-> flags, sell_tax |-> tax, buy_tax |-> 0]
MCAnswers == {Flagged({}, 0), Flagged({"hidden_owner"}, 21)}
MCCompared ==
  {Flagged(flags, tax) :
     flags \in SUBSET {"is_honeypot", "hidden_owner", "cannot_buy", "is_proxy"},
     tax \in {0, 20, 21}}
=============================================================================
