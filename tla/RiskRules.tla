------------------------------ MODULE RiskRules ------------------------------
(***************************************************************************)
(* The rules that turn an answer of the security API into insights         *)
(* (intelligence/risk_rules.py, insight_generator.py).                     *)
(*                                                                         *)
(* An answer is the set of flags it raises ("1") and two taxes in percent. *)
(* Weights are in hundredths.  The code adds them as binary floats, so a   *)
(* sum that is a threshold on paper may fall just below it: 0.1 + 0.7 does.*)
(* The operators take which of the two happens as the argument "up".       *)
(***************************************************************************)
EXTENDS Integers, Sequences, FiniteSetsExt

\* _WEIGHTS; honeypots have none.
Weights ==
  [hidden_owner |-> 30, owner_change_balance |-> 25, is_mintable |-> 15,
   sell_tax_high |-> 20, buy_tax_high |-> 15, is_proxy |-> 10,
   selfdestruct |-> 10, external_call |-> 5, transfer_pausable |-> 10,
   is_blacklisted |-> 60, is_airdrop_scam |-> 85, fake_token |-> 90,
   cannot_buy |-> 70, cannot_sell_all |-> 70, slippage_modifiable |-> 15]

TaxFlags == {"sell_tax_high", "buy_tax_high"}
Flags == (DOMAIN Weights \ TaxFlags) \cup {"is_honeypot"}

\* What a response dict tells the rules.  A tax that does not parse is 0.
Answer == [flags : SUBSET Flags, sell_tax : Nat, buy_tax : Nat]

TaxIsHigh(tax) == tax > 20

\* _identify_risk_indicators.
Indicators(a) ==
  a.flags \cup {f \in TaxFlags : \/ f = "sell_tax_high" /\ TaxIsHigh(a.sell_tax)
                                 \/ f = "buy_tax_high" /\ TaxIsHigh(a.buy_tax)}

\* Not the code: the score of a honeypot is returned before it is computed.
ScoreReturnedEarly(a) ==
  IF "is_honeypot" \in a.flags THEN 0
  ELSE LET sum == MapThenSumSet(LAMBDA i : Weights[i], Indicators(a))
       IN  IF sum > 100 THEN 100 ELSE sum

\* _compute_score_from_indicators.
RiskScore(a) ==
  LET sum == MapThenSumSet(LAMBDA i : Weights[i], Indicators(a) \ {"is_honeypot"})
  IN  IF "is_honeypot" \in a.flags \/ sum > 100 THEN 100 ELSE sum

Reaches(score, threshold, up) == score > threshold \/ (score = threshold /\ up)

IsHoneypot(a) == "is_honeypot" \in a.flags
IsHighRisk(a, up) == Reaches(RiskScore(a), 80, up) /\ ~IsHoneypot(a)

\* generate_insights: the rules that fire.  The third is the else-branch of
\* the second, and so fires for every honeypot.
Fires(type, a, up) ==
  \/ type = "HoneypotDetected" /\ IsHoneypot(a)
  \/ type = "HighRiskDetected" /\ IsHighRisk(a, up)
  \/ type = "ModerateRiskDetected" /\ ~IsHighRisk(a, up) /\ Reaches(RiskScore(a), 50, up)
  \/ type = "HighSellTax" /\ TaxIsHigh(a.sell_tax)
  \/ type = "BlacklistFunction" /\ "is_blacklisted" \in a.flags
  \/ type = "AirdropScam" /\ "is_airdrop_scam" \in a.flags
  \/ type = "FakeToken" /\ "fake_token" \in a.flags

RuleOrder ==
  <<"HoneypotDetected", "HighRiskDetected", "ModerateRiskDetected", "HighSellTax",
    "BlacklistFunction", "AirdropScam", "FakeToken">>

InsightTypes == {RuleOrder[i] : i \in DOMAIN RuleOrder}
HighImportance == {"HoneypotDetected", "HighRiskDetected", "AirdropScam", "FakeToken"}

\* The insights of one answer; they are saved in the order of the rules.
GenerateInsights(a, up) == {t \in InsightTypes : Fires(t, a, up)}
FirstOfRules(types) ==
  {RuleOrder[i] : i \in {n \in DOMAIN RuleOrder :
                          RuleOrder[n] \in types /\ \A m \in 1..(n - 1) : RuleOrder[m] \notin types}}
-----------------------------------------------------------------------------
Alerts(a, up) == {t \in HighImportance : Fires(t, a, up)}

\* b is a and more.
Worse(a, b) ==
  a.flags \subseteq b.flags /\ a.sell_tax <= b.sell_tax /\ a.buy_tax <= b.buy_tax

\* What is told of an answer: its score, and whether any insight is HIGH.
Rating(a, up) == [score |-> RiskScore(a), alert |-> Alerts(a, up) # {}]
=============================================================================
