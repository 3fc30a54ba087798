----------------------------- MODULE MCLabelling -----------------------------
(* One window of one tick, with the percentages of outcome_rules.py for    *)
(* one hour and trade counts scaled down.  The pool is funded and traded   *)
(* in its first block, and may be drained later.                           *)
EXTENDS Labelling, TLC

MCWindows == <<1>>
MCThresholds == 1 :> [drop |-> 90, retention |-> 70, trades |-> 1, dead |-> 0]
MCOffsets == <<1>>
MCLaunch == << [time |-> 0, kind |-> "creation", depth |-> 0],
               [time |-> 0, kind |-> "liquidity", depth |-> 20],
               [time |-> 0, kind |-> "swap", depth |-> 19] >>
MCMoves == {[kind |-> "liquidity", depth |-> 1]}
=============================================================================
