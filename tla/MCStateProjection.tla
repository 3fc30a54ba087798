-------------------------- MODULE MCStateProjection --------------------------
(* One pool: created, funded, traded, and emptied by more than it holds.    *)
EXTENDS StateProjection, TLC

CONSTANTS create, mint, swap

MCFilterOf == [t \in Txs |-> 1]
MCFactType == create :> PairCreated @@ mint :> LiquidityAdded @@ swap :> SwapExecuted
MCAmount   == create :> [reserve0 |-> 0, reserve1 |-> 0]
                @@ mint :> [reserve0 |-> 2, reserve1 |-> 3]
                @@ swap :> [reserve0 |-> 1, reserve1 |-> -2]
MCLogIndex == create :> 1 @@ mint :> 2 @@ swap :> 3

NoPoints     == {}
NoArgs       == {NoBlock}
ReplayStarts == {NoBlock, 2}
ReplayEnds   == {NoBlock, 3}
==============================================================================
