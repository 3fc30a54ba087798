----------------------------- MODULE MCIngestion -----------------------------
(* Ingestion with small values for TLC. *)
EXTENDS Ingestion, TLC

CONSTANTS swap, mint

(* One filter per log: the swap's is queried first. *)
MCFilterOf == [t \in Txs |-> IF t = swap THEN 1 ELSE 2]

(* Where the chain may reorganise, and what an operator may pass. *)
NoPoints     == {}
NoArgs       == {NoBlock}
ReplayStarts == {NoBlock, 1}
ReplayEnds   == {NoBlock, 4}
ToTheEnd     == {NoBlock, MaxHeight}
==============================================================================
