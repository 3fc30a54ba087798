--------------------------- MODULE StateProjection ---------------------------
(***************************************************************************)
(* What main.handler does with a log after save_fact: entity resolution    *)
(* for a PAIR_CREATED fact, the StateProjection in Redis for a fact that   *)
(* moves reserves; and rebuild_from_facts, which every start of the        *)
(* process runs before the collector.  One pool is followed; the           *)
(* collector, the finality engine and the chain are those of Ingestion.    *)
(*                                                                         *)
(* save_fact, the entity and the cache are written one after the other, so *)
(* the process may die between them.  Postgres and Redis outlive it.       *)
(***************************************************************************)
EXTENDS Ingestion

CONSTANTS
  FactType,   \* fact type of each log: "PAIR_CREATED", "SWAP_EXECUTED", ...
  Amount,     \* amounts a log carries; of a swap, what went in less what came out
  LogIndex    \* order of the logs: one that needs another to have happened is later

PairCreated      == "PAIR_CREATED"
SwapExecuted     == "SWAP_EXECUTED"
LiquidityAdded   == "LIQUIDITY_ADDED"
LiquidityRemoved == "LIQUIDITY_REMOVED"

Reserves == [reserve0 : Int, reserve1 : Int]

NoTx == "none"

ASSUME ProjectionAssumption ==
  /\ NoTx \notin Txs
  /\ FactType \in [Txs -> {PairCreated, SwapExecuted, LiquidityAdded, LiquidityRemoved}]
  /\ Amount \in [Txs -> Reserves]
  /\ LogIndex \in [Txs -> Nat]
  /\ \A t, u \in Txs : LogIndex[t] = LogIndex[u] => t = u
  /\ \A t, u \in Txs :
       FactType[t] = PairCreated /\ FactType[u] # PairCreated => LogIndex[t] < LogIndex[u]

VARIABLES
  pair,        \* creation_fact_id of the pool's trading_pairs row
  projection,  \* the pool's value in Redis
  handling,    \* the log between save_fact and the end of its handler
  aligned      \* history: the last start found exactly the facts below its block FINALIZED

poolVars == <<pair, projection, handling, aligned>>
allVars  == <<vars, poolVars>>

NoProjection == [reserve0 |-> 0, reserve1 |-> 0, asOf |-> NoTx]

-----------------------------------------------------------------------------
(* The reserves. *)

NotNegative(x) == IF x < 0 THEN 0 ELSE x

Moved(t) ==
  IF FactType[t] = LiquidityRemoved
  THEN [reserve0 |-> -Amount[t].reserve0, reserve1 |-> -Amount[t].reserve1]
  ELSE Amount[t]

(* The body of update_projection for a pool whose pair is known. *)
Applied(p, t) ==
  IF FactType[t] = PairCreated THEN p
  ELSE [reserve0 |-> NotNegative(p.reserve0 + Moved(t).reserve0),
        reserve1 |-> NotNegative(p.reserve1 + Moved(t).reserve1),
        asOf     |-> t]

(* finalized.sort(key = (block_number, log_index)) *)
InChainOrder(table, t, u) ==
  \/ table[t].block < table[u].block
  \/ table[t].block = table[u].block /\ LogIndex[t] < LogIndex[u]

LastOf(table, S) == CHOOSE t \in S : \A u \in S \ {t} : InChainOrder(table, u, t)

(* The facts of S replayed in this order, on an empty cache.                *)
Replay(table, S) ==
  LET replayed[T \in SUBSET S] ==
        IF T = {} THEN NoProjection
        ELSE Applied(replayed[T \ {LastOf(table, T)}], LastOf(table, T))
  IN  replayed[S]

Stored         == {t \in Txs : facts[t].status # Absent}
FinalizedFacts == {t \in Txs : facts[t].status = Finalized}
BelowBlock(n)  == {t \in Stored : facts[t].block < n}

(* rebuild_from_facts: delete the projection, replay the FINALIZED facts;   *)
(* without a trading pair update_projection skips each of them.             *)
Rebuilt == IF pair = NoTx THEN NoProjection ELSE Replay(facts, FinalizedFacts)

-----------------------------------------------------------------------------
(* The chain: a pool is created before it is funded and funded before it is *)
(* traded, so a log never comes without those before it.                    *)
Causal(c) ==
  \A n \in 1 .. Len(c) : \A t \in c[n].txs : \A u \in Txs :
    LogIndex[u] < LogIndex[t] => u \in LogsIn(SubSeq(c, 1, n))

Chain ==
  /\ Network
  /\ Causal(chain')
  /\ UNCHANGED poolVars

(* _run_live: checkpoint, then rebuild_from_facts, then the collector.      *)
StartAndRebuild(from, to) ==
  /\ Start(from, to)
  /\ projection' = Rebuilt
  /\ aligned' = (FinalizedFacts = BelowBlock(nextBlock'))
  /\ UNCHANGED <<pair, handling>>

CrashAnywhere ==
  /\ Crash
  /\ handling' = NoTx
  /\ UNCHANGED <<pair, projection, aligned>>

(* Not the code: only a log whose fact was new is handled further.          *)
SaveLogOnce(log) ==
  /\ handling = NoTx
  /\ \A other \in logs : LogIndex[log.tx] <= LogIndex[other.tx]
  /\ HandleLog(log)
  /\ handling' = IF facts' # facts THEN log.tx ELSE NoTx
  /\ UNCHANGED <<pair, projection, aligned>>

(* Not the code: the logs of the filters are not merged and sorted.         *)
SaveLogAsFiltered(log) ==
  /\ handling = NoTx
  /\ HandleLog(log)
  /\ handling' = IF Normalizes(log.tx) THEN log.tx ELSE NoTx
  /\ UNCHANGED <<pair, projection, aligned>>

(* The handler up to save_fact, for the logs of a block by log index.  What *)
(* follows does not ask whether the fact was new.                           *)
SaveLog(log) ==
  /\ handling = NoTx
  /\ \A other \in logs : LogIndex[log.tx] <= LogIndex[other.tx]
  /\ HandleLog(log)
  /\ handling' = IF Normalizes(log.tx) THEN log.tx ELSE NoTx
  /\ UNCHANGED <<pair, projection, aligned>>

(* resolve_from_pair_created: save_trading_pair is ON CONFLICT DO NOTHING.  *)
ResolvePair ==
  /\ handling # NoTx
  /\ FactType[handling] = PairCreated
  /\ pair' = IF pair = NoTx THEN handling ELSE pair
  /\ handling' = NoTx
  /\ UNCHANGED <<vars, projection, aligned>>

(* update_projection: load, apply, save; a pool without a trading pair is   *)
(* skipped.                                                                 *)
UpdateProjection ==
  /\ handling # NoTx
  /\ FactType[handling] # PairCreated
  /\ projection' = IF pair = NoTx THEN projection ELSE Applied(projection, handling)
  /\ handling' = NoTx
  /\ UNCHANGED <<vars, pair, aligned>>

BlockHandled ==
  /\ handling = NoTx
  /\ BlockStored
  /\ UNCHANGED poolVars

Elsewhere ==
  /\ \/ RequestStop \/ PollHead \/ StopPolling \/ EndRange
     \/ ReadHeader \/ MissingBlock \/ ReadLogs \/ Engine
  /\ UNCHANGED poolVars

-----------------------------------------------------------------------------
PoolInit ==
  /\ Init
  /\ pair = NoTx
  /\ projection = NoProjection
  /\ handling = NoTx
  /\ aligned = TRUE

PoolNext ==
  \/ Chain
  \/ \E from \in StartArgs, to \in EndArgs : StartAndRebuild(from, to)
  \/ CrashAnywhere
  \/ \E log \in logs : SaveLog(log)
  \/ ResolvePair
  \/ UpdateProjection
  \/ BlockHandled
  \/ Elsewhere

PoolSpec == PoolInit /\ [][PoolNext]_allVars

-----------------------------------------------------------------------------
(* Properties.                                                              *)

(* "State can always be reconstructed by replaying Facts": between blocks   *)
(* the projection is what a replay of the facts read so far gives, provided *)
(* the process started where exactly the facts below it were FINALIZED, and *)
(* nothing reorganised.  Facts that were stored before a crash are counted  *)
(* when their block is read again, not when it was first read.              *)
ProjectionIsReplay ==
  pc \in {"head", "block"} /\ ~stop /\ aligned =>
    projection = IF pair = NoTx THEN NoProjection ELSE Replay(facts, BelowBlock(nextBlock))

(* A pool whose PAIR_CREATED fact was stored and whose block was finished   *)
(* has its trading pair, whatever crash fell between the two writes.        *)
PairResolved ==
  pc \in {"finality", "advance", "checkpoint", "orphan"} =>
    \A t \in Stored :
      FactType[t] = PairCreated /\ facts[t].block = nextBlock => pair # NoTx

(* ADR-006, Idempotency: however often an event is processed, the state is  *)
(* that of processing each stored event at most once.                       *)
CountedAtMostOnce ==
  pc # "down" =>
    \E S \in SUBSET Stored :
      /\ projection.reserve0 = Replay(facts, S).reserve0
      /\ projection.reserve1 = Replay(facts, S).reserve1
==============================================================================
