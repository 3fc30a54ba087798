# Formal models of the on-chain platform

TLA+ modules for the platform in `src/` (a Python asyncio program that reads EVM
blocks through RPC providers, stores decoded facts in PostgreSQL, follows their
finality, keeps derived state in Redis and TimescaleDB, and serves it through a
research API), the TLC runs that check them on small instances, and TLAPS proofs
of the properties that hold for every value of the constants.

Paths below are relative to `src/`; `P/` is `src/onchain_platform/`.

## 1. The system

One process per chain (`P/main.py`), single-threaded, on one asyncio event loop.

```
 BlockchainProvider ──> Collector ──> handler ──────────────> FinalityEngine ──> LoggingReorgEventHandler
 (failover pool of      (poll head,    save_fact              (header buffer,
  RPC endpoints)         ranges,        entity resolution       counts, checkpoint,
                         blocks)        state projection        orphaning)
                                            │                        │
                                        PostgreSQL, Redis  <─────────┘
                                            │
        APScheduler jobs on the same loop:  features (1 h), intelligence (5 min),
        snapshots (5 min), outcomes (1 h)  ──> TimescaleDB, outcomes, insights
                                            │
                                Research API, dashboard, strategy API (read only)
```

| component | state it keeps | operations | interacts with |
|---|---|---|---|
| Collector `P/acquisition/collector.py` | stop flag, next block | `run_from`, `process_range`, `_process_block`, `request_stop` | provider (head, header, logs), handler per log, `on_new_block` per block |
| Provider pool `P/acquisition/providers/` | health, failure counts, recovery times, token buckets | `_route`, `_retry_with_backoff`, `acquire`, `mark_healthy/unhealthy` | RPC endpoints; called by collector and finality engine |
| Fact processor, normalizer `P/processing/` | none | decode a log or reject it | called by the handler |
| Finality engine `P/processing/finality_engine.py` | header buffer (`deque(maxlen=depth)`) | `on_new_block`, `_advance_lifecycle`, `_handle_reorg`, `load_checkpoint` | reads the header again; writes statuses, counts, checkpoint |
| Fact store `P/persistence/postgres/repositories.py` | `blockchain_facts`, `checkpoints` | `save_fact`, `advance_confirmation_counts`, `mark_facts_orphaned`, `save_checkpoint`, queries | every other component |
| Entity resolution `P/domain_management/` | contracts, tokens, pairs, pools, wallets | `resolve_from_pair_created`, `resolve_from_swap_executed` | called by the handler; insert-or-ignore |
| State projection `P/analytics/projection_engine.py`, `P/transport/state_cache.py` | reserves of each pool, in Redis | `update_projection`, `rebuild_from_facts` | handler, start-up, snapshot job |
| Snapshot job `P/analytics/snapshot_job.py` | `observation_snapshots` | `run_snapshot_creation` every 5 minutes | projection, entity tables |
| Outcome job `P/analytics/outcome_job.py`, `outcome_engine.py`, `outcome_rules.py` | `outcomes` | `run_outcome_evaluation` hourly, and at the end of the script | snapshots, bars, insights, facts |
| Feature job `P/analytics/feature_engine.py` | `features` | five functions per pair, hourly | snapshots, bars, insights |
| Intelligence `P/intelligence/` | insights, 24-h deduplication, daily budget | `run_intelligence_scan`, GoPlus client, risk rules | pairs, external security API |
| Research API, strategy `P/research/`, `P/strategy/` | none (read only) | keyset pages, point-in-time reads, rankings | all tables |
| Scripts `scripts/` | `ingestion_state.json` | chunked ingestion, post-processing (bars, past snapshots, features, outcomes), diagnostics | run `main` as a subprocess, or write tables directly |

### What is hard in it

* Every RPC call and every commit is an `await`: the chain may move, a stop may
  be requested, or the process may die at each of them. One block is read by
  three kinds of call (header, logs per filter, header again), all by number.
* The writes that follow from one log are committed one after the other (fact,
  entities, Redis), and so are the counts and the checkpoint of one block.
* The header buffer is only in memory, the statuses it justified are not.
* Blocks are processed again after restarts and operator replays, so every write
  must tolerate a second time.
* Reorganisations arrive late: the block that reveals one is stored already.
* The jobs and the post-processing script write the same tables from two
  processes, each row in a commit of its own, and labels are never rewritten.
* The scan counts its quota, its rate and what it scanned in Redis keys that
  expire, outlive the process, and are read some awaits before they are written.
* Listings are read in pages, tables in several queries, while others write.
* Features of the past are computed from the tables of the present.
* Two levels of retry, a health record and a rate limit stand between a call and
  its endpoint, and each of the three reads of a block may go to another one.

What makes each component correct, in a sentence: the collector skips no block
it passes; the engine finalizes only under a linked window and checkpoints only
what is final; the store's rows only move along the lifecycle; the projection is
the replay of the facts; the pool asks its endpoints in order and gives up only
when all failed; a label is written once, after its window closed, and agrees
with its siblings; a page sequence returns every row at most once and loses none but ties; a feature uses
nothing later than its `as_of`; a scan spends no more than its budget.

`PROJECT.json` lists each hazard at its line with the properties aimed at it.

## 2. Modules

| module | models | by |
|---|---|---|
| `FactStore` | the rows of `blockchain_facts` and the three statements that write them | operators on a table (a function from fact ids to rows) |
| `Ingestion` | collector, handler's `save_fact`, finality engine, start, stop, crash, restart, replay, and the chain | one action per stretch between two awaits |
| `ConfirmationLifecycle` | the abstract lifecycle of a fact (ADR-006) | specification that `Ingestion` implements |
| `StateProjection` | the rest of the handler and the rebuild at start, for one pool | extends `Ingestion`, its actions conjoin those of `Ingestion` |
| `ProviderPool` | `MultiProvider`, its health checker and rate limiters, the retries of `HttpJsonRpcProvider`, and endpoints that fail, come back and lag | one action per step of a request, a clock, an environment |
| `OutcomeRules` | the three labelling rules, as predicates over what one evaluation read | operators |
| `Labelling` | the labels of one pair: snapshot job, outcome job, post-processing script and their tables | extends `OutcomeRules`; one action per query or commit |
| `RiskRules` | the risk score of an answer of the security API and the insights it gives | operators |
| `IntelligenceScan` | selection, cache, quota, token bucket, attempts, insights and marks of the scan, over crashes and days | extends `RiskRules`; one action per call of Redis, API or database |
| `Pages` | the listings with a cursor, the jobs that read the first page only, the script that goes on at an offset | one action per page, and writers |
| `FeatureRules` | the five features and the score of a ranking, as functions of the rows read | operators that give the set of possible results |
| `Research` | the feature job and script, the dataset builder and the ranking of one pair, beside the writers of its tables | extends `FeatureRules`; one action per query or commit |
| `MC...` (one for each of `Ingestion`, `StateProjection`, `ProviderPool`, `Labelling`, `IntelligenceScan`, `Pages`, `Research`) | values of the constants for TLC | |
| `IngestionProofs`, `FinalityProofs` (which extends it), `ProviderPoolProofs`, `LabellingProofs`, `IntelligenceScanProofs`, `PagesProofs`, `ResearchProofs`, `StateProjectionProofs` | theorems about the module named (`FinalityProofs`: about `Ingestion`) | TLAPS |

The modules meet at the tables. `Ingestion` and `StateProjection` are one
composition; `Labelling` and `Research` take the rows that ingestion, the jobs and
the scripts commit as their environment, and `Pages` any table with any writers.

### Correspondence: `Ingestion`

State. `chain` is the canonical chain as every provider shows it, a sequence of
blocks with a hash and the set of logs in it; hashes are numbers in order of
their making. `facts` and `checkpoint` are PostgreSQL; `buffer`, `header`,
`filter`, `logs`, `nextBlock`, `rangeEnd`, `live`, `stop` are local variables and
attributes of the collector and the engine, lost in a crash. `pc` names the
await at which the process is suspended. `torn`, `starts` and `origin` are
history variables: a block was replaced between two reads of it; how often the
process was started; where an unbounded start began.

| action | code |
|---|---|
| `Mine`, `Reorg` | the network: a block is appended; the last d are replaced, their logs mined again anywhere or never |
| `Start(from, to)` | `_run_live` up to the first read: explicit start block, else checkpoint + 1, else the head |
| `RequestStop`, `Crash` | SIGTERM/SIGINT; a kill or an exception that leaves `main` |
| `PollHead`, `EndRange`, `StopPolling` | `run_from` and the loop of `process_range` |
| `ReadHeader`, `MissingBlock`, `ReadLogs`, `HandleLog`, `BlockStored` | `_process_block`: header, logs filter by filter, handler per log |
| `OnNewBlock` | second header read, append to the buffer, `_find_fork_index` |
| `AdvanceLifecycle`, `SaveCheckpoint` | the two commits of `_advance_lifecycle` |
| `HandleReorg` | `_handle_reorg`: orphan above the last linked header, pop the buffer |

Abstractions: a `fact_id` is the log itself (it is derived from transaction hash
and log index); decoding is reduced to whether the normalizer accepts the log;
`event_time` is the hash of the header it was taken from, so that a row can say
which block its time belongs to; logs of one block are stored in any order, since
the rows do not depend on it (`StateProjection` restores the order, where it matters).
One process per chain is assumed, as the code does (nothing locks the tables).

### Correspondence: `StateProjection`

`pair` is the pool's `trading_pairs` row, `projection` its value in Redis,
`handling` the log whose fact was stored and whose handler has not ended. A log
takes two steps, `SaveLog` and then `ResolvePair` or `UpdateProjection`, with a
crash possible between them; `StartAndRebuild` is `Start` followed by
`rebuild_from_facts`, which nothing interleaves with because no other task runs
yet. Logs of a block are handled by log index. The pool is created, funded and
traded in this order on the chain (`Causal`), as its contract enforces; so within a
block its creation has the lowest log index (`ProjectionAssumption`). `Replay` is the
loop of `rebuild_from_facts`, one fact after the other up to the last (`LastOf`).

### Correspondence: `ProviderPool`

| action | code |
|---|---|
| `Request`, `Consider`, `Exhausted` | the loop of `MultiProvider._route`: skip an unhealthy provider unless `try_recover` says its interval is over; `AllProvidersFailedError` behind the last |
| `Acquire` | `TokenBucketRateLimiter.acquire`: waits for a token, one per provider and request |
| `Answered`, `PostAgain`, `TryAgain`, `FailOver`, `Escape` | what one post leads to: an answer; a retry inside `_call`; a retry of `_retry_with_backoff`; `mark_unhealthy` and the next provider; an exception nobody catches |
| `Tick` | time: bucket refill, the recovery interval, a backoff sleep |
| `Change`, `CatchUp` | external: endpoints fail and come back, and reach a block later than others |
| `Restart` | the exception ends the process; the next one builds a new pool |

The requests follow the collector: head, then the header, the logs and the second
header of one block. A monotonic instant is kept as the ticks still missing to
it. `faulted`, `partial` and `lost` are history: who failed a post, whether this
block's logs were asked of an endpoint without the block, whether such a block
was accepted. An endpoint that has the head it names has that block; a header it
does not have is an error; logs it does not have are an empty list. Fairness:
`WF(Tick)` and `WF(Step)`, because clocks go on and every post has a timeout.
`Restart` and the endpoints have none.

### Correspondence: `OutcomeRules` and `Labelling`

A rule reads at most three depths (`reserve0 * reserve1` of the earliest, latest
and deepest snapshot), the trades of the bars and whether an insight exists; that
is `Evidence`. Fractions are percentages, so comparisons are exact. One pair is
modelled: no step of the jobs relates two pairs.

| action | code |
|---|---|
| `Ingest`, `Finalize`, `SaveInsight` | what ingestion and the intelligence scan write for the pair: a fact with its effect on the projection; all facts of the next block become FINALIZED; a HoneypotDetected insight |
| `SaveSnapshot` | the platform's snapshot of the pair, with the clock read before the pairs were listed |
| `StartScript`, `BackfillBar`, `BarsDone`, `BackfillSnapshot`, `ScriptOutcomes` | `post_process`: bars bucket by bucket from the finalized swaps it read; a snapshot for each offset; the outcome job |
| `StartJob`, `ReadKeys`, `EvaluateOutcome`, `SaveOutcome` | `run_outcome_evaluation`: the clock and the pairs with a final creation; per window the labels that exist; per type the evidence and the insert that does nothing on conflict |
| `Crash`, `Interrupt` | the platform, or the script, dies between two of these |

`evaluate_outcome` makes three queries (snapshots, bars, insight) with an await
between each; the model takes them as one step, since each table is read once and
the label is what the rules make of the three values, whichever moment they are
of. `_reserves_at` makes three queries as well, one per type of fact, which are one
step: a fact finalized between two of them is left out. A depth is one amount, to which
a fact adds or from which it takes (`Change`), not a pair of reserves. The script's
features are left out: nothing reads them here. Its snapshots are written whether or not their time has come, as in the code. The outcome job
is at most once active per process (`max_instances=1`), which is why there are
two runners. Fairness (`FairSpec`): the scheduler starts the platform's job again
and again and its awaits return. The script has none.

### Correspondence: `RiskRules` and `IntelligenceScan`

An answer is the set of flags it raises and two taxes in percent. Weights are
hundredths; the code adds floats, and a sum that is exactly a threshold on paper
may come out below it, so the rules take both outcomes (`up`).

| action | code |
|---|---|
| `StartScan` | `select_tokens_for_scan`, as one step: unmarked pools with reserves and trades, most active first, as many as one scan takes |
| `LookUp` | cache, then quota, of `get_token_security` |
| `TakeToken`, `NoToken` | one call of the Lua script in `_acquire_token` |
| `AskAgain`, `Answered` | one attempt of `_call_with_retry` |
| `Charge`, `SaveInCache`, `SaveInsight` | the counter of the day, the cached answer, the insights one by one |
| `Fail` | any exception in the body of the loop |
| `Mark` | `pool_addresses[:scanned]`, one mark at a time |
| `Tick`, `Trade`, `Crash` | the clock; what the filter reads changes; the process dies, or the job raises outside the loop |

`marks`, `cache`, `charged` and `bucket` are keys in Redis and survive `Crash`.
`learned` (when an answer was given) and `taken` (tokens taken since each tick) are
history. Fairness (`FairSpec`): `WF(JobStep)`, because each await of the job has a
timeout; of clock, trades, scheduler and crashes nothing is assumed.

### Correspondence: `Pages`

A listing is a record: its order (identity, oldest or newest first), whether a
range of time filters it, the states of rows its query shows with and without its
option (`shown`, `wider`), what may happen to a row (`becomes`), and how the reader
goes on (`goes_on`: a cursor, an offset, or never). `Open` is the first request
with its filters, `ReadPage` a query with `LIMIT n + 1` and the cursor of the
page's last row, `ReadBatch` and `Fill` the loop of the script that fills in
`liquidity_usd`, `Write` any writer. `got` and `owed` are history. Rows of one key
come in any order, as SQL leaves it. A cursor is the key itself: its encoding is
an inverse pair and nothing depends on it.

### Correspondence: `FeatureRules` and `Research`

A rule gives a set: nothing if there is too little data, several results if rows of
one time may come in any order. Values are integers; of a z-score the sign is kept.

| action | code |
|---|---|
| `StartSnapshots`, `TakeSnapshot` | `run_snapshot_creation` reads the clock; it commits the pair's snapshot of that moment after the pairs before it and the price |
| `PriceSnapshot` | the script that fills in `liquidity_usd` writes a snapshot back with a price |
| `BackfillSnapshot`, `SaveBar`, `SaveInsight`, `SaveLabel` | what other processes write for the pair; snapshots, bars and insights are upserts, labels stay |
| `StartScan` | an intelligence scan begins, and dates the insights to come |
| `StartJob`, `StartScript` | `_compute_features` for the present; `compute_features` for the time of every snapshot |
| `Compute`, `Assess`, `SaveFeature` | a rule, the second query of the honeypot score, the upsert |
| `Interrupt` | the job raises, or its process ends |
| `StartBuild`, `ReadNames`, `ReadFeature`, `AddRow`, `EndBuild` | `build_training_dataset`: labels, and per label the names and the newest feature of each, then `assert_zero_leakage` |
| `AskRanking`, `ReadFactorNames`, `ReadFactor`, `AddFactors`, `ReadHoneypot`, `ReadLaunch`, `ReadRug` | `_rank_one_pair`: names, each weighted feature, the sum, the insight, two labels |

A rule reads its table once (the honeypot score twice, hence `Assess`), so rule and
query are one step. Script times are even and clock readings odd: the code's block
times are whole seconds and its clock is not. `times`, `quiet`, `known` and
`warned` are history. The ranking reads features without a weight too and drops them; their
queries are left out. `PriceSnapshot` reads and writes in one step: that the script may
write back a row which has changed meanwhile is an observation of section 6.

## 3. Runs

Each run answers one question. The type invariants (`TypeOK`) are theorems and no run
lists them (section 4); `StateProjection` has none beyond what its runs check. TLC
reports no error for the first group; in the second it finds the counterexample that
the finding in `PROJECT.json` quotes.

| run | question | bounds |
|---|---|---|
| `live` | Started without a first block, stopped, crashed and resumed up to a block, with a reorganisation of up to two blocks at any await: is the checkpoint always final and complete, and how far may recovery take it back? | 2 logs, one undecodable; depth 3; height 5; 2 starts, each with or without the end 5; 1 reorganisation |
| `replay` | Does an operator replaying any range break counts, the header window, the row history or the lifecycle; do FINALIZED facts stay, and are they canonical? | 2 logs; depth 2; height 4; 1 reorganisation of up to two blocks; ranges from {none, 1} to {none, 4} |
| `progress` | Is every fact that gets its confirmations finalized, and does a process resumed up to a block, wherever the one before it crashed or stopped, finalize all that one never interrupted would have? | no reorganisation, fair process and chain; depth 2; height 5; 2 starts, each with or without the end 5 |
| `projection` | Is the Redis projection always what a replay of the facts gives, and is no finished block without its pair, over crashes between the commits of one log? | 3 logs of one pool; height 5; 2 starts; replays of 2..3 |
| `failover` | Is the primary preferred, does every request end and reach the next provider, does the pool give up only when all failed, and does it go back to the primary? | 2 providers; threshold 2; recovery 2 ticks; 1 token per tick; 2 posts, 2 tries |
| `labelling` | With job and script interleaved at each commit, a crash and an interruption: are labels final, exclusive and never early, and all written in the end? | one window of one tick; 3 facts in the first block, 1 later; 1 run of the script; 1 crash; writers on time |
| `scan` | With any answers or none, failures anywhere, a change of day, crashes and trading: are quota and rate held, is no candidate skipped, are insights fresh, do worse answers rate worse, do scans end? | 2 pools; quota 1; 2 attempts; bucket of 2 tokens, 1.5 a tick; 2 days of a tick; 2 changes; 1 crash; answers compared: 4 flags, 3 taxes |
| `pages` | Whatever is written between its pages: does a listing that is over lack nothing but ties of what it delivered, and is every listing sorted without repetition? | all 9 listings; 4 rows, in two listings with a tie; pages of 1 or 2; all ranges of 2 bounds |
| `features` | Do features name rows of before and nothing else, does a rerun bring them up to date, does a honeypot stay one; is the dataset free of the future and complete; does a ranking miss no feature and no honeypot that was known of its time? | 2 writes; 2 runs of job or script; 1 dataset or ranking, of time 5; 7 ticks, a window of 3 |
| `reorg_wedge` | Is the header buffer rebuilt after a reorganisation (comment in `finality_engine.py`)? | 1 reorganisation between blocks; height 6 |
| `double_count` | Is an event processed twice counted once (ADR-006, Idempotency)? | no reorganisation, 2 starts |
| `backfill` | Does the script reach every snapshot without `liquidity_usd` (its docstring)? | as `pages`, one listing |

Why the bounds are enough. Depth 2 is the smallest at which a header has a
predecessor in the buffer (with depth 1 the buffer holds one header and
`on_new_block` always returns early), and reorganisations of one and two blocks
are those inside and at the window. `live` has depth 3, because a checkpoint can
fall back by up to `Depth - 2` blocks only: with depth 2 it never does, with depth 3 and
height 5 a process saves checkpoint 2, and the next one checkpoint 1 when it resumes
at 3. That takes starts with an `--end-block`: the one without arguments ends behind a
single block (section 6) and saves no checkpoint. Height 5 lets a fact be stored, finalized,
checkpointed and the process restarted above it. Two logs under two filters give
every split of a block's logs by a reorganisation between the reads; one of them
undecodable gives the skip. Two starts give every crash point once, with the
recovery after it. `CHECK_DEADLOCK FALSE` everywhere: the chain stops growing at
`MaxHeight`, and a process that has ended stays so.

Two providers show every order of a primary and another one; threshold and
recovery of 2 tell the first failure from the last and waiting from being due;
two posts and two tries give each retry loop one repetition. One window
is enough because the job carries nothing from one to the next but its clock, and
the proofs cover any list of them. Four facts give a creation, a funding, a trade
and one drain; one run of the script beside the hourly job gives every overlap of
the two, and one crash every place to stop.

Two pools show a failure before, at and behind another pool; a quota of one and a
bucket of two tokens are both exhausted within a scan, and a day of one tick lets
a scan cross midnight and marks and cache expire at different times. Four rows
give a page before, at and behind a row that is written, and a tie across a page
break. Two writes are one row before and one behind a feature that reads them,
two runs the job beside the script or a run and its repetition; ties of snapshots
come from the two sources. A row that is begun (a snapshot job or a scan that read the
clock) counts against the same bound. A ranking of time 5 has features, insights and
snapshots before, at and behind its time.

Symmetry is not used: the logs differ in filter and type, and hashes are
ordered.

Antecedents. `FinalizedIsCanonical` is about the first process only and about
reorganisations between blocks: the buffer is lost in a restart, and a block
replaced between two of its reads leaves facts of the old one beside the header
of the new one (see section 6). `CheckpointComplete` and `EventTimeOfBlock` share
the second condition. `ProjectionIsReplay` starts from the starts at which
exactly the facts below the first block are FINALIZED; `double_count` shows the
others.

`RecoveryCompletes` is about the last start that resumes, or tails, up to a block, and
excuses it if it is asked to stop; `EventuallyFinalized` about a fact that this
process stored, while it is up. `RankingMissesNothing` asks for the insights of as_of or before,
and allows for those after it, which the code reads too. `OnlyTiesAreLost` says
completeness of listings whose keys no two rows share (pairs, facts, wallet activity
and bars); of the others what is lost shares its time with a row delivered. `RerunRefreshes` is about runs during which no table
changed.

Fairness (`progress`): weak fairness of the process's own steps,
because an awaited call returns or raises (client timeouts of 30 s) and the event
loop then resumes the task; weak fairness of `Mine`, because chains grow.
Nothing is assumed of crashes, stops or restarts, and properties excuse a process
that was asked to stop.

## 4. Proofs

### `Ingestion`

`IngestionProofs` (checked by `tlapm`, about 35 s from nothing) proves for every
set of logs, every depth, every set of replay arguments and every bound of
`Ingestion`, under `IngestionAssumption` only:

| theorem | says |
|---|---|
| `InvariantHolds` | `Spec => []IInv`, the inductive invariant `IInv == TypeOK /\ HeaderWindow` |
| `TypeCorrect`, `WindowLinked` | its two parts |
| `CountsAgree` | status and confirmation count of every row agree with the depth |
| `HistoryKept` | no step rewrites a stored fact or revives an orphan |
| `FinalizedOnlyOnLinkedHeaders` | facts are finalized only under a linked window that ends at the head, `Depth` above them |
| `OrphansLieAboveFork` | reorg handling orphans only above the header it keeps, and leaves a linked buffer |
| `ImplementsTheLifecycle` | `Ingestion` implements `ConfirmationLifecycle` under `status <- facts[_].status` |

The argument. `TypeOK` alone is not inductive: `HandleReorg` takes the header
below the break, which exists only because a break has index 2 or more, and the
row it orphans from is a number only because of that header. `HeaderWindow` says
where the process is in `on_new_block` and what the buffer looks like there:
linked between calls; inside a call, broken at most at the header just appended
(`PushedHeaders`: appending to a linked buffer, with or without the oldest
leaving, can break it only at its end). So `ForkIndex` is the last index and what
is left after popping is linked again (`PoppedHeaders`). The step theorems then
need only the three actions that change `facts` (`TableSteps`) and what each does
to one row. `CountsAgree` is proved as an invariant on top of `IInv`.

`FinalityProofs` relates the store to the chain and to later starts. Its theorems
hold for every chain, depth, number of starts and crashes; what they assume besides
`IngestionAssumption` is an `ASSUME` of the theorem:

| theorem | says | assumes |
|---|---|---|
| `EventTimesAgree` | a row has the time of the block its hash names | |
| `FinalizedAreCanonical` | a finalized row is of a block of the chain | `ShallowReorgs` |
| `CheckpointFinal` | nothing at or below the checkpoint is still open | `NoReplay` |
| `CompleteBelowCheckpoint` | nothing between the first block and the checkpoint is missing | `NoReplay`, `ShallowReorgs` |
| `RecoveryKeepsTheCheckpoint` | the checkpoint falls back only while a resumed process refills its window, and by at most `Depth - 2` | `NoReplay` |
| `FinalForever` | no step changes a finalized row, whatever is replayed | `ShallowReorgs` |

`ShallowReorgs` is `MaxReorg <= Depth`: the depth is chosen for the reorganisations
the chain makes (ADR-006), and with a deeper one all of this is false. `NoReplay` is
`StartArgs = {NoBlock}`: no start names its first block; an `--end-block` it may name.
Both are satisfied by the configurations `live.cfg` and `progress.cfg`, `ShallowReorgs` by
`replay.cfg` too; neither bounds the number of reorganisations, starts or crashes. Why
`NoReplay` is needed is an observation of section 6.

The argument. `ChainInv` is what the process knows of the chain: a hash names one
block of one height (`HashesUnique`, `HeadersKnown`), so that headers that are
linked have consecutive numbers (`HeadersNumbered`); where the process is in its
range (`Position`); what is finalized has `Depth` blocks above it (`Settled`); and
what was read of the block in flight is what the chain has (`ReadsAgree`,
`ReadsComplete`). A reorganisation is reduced to a height up to which the chain
stays (`KeepsTo`); a canonical header stays canonical below it, and above it every
hash is new. The further invariants are about which rows the buffer answers
for. `StoreCanonical`: as long as a header of the buffer is canonical, all rows up
to its number are (`Vouches`), and since the oldest header of a full window is
`Depth` below the head, no admitted reorganisation reaches what is finalized.
`StoreComplete`: in the same way such a header answers for every block up to it
being stored. Both need that the header at which a break was found is excepted
(`Verified`), because it is appended before it is checked. `CheckpointBehind` says that a process is
above the checkpoint, and `AboveCheckpoint` that its whole window is: a window of
`Depth` linked headers above the checkpoint saves no lower one, and one of `n < Depth`
headers a block that is `Depth - n + 1` below its first (`WindowSpan`). `FinalForever` rests on `FinalAbove`, that a header
below a final fact is canonical, and `BreakIsStale`, that the header a break is noticed at
is not: so what is orphaned above it is above the final facts, also in a replay, whose
window starts anywhere.

### `StateProjection`

`StateProjectionProofs`, under `IngestionAssumption` and `ProjectionAssumption` only,
for any logs, amounts, depth, heights, ranges and number of starts, with a crash after
any commit:

| theorem | says |
|---|---|
| `PoolIsIngestion` | `PoolSpec => Spec`: the pool's handler, crashes and rebuilds included, is an ingestion, so the theorems above hold of it |
| `PoolInvHolds` | the inductive invariant |
| `PairIsResolved` | while nothing reorganised, a finished block with a `PAIR_CREATED` leaves the pair (`PairResolved`) |
| `ProjectionReplays` | while nothing reorganised, the projection is a replay of the facts read (`ProjectionIsReplay`) |

"While nothing reorganised" is `reorgs = 0` in the state, as in the run, and not an
assumption on the constants: what reorganisation handling orphans stays in the
projection until the next start, so no more is true. As in the property, the process
must have started where exactly the facts below its first block are FINALIZED
(`aligned`).

The argument. Between blocks the projection is a replay of what is stored below the
next one; the invariant needs it within a block as well. `Handled` is the set of its
facts whose handlers have ended: what is neither in hand nor still waiting.
`HandlerOrder` says that these have lower log indexes than the one in hand, and that one
a lower index than those that wait, and `Projected` that the projection is a replay of
what lies below the block together with `Handled`. So the end of a handler adds the last
fact of the set to be replayed, and `ReplayLater` says that replaying it is applying it.
A fact that an earlier process stored before it crashed is above the block in flight
until its block is read again, which is why it is not counted twice. A start
replays the FINALIZED facts, and `aligned` says which those are (`ReplayAgrees`:
a replay depends on the blocks of the facts only, and statuses change underneath). The
pair appears only behind its `PAIR_CREATED`; before it nothing has been
projected, and a replay of what was handled up to then, creations only, is nothing either
(`ReplayCreations`, from `Causal` and the order of log indexes).

That `Replay` means what it says has to be proved first: it is a recursive function on
sets of facts, and tlapm knows of no such function that it exists. `ReplayedExists`
takes a least set of facts without one and continues the one below its last fact;
`ReplayedAgree` shows in the same way that two of them agree, whatever larger set they are
defined on. Both need a last fact in every finite set (`LastExists`), which is by the
order being total.

### `ProviderPool`

`ProviderPoolProofs`, under `PoolAssumption` only, for any number of providers:

| theorem | says |
|---|---|
| `TypeCorrect` | health records, buckets, attempt counters keep their ranges |
| `HealthIsTheCount` | unhealthy is exactly "failed `Threshold` requests in a row" |
| `FailoverInPriorityOrder` | a provider is called when those before it failed this request or are unhealthy |
| `OneProviderIsEnough` | `AllProvidersFailedError` means that every provider failed in this process |

The argument. `failures` stays in its range only because a provider is called
while healthy (`CalledIsHealthy`), so its count is below the threshold when it is
reported. `InPriorityOrder` is kept from the head of the loop on
(`InOrderFromHead`): every `cand + 1` is taken either past an unhealthy provider or
after a failure. Behind the last provider that leaves each one attempted or
unhealthy, and whatever is held against a provider it failed a post (`Deserved`).

### `OutcomeRules` and `Labelling`

`LabellingProofs`, under `LabellingAssumption` only (which asks the thresholds to be
`Coherent`, as both configurations in `WINDOW_THRESHOLDS` are):

| theorem | says |
|---|---|
| `SuccessExcludes` | a pure fact of the rules: success excludes rug pull and death, for any evidence |
| `NoContradiction` | the same for whatever the queries can return, in every reachable state |
| `NoEarlyLabel` | no label before the close of its window and the finality of the creation |
| `LabelsStay` | no step changes or doubles a label |
| `TypeCorrect` | typing of all tables and jobs |

The argument. `SuccessExcludes` is a chain of products: a drop of more than `d`
percent leaves less than `(100 - d) * early <= r * early <= r * peak`. That the depths
read are those of one list (`WellRead`) needs finite tables (`FiniteTables`), because
a count of rows is a number only then. `NoEarlyLabel` needs `JobsInOrder`: a job
under way found the creation final, and the window it evaluates was closed on the
clock it read when it began, which is not after the present one. `LabelsStay` needs
`OneLabel`, the table's unique key.

### `IntelligenceScan`

`IntelligenceScanProofs`, under `ScanAssumption` only, for any pools, answers,
quota, rate and number of attempts:

| theorem | says |
|---|---|
| `TypesAreKept` | typing of keys, bucket, job and insights |
| `QuotaIsHeld` | no day is charged more than its quota |
| `RateIsBounded` | between any two moments no more tokens are taken than the bucket holds and gains |
| `FailuresAreIsolated` | a scan that comes to its marks went through all of its candidates |
| `InsightsStayFresh` | no insight rests on an answer a day old when its scan began |
| `RulesAreGraded` | a worse answer is scored no lower, and is HIGH if the better one is (`RulesGraded`) |

The argument. `QuotaHeld` is not inductive, because the counter is read long before
it is incremented: `ChargeOK` counts the charge that a job between the two still
has to spend, on the day it looked at. `RateBound` speaks of every moment and the
bucket only of the last: `BucketOK` says that what was taken since any moment, and
what is left, is paid by what the bucket held then and gained up to its last
update (`PartsNow` may only lose by its cap). `FailuresIsolated` needs the loop's
count at every index (`LoopOK`), and `InsightsAreFresh` that an answer in hand was
less than a day old when the scan began (`EntryOK`).
`RulesGraded` is about every two answers, with any flags and taxes; TLC compares two
answers with 48. The score is a sum over a set, which the community
module computes by taking some element and adding the rest: `AddsUnique` and
`AnyElement` say that such a function is determined by the weights and does not
depend on the element taken (both by the least set for which it would not hold),
`MoreIsMore` that it grows with the set. The rules are then compared case by case:
a honeypot switches `HighRiskDetected` off, and fires its own.

### `Pages`

`PagesProofs`, under `PagesAssumption` only, for any tables, filters, page sizes and
writers: `NothingButTiesIsLost` (`OnlyTiesAreLost`) and `PagesAreInOrder`
(`PagesInOrder`). The argument is in two halves: what came is not after the cursor and
came once (`Behind`), and what matched all the time came, shares its key with
something that came, or lies after the cursor (`Complete`). A step that reads a page is reduced by `PageOfCursor` to "the rows of the page
lie between the old cursor and the new one".

### `Research`

`ResearchProofs`, under `ResearchAssumption` only, for any rows, times, numbers of
writes, runs and reads:

| theorem | says |
|---|---|
| `FeaturesAreTraceable` | a feature names rows that exist, none of after its time, and a score of 100 names a honeypot |
| `DatasetDoesNotLeak` | the validation of a dataset never fails |
| `RankingsCountTheKnown` | a ranking has every weighted feature known of its time or a newer one, none of after it, and counts a honeypot known of its time |
| `TypesAreKept` | every table keeps its type and its keys, and job, script, dataset and ranking their states |
| `DatasetMissesNothing` | a row lacks no feature that was known when the build began |
| `RerunsRefresh` | a run that no table changed under leaves its features as the rules give them |
| `HoneypotsStayFlagged` | no step replaces a score of 100 by another |
| `ResearchInvHolds` | the inductive invariant of all but the first two and the typing |

The argument. `Traceable` needs that a result computed and not yet saved is
traceable too (`Pending`), that rows are replaced by rows of the same name
(`RowIdsStay`), and one lemma per rule, for which tables must be finite: only then is
a sorted table a sequence. `DatasetDoesNotLeak` adds the row that is being built
(`NoLeak`). `RankingsCountTheKnown` follows what a ranking has read and will still ask
for (`NothingIgnored`: names are read before features, which are replaced and never deleted),
and what the score has lost and gained by each of its queries (`Scored`); insights
are never deleted.

The last three rest on there being a newest row in a finite set and an earliest time
among those left to do (`Newest`, `MinIsMember`), which is proved by taking the
smallest of the sets of rows not older than a row. `NothingMissed`: a feature that was
known is replaced only by one of its name and time, and the row that is built has
one as new or will still ask for its name. `Refreshing`: what a quiet run has done so
far is as the rules give it, and what it holds between computing and saving is one of
the results, although the honeypot score asks twice. `Assured`: a score below 100 in
hand means that there is none of 100 at its time. All three need that the other run
does not write at the times of this one, which is not in the code as such: the job
computes for a reading of the clock, at which no snapshot and no block is dated, the
script for times of snapshots (`Apart`). Every step is first reduced to what it does
to one run (`WorkerMoves`).

### Not proved

Only model-checked is liveness (`EventuallyFinalized`, `RecoveryCompletes`, `EveryRequestEnds`,
`PrimaryReturns`, `EveryWindowLabelled`, `ScansEnd`): fairness is out of the prover's
reach. Every invariant and every action property of the passing runs is a theorem, some
under the assumptions named above.

## 5. Not modelled

* Decoding of ABI words and hex, database columns no decision reads, logging.
* Chunked ingestion (`scripts/chunked_ingestion.py`): what a chunk run twice does is
  in the replays of `Ingestion`; its state file and timeouts are not (see the plan).
* Of the research API, the reads of one row or one range, and errors; of the
  ranking, the order of its candidates; of the dataset, `max_rows` and the split.
* Price oracles and pool classification: tables and Decimal arithmetic; so the
  snapshots of `Labelling` have depths and no prices, and those of `Research` given ones.
* `ProviderPool` and `Ingestion` are separate: to `Ingestion` a provider answers
  or, as `Crash`, does not. What their composition would add is a block read
  from endpoints of two views, which `NoLogsLost` shows by itself (section 6).
* Redis evicts nothing before its time, and the clocks of the process, Redis and
  the database are one.
* Configuration, logging, the dashboard, migrations and the diagnostic scripts:
  no state of their own, or I/O only.

## 6. Observations

What the models show beside the findings, and the properties therefore exclude.
Three definitions state promises of the documents that do not hold; no run lists
them, and adding them as an invariant to a configuration shows why:

* `Ingestion!AffectedFactsOrphaned` (ADR-006; `reorg_wedge.cfg`): the facts of a
  replaced block are not orphaned, the header kept being the replaced one.
* `ProviderPool!NoLogsLost` (ADR-006; `failover.cfg`): an endpoint that lags answers
  a request for logs with an empty list, which is taken for the block's.
* `Labelling!NoPostCloseData` (docstring of `evaluate_outcome`; `labelling.cfg` with
  `MaxTime = 2`): an insight of after the close counts.

A start without arguments that finds a checkpoint handles the one block behind it and
ends, although the help text of `--start-block` (`P/main.py:348`) says that omitting
both options tails the head, and ADR-006 that missing blocks are replayed before live
streaming resumes: without a last block `_run_live` takes the first for both (`P/main.py:318`). `RecoveryCompletes` is therefore about starts with a last block; in `live` and
`progress` the starts without one are there as well.

Ingestion, the pool and the labels:

* A block replaced between the reads of one block (`torn`): its facts carry the
  hash of one block and the time of another, or facts of the abandoned block are
  finalized because the engine's own header read sees the new one.
* A reorganisation while the process is down is not noticed; facts of the
  abandoned block that were still PENDING or CONFIRMED are finalized.
* A process that crashes before its first checkpoint starts again at the head:
  the blocks in between are never read (`origin` restarts there).
* A replay of an old range lowers the checkpoint to that range, and a later start
  resumes from it. So does, by up to `Depth - 2` blocks, a start from the checkpoint with an
  `--end-block`: two headers are a window, and the checkpoint saved is `Depth` below the
  second (`RecoveryKeepsCheckpoint` says how far). If such starts crash one after the
  other, each may take the checkpoint further back.
* At the break the block just read was stored before it was checked, so canonical
  facts of the new branch are orphaned, and `save_fact` never revives them.

* An endpoint's body that is not JSON raises through both retries and failover:
  one such answer ends the process although other providers work (`Escape`).
  `OneProviderIsEnough` is therefore about `AllProvidersFailedError` only.
* `_reserves_at` replays all swaps, then all additions, then all removals, each in the order of
  transaction hashes, and clamps at zero after each: a pool that was funded and then
  traded can come out with other reserves than the projection has, although
  `_apply_reserve_delta` calls the reconstruction "byte-identical to what the live engine
  would produce" (`scripts/post_process_analytics.py:156`).
* The script's snapshots for ages not reached yet have a future timestamp and
  today's reserves; the evaluation at the close reads them unless it runs again.
* A bar belongs to a window by its start: trades between the creation and the next
  full minute are not counted, trades up to a minute after the close are.
* Only the script makes bars. A window with snapshots and no bars is labelled
  DEAD_TOKEN, for good.
* The reorg handler logs shallow reorganisations only: in
  `log.warning if ... else log.info(...)` the first branch is not called.

Intelligence scan:

* Marks are set by position: after a failure the failed pool is marked for a day and
  the last scanned one is not. A crash marks nothing, and the next scan repeats all.
* No data and a spent quota count as scanned, so such pools are marked for a day too.
* Attempts that failed are not charged, and the bucket's 140 tokens beside 140 a
  minute allow 280 requests in the first. Its clock is the process's monotonic one.
* A honeypot also gives a moderate risk. Neither the age nor the DEX of a pool is
  asked for, although `filter.py` lists both as rules. The API is asked about the pool.

Listings:

* Labels of one window, insights of one scan and snapshots of two sources share
  their time, and the cursor is the time: those that a page break parts from a
  delivered one are lost. Nothing else is (`OnlyTiesAreLost`).
* Jobs, dataset and ranking take the first page of pairs for all pairs.
* The backfill script writes back the snapshot it read, over anything newer.

Features, dataset, ranking:

* A snapshot upserted, a bar or an insight that comes late leaves the features that
  read it as they were, until the script runs again; and a feature whose rule gives
  nothing any more stays.
* Snapshots of two sources at one time give growth in either order.
* `compute_honeypot_detected_score` asks for honeypots, then for any insight: one
  saved in between gives 0 for a honeypot. Clean pairs have no insight and so no score.
* A window ends a second after `as_of`, and a bar is in it by its start, so its last
  trades may be a minute later.
* A row of the dataset may use a feature of the very time of its label, whose windows
  overlap.
* Growth is in percent and its cap is 1, so one percent weighs as much as a hundred,
  and its absolute value ranks a drain like a gain. A honeypot with good features may
  still outrank a clean pair.
* The ranking reads insights and labels without `as_of` (`_signals` is not given it), so what
  was learned later changes the ranking of the past, although the glossary says that "Every
  computation must only use information available at that historical moment"
  (`docs/008-Glossary.md:411`, and rule 9 at line 643). `RankingMissesNothing` does
  not ask for it; a property that did would fail.

## 7. Plan

1. Done: `FactStore`, `Ingestion`, `ConfirmationLifecycle`, `StateProjection`,
   `ProviderPool`, `OutcomeRules`, `Labelling`, `RiskRules`, `IntelligenceScan`,
   `Pages`, `FeatureRules`, `Research`, and the eight proof modules.
2. Proofs about what items 3 and 4 add.
3. Chunked ingestion over `Ingestion`'s replay: its state file against the facts.
4. Pure algorithms against reference definitions: reconstruction of past reserves
   (`_reserves_at`) against the projection, bar aggregation, pool classification.
