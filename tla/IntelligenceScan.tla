--------------------------- MODULE IntelligenceScan ---------------------------
(***************************************************************************)
(* The intelligence scan (intelligence/intelligence_job.py, filter.py,     *)
(* goplus_client.py): every few minutes it selects active pools, asks an   *)
(* external security API about each of them within a rate and a daily      *)
(* quota, and saves the insights the answers give.  Its marks, its cache,  *)
(* its counter and its token bucket are keys in Redis with a time to live, *)
(* and outlive the process.  Every call of Redis, of the API and of the    *)
(* database is a step.                                                     *)
(*                                                                         *)
(* A tick is a fraction of a day in which a job may make any number of     *)
(* steps.  Tokens are counted in parts, TokenParts to a token.             *)
(***************************************************************************)
EXTENDS RiskRules

CONSTANTS
  Newest,      \* the pools, newest first
  Activities,  \* what the filter may read of a pool: its reserves, its trades
  Answers,     \* the answers of the API
  Compared,    \* answers whose ratings are compared
  MinTrades,   \* MIN_TRADES_24H
  Selectable,  \* DAILY_QUOTA of the filter: pools of one scan
  Quota,       \* _DAILY_QUOTA: charges of one day
  Attempts,    \* _MAX_RETRIES + 1
  Polls,       \* how often the bucket is asked for a token
  Capacity,    \* parts the bucket holds
  Refill,      \* parts it gains in a tick
  TokenParts,  \* parts of one token
  Day,         \* ticks of a day, the time to live of marks and of the cache
  Interval,    \* ticks between two scans
  MaxTime,     \* bound: the clock stops here
  MaxChanges,  \* bound: changes of what the filter reads
  MaxCrashes   \* bound: crashes of the process

Pools == {Newest[i] : i \in DOMAIN Newest}

ASSUME ScanAssumption ==
  /\ Newest \in Seq(Pools) /\ \A i, j \in DOMAIN Newest : Newest[i] = Newest[j] => i = j
  /\ Activities \subseteq [liquid : BOOLEAN, trades : Nat]
  /\ Answers \subseteq Compared /\ Compared \subseteq Answer
  /\ {MinTrades, Selectable, Quota, Refill, MaxTime, MaxChanges, MaxCrashes} \subseteq Nat
  /\ {Attempts, Polls, TokenParts, Day, Interval} \subseteq Nat \ {0}
  /\ Capacity \in Nat /\ TokenParts <= Capacity

Never == -1
Untraded == [liquid |-> FALSE, trades |-> 0]
NoData == [flags |-> {}, sell_tax |-> -1, buy_tax |-> -1]

VARIABLES
  now,       \* the clock
  activity,  \* reserves in Redis and trades of the last 24 hours, of each pool
  changes,   \* how often they changed
  marks,     \* goplus_scanned: when the mark of a pool expires, or Never
  cache,     \* goplus: the cached answer of a pool and when it was given
  charged,   \* goplus_daily_cu: charges of each day; the key outlives its day
  bucket,    \* goplus_rate_limit: parts left, and when that was computed
  insights,  \* table insights; "learned", when its answer was given
             \* or, if it comes from the cache, cached, is auxiliary
  job,       \* the scan; of the failures the code keeps the number only
  taken,     \* auxiliary: tokens taken since the beginning of each tick
  crashes    \* how often the process crashed

keys == <<marks, cache, charged, bucket>>
vars == <<now, activity, changes, keys, insights, job, taken, crashes>>

NoEntry == [answer |-> NoData, learned |-> Never]

IdleJob ==
  [pc |-> "idle", now |-> 0, queue |-> <<>>, index |-> 1, scanned |-> 0, failed |-> {},
   tries |-> 0, day |-> 0, entry |-> NoEntry, todo |-> {}]

Pool == job.queue[job.index]
DayOf(t) == t \div Day
Smaller(a, b) == IF a < b THEN a ELSE b
-----------------------------------------------------------------------------
(* The environment.                                                        *)

Tick ==
  /\ now < MaxTime
  /\ now' = now + 1
  /\ UNCHANGED <<activity, changes, keys, insights, job, taken, crashes>>

\* Swaps and liquidity events, and bars that leave the last 24 hours.
Trade ==
  /\ changes < MaxChanges
  /\ changes' = changes + 1
  /\ \E p \in Pools : \E a \in Activities \ {activity[p]} :
       activity' = [activity EXCEPT ![p] = a]
  /\ UNCHANGED <<now, keys, insights, job, taken, crashes>>
-----------------------------------------------------------------------------
(* select_tokens_for_scan.                                                 *)

Marked(p) == now < marks[p]

\* Neither the age of a pool nor its DEX is asked for.
IsCandidate(p) ==
  /\ ~Marked(p)
  /\ activity[p].liquid
  /\ activity[p].trades >= MinTrades

\* Most active first, and newest first among the equally active.
Before(p, q) ==
  \/ activity[p].trades > activity[q].trades
  \/ /\ activity[p].trades = activity[q].trades
     /\ \E i, j \in DOMAIN Newest : Newest[i] = p /\ Newest[j] = q /\ i < j

Queues == UNION {[1..n -> Pools] : n \in 1..Selectable}

\* The candidates in this order, as many as one scan takes.
IsSelection(queue) ==
  LET candidates == {p \in Pools : IsCandidate(p)}
      chosen == {queue[i] : i \in DOMAIN queue}
  IN  /\ Len(queue) = Smaller(Cardinality(candidates), Selectable)
      /\ chosen \subseteq candidates
      /\ \A i, j \in DOMAIN queue : i < j => Before(queue[i], queue[j])
      /\ \A p \in chosen, q \in candidates \ chosen : Before(p, q)

StartScan ==
  /\ job.pc = "idle"
  /\ now % Interval = 0
  /\ \E queue \in Queues :
       /\ IsSelection(queue)
       /\ job' = [IdleJob EXCEPT !.pc = "look_up", !.now = now, !.queue = queue]
  /\ UNCHANGED <<now, activity, changes, keys, insights, taken, crashes>>
-----------------------------------------------------------------------------
(* The loop of run_intelligence_scan.                                      *)

\* The job after the pool it is at.
NextToken(j) ==
  IF j.index < Len(j.queue)
    THEN [j EXCEPT !.pc = "look_up", !.index = @ + 1, !.tries = 0,
                   !.entry = NoEntry, !.todo = {}]
    ELSE [j EXCEPT !.pc = "mark", !.index = 1, !.tries = 0,
                   !.entry = NoEntry, !.todo = {}]

TokenDone(j) == NextToken([j EXCEPT !.scanned = @ + 1])

\* Not the code: the first failure ends the loop.
StopAtFailure(j) == [j EXCEPT !.pc = "mark", !.index = 1, !.failed = @ \cup {j.index}]

\* except Exception: the loop goes on.
TokenFailed(j) == NextToken([j EXCEPT !.failed = @ \cup {j.index}])

\* What the job does with an answer: nothing but count it, if there is none.
Generate(j, entry) ==
  IF entry.answer = NoData THEN {TokenDone(j)}
  ELSE {IF types = {} THEN TokenDone(j)
        ELSE [j EXCEPT !.pc = "save", !.entry = entry, !.todo = types] :
          types \in {GenerateInsights(entry.answer, up) : up \in BOOLEAN}}

\* Not the code: cached answers live for ever.
CachedForEver(p) == cache[p] # NoEntry

Cached(p) == cache[p] # NoEntry /\ now < cache[p].learned + Day

\* Not the code: the quota is checked when the scan begins only.
QuotaLeftAtStart == job.index > 1 \/ charged[DayOf(now)] < Quota

QuotaLeft == charged[DayOf(now)] < Quota

\* get_token_security.  A spent quota ends it as an answer without data does.
LookUp ==
  /\ job.pc = "look_up"
  /\ job' \in IF Cached(Pool) THEN Generate(job, cache[Pool])
              ELSE IF QuotaLeft
                THEN {[job EXCEPT !.pc = "acquire", !.tries = 1, !.day = DayOf(now)]}
                ELSE {TokenDone(job)}
  /\ UNCHANGED <<now, activity, changes, keys, insights, taken, crashes>>

\* Not the code: the bucket is full again after any pause.
FullAgain == IF now > bucket.at THEN Capacity ELSE bucket.parts

\* The script in Redis.
PartsNow == Smaller(Capacity, bucket.parts + Refill * (now - bucket.at))

\* _acquire_token.
TakeToken ==
  /\ job.pc = "acquire"
  /\ PartsNow >= TokenParts
  /\ bucket' = [parts |-> PartsNow - TokenParts, at |-> now]
  /\ taken' = [s \in DOMAIN taken |-> IF s <= now THEN taken[s] + 1 ELSE 0]
  /\ job' = [job EXCEPT !.pc = "ask", !.tries = 1]
  /\ UNCHANGED <<now, activity, changes, marks, cache, charged, insights, crashes>>

NoToken ==
  /\ job.pc = "acquire"
  /\ PartsNow < TokenParts
  /\ bucket' = [parts |-> PartsNow, at |-> now]
  /\ job' = IF job.tries < Polls THEN [job EXCEPT !.tries = @ + 1] ELSE TokenFailed(job)
  /\ UNCHANGED <<now, activity, changes, marks, cache, charged, insights, taken, crashes>>

\* Not the code: the attempts are counted from one again.
RepeatForEver == [job EXCEPT !.tries = IF @ < Attempts THEN @ + 1 ELSE 1]

\* 429, a server error or a timeout: the request is sent again.
Repeat == IF job.tries < Attempts THEN [job EXCEPT !.tries = @ + 1] ELSE TokenFailed(job)

\* One attempt of _call_with_retry.
AskAgain ==
  /\ job.pc = "ask"
  /\ job' = Repeat
  /\ UNCHANGED <<now, activity, changes, keys, insights, taken, crashes>>

Answered ==
  /\ job.pc = "ask"
  /\ \E answer \in Answers \cup {NoData} :
       job' = [job EXCEPT !.pc = "charge", !.entry = [answer |-> answer, learned |-> now]]
  /\ UNCHANGED <<now, activity, changes, keys, insights, taken, crashes>>

\* The charge is of the day on which the quota was checked.
Charge ==
  /\ job.pc = "charge"
  /\ charged' = [charged EXCEPT ![job.day] = @ + 1]
  /\ job' \in IF job.entry.answer = NoData THEN Generate(job, job.entry)
              ELSE {[job EXCEPT !.pc = "cache"]}
  /\ UNCHANGED <<now, activity, changes, marks, cache, bucket, insights, taken, crashes>>

SaveInCache ==
  /\ job.pc = "cache"
  /\ cache' = [cache EXCEPT ![Pool] = [answer |-> job.entry.answer, learned |-> now]]
  /\ job' \in Generate(job, job.entry)
  /\ UNCHANGED <<now, activity, changes, marks, charged, bucket, insights, taken, crashes>>

\* save_insight replaces the row of the same pool, type and time.
SaveInsight ==
  /\ job.pc = "save"
  /\ \E type \in FirstOfRules(job.todo) :
       LET row == [pool |-> Pool, type |-> type, at |-> job.now, learned |-> job.entry.learned]
       IN  /\ insights' = {r \in insights : \/ r.pool # row.pool
                                            \/ r.type # row.type
                                            \/ r.at # row.at} \cup {row}
           /\ job' = IF job.todo = {type} THEN TokenDone(job)
                      ELSE [job EXCEPT !.todo = @ \ {type}]
  /\ UNCHANGED <<now, activity, changes, keys, taken, crashes>>

\* Any call of the loop's body raises: another HTTP error, Redis, the database.
Fail ==
  /\ job.pc \in {"look_up", "acquire", "ask", "charge", "cache", "save"}
  /\ job' = TokenFailed(job)
  /\ UNCHANGED <<now, activity, changes, keys, insights, taken, crashes>>

\* pool_addresses[:scanned]: as many as were scanned, and the first of the queue.
Mark ==
  /\ job.pc = "mark"
  /\ IF job.index <= job.scanned
       THEN /\ marks' = [marks EXCEPT ![Pool] = now + Day]
            /\ job' = [job EXCEPT !.index = @ + 1]
       ELSE /\ job' = IdleJob
            /\ UNCHANGED marks
  /\ UNCHANGED <<now, activity, changes, cache, charged, bucket, insights, taken, crashes>>

\* The process dies, or the job raises while it selects or marks.
Crash ==
  /\ crashes < MaxCrashes
  /\ job.pc # "idle"
  /\ crashes' = crashes + 1
  /\ job' = IdleJob
  /\ UNCHANGED <<now, activity, changes, keys, insights, taken>>
-----------------------------------------------------------------------------
JobStep ==
  \/ LookUp \/ TakeToken \/ NoToken
  \/ AskAgain \/ Answered \/ Charge \/ SaveInCache
  \/ SaveInsight \/ Fail \/ Mark

Init ==
  /\ now = 0
  /\ activity = [p \in Pools |-> Untraded]
  /\ changes = 0
  /\ marks = [p \in Pools |-> Never]
  /\ cache = [p \in Pools |-> NoEntry]
  /\ charged = [d \in 0..DayOf(MaxTime) |-> 0]
  /\ bucket = [parts |-> Capacity, at |-> 0]
  /\ insights = {}
  /\ job = IdleJob
  /\ taken = [s \in 0..MaxTime |-> 0]
  /\ crashes = 0

Next == Tick \/ Trade \/ StartScan \/ JobStep \/ Crash

Spec == Init /\ [][Next]_vars

\* The awaits of the job return: every request has a timeout.
FairSpec == Spec /\ WF_vars(JobStep)
-----------------------------------------------------------------------------
(* Properties.                                                             *)

Entry == [answer : Answers \cup {NoData}, learned : Nat] \cup {NoEntry}

Insight == [pool : Pools, type : InsightTypes, at : Nat, learned : Nat]

Job ==
  [pc : {"idle", "look_up", "acquire", "ask", "charge", "cache", "save", "mark"},
   now : Nat, queue : Seq(Pools), index : Nat \ {0}, scanned : Nat, failed : SUBSET Nat,
   tries : Nat, day : 0..DayOf(MaxTime), entry : Entry, todo : SUBSET InsightTypes]

\* Every variable has its type.
TypeOK ==
  /\ now \in 0..MaxTime
  /\ activity \in [Pools -> Activities \cup {Untraded}]
  /\ changes \in 0..MaxChanges
  /\ marks \in [Pools -> Nat \cup {Never}]
  /\ cache \in [Pools -> Entry]
  /\ charged \in [0..DayOf(MaxTime) -> Nat]
  /\ bucket \in [parts : 0..Capacity, at : 0..now]
  /\ insights \subseteq Insight
  /\ job \in Job
  /\ taken \in [0..MaxTime -> Nat]
  /\ crashes \in 0..MaxCrashes

\* No day is charged more than its quota, although the counter is read before
\* the wait for a token and the retries, and incremented after them, perhaps on
\* the next day ("stops at 28,000/day", goplus_client.py).
QuotaHeld == \A d \in DOMAIN charged : charged[d] <= Quota

\* Between any two moments no more tokens are taken than the bucket holds and
\* gains in between, over crashes and scans (the script in _acquire_token).
RateBound ==
  \A s \in 0..now : TokenParts * taken[s] <= Capacity + Refill * (now - s)

\* A scan that comes to its marks went through all of its candidates, whatever
\* failed on the way ("no cascade failures", intelligence_job.py).
FailuresIsolated ==
  job.pc = "mark" => job.scanned + Cardinality(job.failed) = Len(job.queue)

\* No insight rests on an answer that was a day old when its scan began (the
\* time to live of the cache, goplus_client.py).
InsightsAreFresh == \A i \in insights : i.at < i.learned + Day

Ratings == [a \in Compared |-> [up \in BOOLEAN |-> Rating(a, up)]]

\* An answer worse than the one the scan reports would be scored no lower, and
\* would be HIGH if that one is, however sums are rounded, although a flag more
\* may switch a rule off, as a honeypot's does (risk_rules.py and the else-branch
\* of insight_generator.py).
RulesGraded ==
  job.pc = "save" =>
    \A a \in Compared : Worse(job.entry.answer, a) =>
      \A up \in BOOLEAN :
        /\ Ratings[job.entry.answer][up].score <= Ratings[a][up].score
        /\ Ratings[job.entry.answer][up].alert => Ratings[a][up].alert

\* A scan ends, whatever the API answers.
ScansEnd == (job.pc # "idle") ~> (job.pc = "idle")
=============================================================================
