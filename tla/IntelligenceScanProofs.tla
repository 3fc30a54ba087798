------------------------ MODULE IntelligenceScanProofs ------------------------
(***************************************************************************)
(* Proofs about IntelligenceScan, for any pools, answers, quota, bucket    *)
(* and times: the types, the daily quota, the bound of the token bucket,   *)
(* the candidates a scan goes through, the age of the answers behind an    *)
(* insight, and that a worse answer is never rated better.                 *)
(***************************************************************************)
EXTENDS IntelligenceScan, FiniteSetTheorems, WellFoundedInduction, TLAPS

Loop == {"look_up", "acquire", "ask", "charge", "cache", "save"}

(* The job is at one of its candidates, and what was said of those before  *)
(* it adds up; at the end, of all of them.                                 *)
InLoop(j) ==
  /\ j.index \in 1..Len(j.queue)
  /\ j.failed \subseteq 1..(j.index - 1)
  /\ j.scanned + Cardinality(j.failed) = j.index - 1
AtMarks(j) == j.scanned + Cardinality(j.failed) = Len(j.queue)

LoopOK == (job.pc \in Loop => InLoop(job)) /\ (job.pc = "mark" => AtMarks(job))

(* An answer in hand was given, and less than a day before its scan or     *)
(* later.                                                                  *)
EntryOK ==
  /\ job.now <= now
  /\ job.pc \in {"charge", "cache", "save"} =>
       /\ job.entry # NoEntry
       /\ job.now < job.entry.learned + Day

(* A job that found quota left has one charge of that day to spend.        *)
Pending(d) == IF job.pc \in {"acquire", "ask", "charge"} /\ job.day = d THEN 1 ELSE 0
ChargeOK == \A d \in DOMAIN charged : charged[d] + Pending(d) <= Quota

(* Tokens taken since a moment are paid from what the bucket held then and *)
(* gained since.                                                           *)
BucketOK ==
  \A s \in 0..MaxTime :
    IF s <= bucket.at
      THEN TokenParts * taken[s] + bucket.parts <= Capacity + Refill * (bucket.at - s)
      ELSE taken[s] = 0

IInv == TypeOK /\ LoopOK /\ EntryOK /\ ChargeOK /\ BucketOK /\ InsightsAreFresh

(* Division keeps order.                                                   *)
LEMMA DivKeepsOrder ==
  ASSUME NEW a \in Nat, NEW b \in Nat, NEW d \in Nat \ {0}, a <= b
  PROVE  a \div d \in Nat /\ b \div d \in Nat /\ a \div d <= b \div d
OBVIOUS

(* The product of natural numbers is one.                                  *)
LEMMA ProductIsNat == ASSUME NEW a \in Nat, NEW b \in Nat PROVE a * b \in Nat
OBVIOUS

(* Products of sums.                                                       *)
LEMMA ProductOfSum ==
  ASSUME NEW a \in Int, NEW b \in Int, NEW c \in Int
  PROVE  a * (b + c) = a * b + a * c /\ a * b \in Int /\ a * c \in Int
OBVIOUS

LEMMA InitEstablishes == Init => IInv
<1> SUFFICES ASSUME Init PROVE IInv
  OBVIOUS
<1> USE ScanAssumption
<1>1. DayOf(0) \in 0..DayOf(MaxTime)
  BY DivKeepsOrder DEF DayOf
<1>2. job \in Job
  <2>1. 0 \in 0..DayOf(MaxTime)
    BY DivKeepsOrder DEF DayOf
  <2> QED
    BY <2>1 DEF Init, IdleJob, Job, Entry, NoEntry
<1>3. TypeOK
  <2>1. insights \subseteq Insight /\ marks \in [Pools -> Nat \cup {Never}]
    BY DEF Init
  <2>2. cache \in [Pools -> Entry] /\ activity \in [Pools -> Activities \cup {Untraded}]
    BY DEF Init, Entry
  <2>3. charged \in [0..DayOf(MaxTime) -> Nat] /\ taken \in [0..MaxTime -> Nat]
    BY DEF Init
  <2>4. bucket \in [parts : 0..Capacity, at : 0..now]
    BY DEF Init
  <2> QED
    BY <1>2, <2>1, <2>2, <2>3, <2>4 DEF Init, TypeOK
<1>4. LoopOK /\ EntryOK
  BY DEF Init, LoopOK, EntryOK, IdleJob, Loop
<1>5. ChargeOK
  BY DEF Init, ChargeOK, Pending, IdleJob
<1>6. BucketOK
  <2> SUFFICES ASSUME NEW s \in 0..MaxTime
               PROVE  IF s <= bucket.at
                        THEN TokenParts * taken[s] + bucket.parts
                               <= Capacity + Refill * (bucket.at - s)
                        ELSE taken[s] = 0
    BY DEF BucketOK
  <2>1. bucket.at = 0 /\ bucket.parts = Capacity /\ taken[s] = 0
    BY DEF Init
  <2>2. TokenParts * 0 = 0 /\ Refill * 0 = 0
    OBVIOUS
  <2> QED
    BY <2>1, <2>2
<1>7. InsightsAreFresh
  BY DEF Init, InsightsAreFresh
<1> QED
  BY <1>3, <1>4, <1>5, <1>6, <1>7 DEF IInv

(* A token is done with: the job is at the next one or at its marks.       *)
LEMMA TokenIsOver ==
  ASSUME NEW j \in Job, InLoop(j),
         NEW k \in {TokenDone(j), TokenFailed(j)}
  PROVE  /\ k \in Job /\ k.now = j.now
         /\ \/ k.pc = "look_up" /\ InLoop(k)
            \/ k.pc = "mark" /\ AtMarks(k)
<1> DEFINE Said(h) ==
      /\ h \in Job /\ h.index = j.index /\ h.queue = j.queue /\ h.now = j.now
      /\ h.failed \subseteq 1..j.index
      /\ h.scanned + Cardinality(h.failed) = j.index
<1>1. j.index \in Nat \ {0} /\ Len(j.queue) \in Nat /\ j.scanned \in Nat
  BY DEF Job
<1>2. IsFiniteSet(j.failed) /\ Cardinality(j.failed) \in Nat
  <2>0. j.index - 1 \in Int /\ 1 \in Int
    BY <1>1
  <2>1. IsFiniteSet(1..(j.index - 1))
    BY <2>0, FS_Interval
  <2>2. IsFiniteSet(j.failed)
    BY <2>1, FS_Subset DEF InLoop
  <2> QED
    BY <2>2, FS_CardinalityType
<1>3. Said([j EXCEPT !.scanned = @ + 1])
  <2> DEFINE h == [j EXCEPT !.scanned = @ + 1]
  <2>1. /\ h \in Job /\ h.index = j.index /\ h.queue = j.queue /\ h.now = j.now
        /\ h.failed = j.failed /\ h.scanned = j.scanned + 1
    BY DEF Job
  <2> QED
    BY <1>1, <1>2, <2>1 DEF InLoop
<1>4. Said([j EXCEPT !.failed = @ \cup {j.index}])
  <2>1. j.index \notin j.failed
    BY <1>1 DEF InLoop
  <2>2. Cardinality(j.failed \cup {j.index}) = Cardinality(j.failed) + 1
    BY <1>2, <2>1, FS_AddElement
  <2> DEFINE h == [j EXCEPT !.failed = @ \cup {j.index}]
  <2>3. j.failed \cup {j.index} \in SUBSET Nat
    BY <1>1 DEF Job
  <2>4. /\ h \in Job /\ h.index = j.index /\ h.queue = j.queue /\ h.now = j.now
        /\ h.failed = j.failed \cup {j.index} /\ h.scanned = j.scanned
    BY <2>3 DEF Job
  <2> QED
    BY <1>1, <1>2, <2>2, <2>4 DEF InLoop
<1>0. NoEntry \in Entry
  BY DEF Entry
<1>5. ASSUME NEW h \in Job, Said(h)
      PROVE  /\ NextToken(h) \in Job /\ NextToken(h).now = j.now
             /\ \/ NextToken(h).pc = "look_up" /\ InLoop(NextToken(h))
                \/ NextToken(h).pc = "mark" /\ AtMarks(NextToken(h))
  <2>1. CASE j.index < Len(j.queue)
    <3> DEFINE n == [h EXCEPT !.pc = "look_up", !.index = h.index + 1, !.tries = 0,
                              !.entry = NoEntry, !.todo = {}]
    <3>1. NextToken(h) = n
      BY <1>5, <2>1 DEF NextToken
    <3>2. h.index + 1 \in Nat \ {0} /\ h.index = j.index
      BY <1>1, <1>5
    <3>3. n \in Job
      BY <1>0, <3>2 DEF Job
    <3>4. /\ n.now = j.now /\ n.pc = "look_up" /\ n.index = j.index + 1
          /\ n.queue = j.queue /\ n.failed = h.failed /\ n.scanned = h.scanned
      BY <1>5, <3>2 DEF Job
    <3> QED
      BY <1>1, <1>5, <2>1, <3>1, <3>3, <3>4 DEF InLoop
  <2>2. CASE ~(j.index < Len(j.queue))
    <3> DEFINE n == [h EXCEPT !.pc = "mark", !.index = 1, !.tries = 0,
                              !.entry = NoEntry, !.todo = {}]
    <3>1. NextToken(h) = n
      BY <1>5, <2>2 DEF NextToken
    <3>2. n \in Job
      <4>1. 1 \in Nat \ {0} /\ 0 \in Nat /\ {} \in SUBSET InsightTypes
        OBVIOUS
      <4>2. [h EXCEPT !.pc = "mark", !.index = 1] \in Job
        BY <4>1 DEF Job
      <4> QED
        BY <1>0, <4>1, <4>2 DEF Job
    <3>3. /\ n.now = j.now /\ n.pc = "mark" /\ n.queue = j.queue
          /\ n.failed = h.failed /\ n.scanned = h.scanned
      BY <1>5 DEF Job
    <3> QED
      BY <1>1, <1>5, <2>2, <3>1, <3>2, <3>3 DEF InLoop, AtMarks
  <2> QED
    BY <2>1, <2>2
<1> QED
  BY <1>3, <1>4, <1>5 DEF TokenDone, TokenFailed

(* What the job may do with an answer.                                     *)
LEMMA AnswerIsUsed ==
  ASSUME NEW j \in Job, InLoop(j), NEW entry \in Entry,
         NEW k \in Generate(j, entry)
  PROVE  /\ k \in Job /\ k.now = j.now
         /\ \/ k.pc = "look_up" /\ InLoop(k)
            \/ k.pc = "mark" /\ AtMarks(k)
            \/ k.pc = "save" /\ InLoop(k) /\ k.entry = entry
<1>1. CASE k = TokenDone(j)
  BY <1>1, TokenIsOver
<1>2. CASE k # TokenDone(j)
  <2>1. PICK up \in BOOLEAN :
          k = [j EXCEPT !.pc = "save", !.entry = entry,
                        !.todo = GenerateInsights(entry.answer, up)]
    BY <1>2 DEF Generate
  <2>2. GenerateInsights(entry.answer, up) \subseteq InsightTypes
    BY DEF GenerateInsights
  <2>3. /\ k \in Job /\ k.now = j.now /\ k.pc = "save" /\ k.entry = entry
        /\ k.index = j.index /\ k.queue = j.queue /\ k.failed = j.failed
        /\ k.scanned = j.scanned
    BY <2>1, <2>2 DEF Job
  <2> QED
    BY <2>3 DEF InLoop
<1> QED
  BY <1>1, <1>2

(* The pool the job is at.                                                 *)
LEMMA PoolType == ASSUME job \in Job, InLoop(job) PROVE Pool \in Pools
BY DEF Job, InLoop, Pool

(* Times are natural numbers.                                              *)
LEMMA NowType ==
  ASSUME TypeOK
  PROVE  /\ now \in Nat /\ now <= MaxTime /\ MaxTime \in Nat /\ Day \in Nat \ {0}
         /\ DayOf(now) \in 0..DayOf(MaxTime) /\ DayOf(MaxTime) \in Nat
<1>1. now \in Nat /\ now <= MaxTime /\ MaxTime \in Nat /\ Day \in Nat \ {0}
  BY ScanAssumption DEF TypeOK
<1> QED
  BY <1>1, DivKeepsOrder DEF DayOf

LEMMA StepKeepsJob ==
  ASSUME IInv, [Next]_vars
  PROVE  job' \in Job /\ LoopOK' /\ EntryOK'
<1> DEFINE Good == job' \in Job /\ LoopOK' /\ EntryOK'
<1>0. /\ job \in Job /\ TypeOK /\ LoopOK /\ EntryOK
      /\ now \in Nat /\ job.now \in Nat /\ job.now <= now /\ Day \in Nat \ {0}
      /\ DayOf(now) \in 0..DayOf(MaxTime) /\ DayOf(MaxTime) \in Nat
      /\ job.tries + 1 \in Nat /\ job.index + 1 \in Nat \ {0}
  <2>1. job \in Job /\ TypeOK /\ LoopOK /\ EntryOK
    BY DEF IInv, TypeOK
  <2>2. job.now \in Nat /\ job.tries \in Nat /\ job.index \in Nat \ {0}
    BY <2>1 DEF Job
  <2>3. job.now <= now
    BY <2>1 DEF EntryOK
  <2>4. job.tries + 1 \in Nat /\ job.index + 1 \in Nat \ {0}
    BY <2>2
  <2> QED
    BY <2>1, <2>2, <2>3, <2>4, NowType
<1>1. ASSUME job.pc \in Loop, job' \in {TokenDone(job), TokenFailed(job)}, now' = now
      PROVE  Good
  <2>1. InLoop(job)
    BY <1>0, <1>1 DEF LoopOK
  <2>2. /\ job' \in Job /\ job'.now = job.now
        /\ \/ job'.pc = "look_up" /\ InLoop(job')
           \/ job'.pc = "mark" /\ AtMarks(job')
    BY <1>0, <1>1, <2>1, TokenIsOver
  <2> QED
    BY <1>0, <1>1, <2>2 DEF LoopOK, EntryOK, Loop
<1>2. ASSUME job.pc \in Loop, NEW entry \in Entry, entry # NoEntry,
             job.now < entry.learned + Day, job' \in Generate(job, entry), now' = now
      PROVE  Good
  <2>1. InLoop(job)
    BY <1>0, <1>2 DEF LoopOK
  <2>2. /\ job' \in Job /\ job'.now = job.now
        /\ \/ job'.pc = "look_up" /\ InLoop(job')
           \/ job'.pc = "mark" /\ AtMarks(job')
           \/ job'.pc = "save" /\ InLoop(job') /\ job'.entry = entry
    BY <1>0, <1>2, <2>1, AnswerIsUsed
  <2> QED
    BY <1>0, <1>2, <2>2 DEF LoopOK, EntryOK, Loop
<1>3. ASSUME job.pc \in Loop, job'.pc \in Loop, job' \in Job, now' = now,
             job'.now = job.now, job'.queue = job.queue, job'.index = job.index,
             job'.failed = job.failed, job'.scanned = job.scanned,
             job'.pc \in {"charge", "cache", "save"} =>
               job'.entry # NoEntry /\ job.now < job'.entry.learned + Day
      PROVE  Good
  <2>1. InLoop(job) /\ job'.pc # "mark"
    BY <1>0, <1>3 DEF LoopOK, Loop
  <2>2. InLoop(job')
    BY <1>3, <2>1 DEF InLoop
  <2> QED
    BY <1>0, <1>3, <2>1, <2>2 DEF LoopOK, EntryOK
<1>4. ASSUME job' = job, now' \in Nat, now <= now'
      PROVE  Good
  BY <1>0, <1>4 DEF LoopOK, EntryOK
<1>5. ASSUME job' = IdleJob, now' = now PROVE Good
  <2>1. 0 \in 0..DayOf(MaxTime) /\ NoEntry \in Entry
    BY <1>0 DEF Entry
  <2>2. job' \in Job /\ job'.pc = "idle" /\ job'.now = 0
    BY <1>5, <2>1 DEF IdleJob, Job
  <2> QED
    BY <1>0, <1>5, <2>2 DEF LoopOK, EntryOK, Loop
<1>6. CASE Tick
  BY <1>0, <1>4, <1>6 DEF Tick
<1>7. CASE Trade
  BY <1>0, <1>4, <1>7 DEF Trade
<1>8. CASE StartScan
  <2>1. PICK queue \in Queues :
          job' = [IdleJob EXCEPT !.pc = "look_up", !.now = now, !.queue = queue]
    BY <1>8 DEF StartScan
  <2>2. queue \in Seq(Pools) /\ Len(queue) \in Nat \ {0}
    <3>1. PICK n \in 1..Selectable : queue \in [1..n -> Pools]
      BY <2>1 DEF Queues
    <3>2. n \in Nat \ {0}
      BY <3>1, ScanAssumption
    <3> QED
      BY <3>1, <3>2
  <2>3. 0 \in 0..DayOf(MaxTime) /\ NoEntry \in Entry
    BY <1>0 DEF Entry
  <2>4. /\ job' \in Job /\ job'.pc = "look_up" /\ job'.now = now /\ job'.queue = queue
        /\ job'.index = 1 /\ job'.failed = {} /\ job'.scanned = 0
    <3>1. job' = [pc |-> "look_up", now |-> now, queue |-> queue, index |-> 1, scanned |-> 0,
                  failed |-> {}, tries |-> 0, day |-> 0, entry |-> NoEntry, todo |-> {}]
      BY <2>1 DEF IdleJob
    <3>2. 1 \in Nat \ {0} /\ 0 \in Nat /\ {} \in SUBSET Nat
          /\ {} \in SUBSET InsightTypes
      OBVIOUS
    <3> QED
      BY <1>0, <2>2, <2>3, <3>1, <3>2 DEF Job
  <2>5. Cardinality({}) = 0
    BY FS_EmptySet
  <2>6. InLoop(job')
    BY <2>2, <2>4, <2>5 DEF InLoop
  <2> QED
    BY <1>0, <1>8, <2>4, <2>6 DEF StartScan, LoopOK, EntryOK
<1>9. CASE LookUp
  <2>1. job.pc = "look_up" /\ job.pc \in Loop /\ now' = now
    BY <1>9 DEF LookUp, Loop
  <2>2. CASE Cached(Pool)
    <3>1. cache[Pool] \in Entry
      BY <1>0, <2>1, PoolType DEF LoopOK, TypeOK
    <3>2. cache[Pool] # NoEntry /\ now < cache[Pool].learned + Day
      BY <2>2 DEF Cached
    <3>3. cache[Pool].learned \in Nat
      BY <3>1, <3>2 DEF Entry
    <3>4. job' \in Generate(job, cache[Pool])
      BY <1>9, <2>2 DEF LookUp
    <3> QED
      BY <1>0, <1>2, <2>1, <3>1, <3>2, <3>3, <3>4
  <2>3. CASE ~Cached(Pool) /\ QuotaLeft
    <3>1. job' = [job EXCEPT !.pc = "acquire", !.tries = 1, !.day = DayOf(now)]
      BY <1>9, <2>3 DEF LookUp
    <3> QED
      BY <1>0, <1>3, <2>1, <3>1 DEF Job, Loop
  <2>4. CASE ~Cached(Pool) /\ ~QuotaLeft
    BY <1>1, <1>9, <2>1, <2>4 DEF LookUp
  <2> QED
    BY <2>2, <2>3, <2>4
<1>10. CASE TakeToken
  <2>1. job.pc \in Loop /\ now' = now /\ job' = [job EXCEPT !.pc = "ask", !.tries = 1]
    BY <1>10 DEF TakeToken, Loop
  <2> QED
    BY <1>0, <1>3, <2>1 DEF Job, Loop
<1>11. CASE NoToken
  <2>1. job.pc = "acquire" /\ job.pc \in Loop /\ now' = now
    BY <1>11 DEF NoToken, Loop
  <2>2. CASE job' = [job EXCEPT !.tries = @ + 1]
    BY <1>0, <1>3, <2>1, <2>2 DEF Job, Loop
  <2>3. CASE job' = TokenFailed(job)
    BY <1>1, <2>1, <2>3
  <2> QED
    BY <1>11, <2>2, <2>3 DEF NoToken
<1>12. CASE AskAgain
  <2>1. job.pc = "ask" /\ job.pc \in Loop /\ now' = now
    BY <1>12 DEF AskAgain, Loop
  <2>2. CASE job' = [job EXCEPT !.tries = @ + 1]
    BY <1>0, <1>3, <2>1, <2>2 DEF Job, Loop
  <2>3. CASE job' = TokenFailed(job)
    BY <1>1, <2>1, <2>3
  <2> QED
    BY <1>12, <2>2, <2>3 DEF AskAgain, Repeat
<1>13. CASE Answered
  <2>1. PICK answer \in Answers \cup {NoData} :
          job' = [job EXCEPT !.pc = "charge", !.entry = [answer |-> answer, learned |-> now]]
    BY <1>13 DEF Answered
  <2> DEFINE entry == [answer |-> answer, learned |-> now]
  <2>2. entry \in Entry /\ entry # NoEntry /\ job.now < entry.learned + Day
    BY <1>0 DEF Entry, NoEntry, Never
  <2>3. job.pc \in Loop /\ now' = now
    BY <1>13 DEF Answered, Loop
  <2> HIDE DEF entry
  <2>4. job' = [job EXCEPT !.pc = "charge", !.entry = entry]
    BY <2>1 DEF entry
  <2> QED
    BY <1>0, <1>3, <2>2, <2>3, <2>4 DEF Job, Loop
<1>14. CASE Charge
  <2>1. /\ job.pc = "charge" /\ job.pc \in Loop /\ now' = now
        /\ job.entry \in Entry /\ job.entry # NoEntry
        /\ job.now < job.entry.learned + Day
    BY <1>0, <1>14 DEF Charge, Loop, EntryOK, Job
  <2>2. CASE job' \in Generate(job, job.entry)
    BY <1>2, <2>1, <2>2
  <2>3. CASE job' = [job EXCEPT !.pc = "cache"]
    BY <1>0, <1>3, <2>1, <2>3 DEF Job, Loop
  <2> QED
    BY <1>14, <2>2, <2>3 DEF Charge
<1>15. CASE SaveInCache
  <2>1. /\ job.pc \in Loop /\ now' = now
        /\ job.entry \in Entry /\ job.entry # NoEntry
        /\ job.now < job.entry.learned + Day
    BY <1>0, <1>15 DEF SaveInCache, Loop, EntryOK, Job
  <2> QED
    BY <1>2, <1>15, <2>1 DEF SaveInCache
<1>16. CASE SaveInsight
  <2>1. /\ job.pc = "save" /\ job.pc \in Loop /\ now' = now
        /\ job.entry \in Entry /\ job.entry # NoEntry
        /\ job.now < job.entry.learned + Day
    BY <1>0, <1>16 DEF SaveInsight, Loop, EntryOK, Job
  <2>2. PICK type : job' = IF job.todo = {type} THEN TokenDone(job)
                           ELSE [job EXCEPT !.todo = @ \ {type}]
    BY <1>16 DEF SaveInsight
  <2>3. CASE job.todo = {type}
    BY <1>1, <2>1, <2>2, <2>3
  <2>4. CASE job.todo # {type}
    BY <1>0, <1>3, <2>1, <2>2, <2>4 DEF Job
  <2> QED
    BY <2>3, <2>4
<1>17. CASE Fail
  <2>1. job.pc \in Loop /\ now' = now /\ job' = TokenFailed(job)
    BY <1>17 DEF Fail, Loop
  <2> QED
    BY <1>1, <2>1
<1>18. CASE Mark
  <2>1. job.pc = "mark" /\ now' = now
    BY <1>18 DEF Mark
  <2>2. CASE job' = [job EXCEPT !.index = @ + 1]
    <3>1. /\ job' \in Job /\ job'.pc = "mark" /\ job'.now = job.now
          /\ job'.queue = job.queue /\ job'.failed = job.failed
          /\ job'.scanned = job.scanned
      BY <1>0, <2>1, <2>2 DEF Job
    <3> QED
      BY <1>0, <2>1, <3>1 DEF LoopOK, EntryOK, AtMarks, Loop
  <2>3. CASE job' = IdleJob
    BY <1>5, <2>1, <2>3
  <2> QED
    BY <1>18, <2>2, <2>3 DEF Mark
<1>19. CASE Crash
  BY <1>5, <1>19 DEF Crash
<1>20. CASE UNCHANGED vars
  BY <1>0, <1>4, <1>20 DEF vars
<1> QED
  BY <1>6, <1>7, <1>8, <1>9, <1>10, <1>11, <1>12, <1>13, <1>14, <1>15, <1>16, <1>17,
     <1>18, <1>19, <1>20 DEF Next, JobStep

(* The bucket holds no more than its capacity.                             *)
LEMMA PartsType ==
  ASSUME TypeOK
  PROVE  /\ bucket.parts \in 0..Capacity /\ bucket.at \in 0..now
         /\ Refill * (now - bucket.at) \in Nat
         /\ PartsNow \in 0..Capacity
         /\ PartsNow <= bucket.parts + Refill * (now - bucket.at)
         /\ TokenParts \in Nat \ {0} /\ Capacity \in Nat /\ Refill \in Nat
<1>1. TokenParts \in Nat \ {0} /\ Capacity \in Nat /\ Refill \in Nat
  BY ScanAssumption
<1>2. bucket.parts \in 0..Capacity /\ bucket.at \in 0..now /\ now \in Nat
  BY NowType DEF TypeOK
<1>3. now - bucket.at \in Nat
  BY <1>2
<1>4. Refill * (now - bucket.at) \in Nat
  BY <1>1, <1>3, ProductIsNat
<1>5. bucket.parts + Refill * (now - bucket.at) \in Nat
  BY <1>2, <1>4
<1> QED
  BY <1>1, <1>2, <1>4, <1>5 DEF PartsNow, Smaller

LEMMA StepKeepsType == ASSUME IInv, [Next]_vars PROVE TypeOK'
<1>0. TypeOK /\ now \in Nat /\ MaxTime \in Nat /\ job \in Job
  BY NowType DEF IInv, TypeOK
<1>1. now' \in 0..MaxTime
  <2>1. now' = now \/ (now < MaxTime /\ now' = now + 1)
    BY DEF Next, vars, Tick, Trade, StartScan, JobStep, LookUp, TakeToken, NoToken,
       AskAgain, Answered, Charge, SaveInCache, SaveInsight, Fail, Mark, Crash
  <2> QED
    BY <1>0, <2>1 DEF TypeOK
<1>2. changes' \in 0..MaxChanges /\ crashes' \in 0..MaxCrashes
  <2>1. MaxChanges \in Nat /\ MaxCrashes \in Nat
    BY ScanAssumption
  <2>2. /\ changes' = changes \/ (changes < MaxChanges /\ changes' = changes + 1)
        /\ crashes' = crashes \/ (crashes < MaxCrashes /\ crashes' = crashes + 1)
    BY DEF Next, vars, Tick, Trade, StartScan, JobStep, LookUp, TakeToken, NoToken,
       AskAgain, Answered, Charge, SaveInCache, SaveInsight, Fail, Mark, Crash
  <2> QED
    BY <1>0, <2>1, <2>2 DEF TypeOK
<1>3. activity' \in [Pools -> Activities \cup {Untraded}]
  <2>1. CASE Trade
    BY <1>0, <2>1 DEF Trade, TypeOK
  <2>2. CASE UNCHANGED activity
    BY <1>0, <2>2 DEF TypeOK
  <2> QED
    BY <2>1, <2>2 DEF Next, vars, Tick, StartScan, JobStep, LookUp, TakeToken, NoToken,
       AskAgain, Answered, Charge, SaveInCache, SaveInsight, Fail, Mark, Crash
<1>4. marks' \in [Pools -> Nat \cup {Never}]
  <2>1. CASE Mark
    <3>1. now + Day \in Nat
      BY <1>0, NowType
    <3> QED
      BY <1>0, <2>1, <3>1 DEF Mark, TypeOK
  <2>2. CASE UNCHANGED marks
    BY <1>0, <2>2 DEF TypeOK
  <2> QED
    BY <2>1, <2>2 DEF Next, vars, keys, Tick, Trade, StartScan, JobStep, LookUp, TakeToken,
       NoToken, AskAgain, Answered, Charge, SaveInCache, SaveInsight, Fail, Crash
<1>5. cache' \in [Pools -> Entry]
  <2>1. CASE SaveInCache
    <3>1. job.entry \in Entry /\ job.entry # NoEntry
      BY <1>0, <2>1 DEF SaveInCache, IInv, EntryOK, Job
    <3>2. [answer |-> job.entry.answer, learned |-> now] \in Entry
      BY <1>0, <3>1 DEF Entry
    <3> QED
      BY <1>0, <2>1, <3>2 DEF SaveInCache, TypeOK
  <2>2. CASE UNCHANGED cache
    BY <1>0, <2>2 DEF TypeOK
  <2> QED
    BY <2>1, <2>2 DEF Next, vars, keys, Tick, Trade, StartScan, JobStep, LookUp, TakeToken,
       NoToken, AskAgain, Answered, Charge, SaveInsight, Fail, Mark, Crash
<1>6. charged' \in [0..DayOf(MaxTime) -> Nat]
  <2>1. CASE Charge
    <3>1. job.day \in 0..DayOf(MaxTime) /\ charged \in [0..DayOf(MaxTime) -> Nat]
      BY <1>0 DEF Job, TypeOK
    <3>2. charged[job.day] + 1 \in Nat
      BY <3>1
    <3>3. charged' = [charged EXCEPT ![job.day] = charged[job.day] + 1]
      BY <2>1 DEF Charge
    <3> QED
      BY <3>1, <3>2, <3>3
  <2>2. CASE UNCHANGED charged
    BY <1>0, <2>2 DEF TypeOK
  <2> QED
    BY <2>1, <2>2 DEF Next, vars, keys, Tick, Trade, StartScan, JobStep, LookUp, TakeToken,
       NoToken, AskAgain, Answered, SaveInCache, SaveInsight, Fail, Mark, Crash
<1>7. bucket' \in [parts : 0..Capacity, at : 0..now']
  <2>1. CASE TakeToken
    <3>1. PartsNow - TokenParts \in 0..Capacity /\ now' = now
      BY <1>0, <2>1, PartsType DEF TakeToken
    <3> QED
      BY <1>0, <2>1, <3>1 DEF TakeToken
  <2>2. CASE NoToken
    BY <1>0, <2>2, PartsType DEF NoToken
  <2>3. CASE bucket' = bucket /\ now' \in {now, now + 1}
    BY <1>0, <2>3 DEF TypeOK
  <2> QED
    BY <2>1, <2>2, <2>3 DEF Next, vars, keys, Tick, Trade, StartScan, JobStep, LookUp,
       AskAgain, Answered, Charge, SaveInCache, SaveInsight, Fail, Mark, Crash
<1>8. insights' \subseteq Insight
  <2>1. CASE SaveInsight
    <3>1. PICK type \in FirstOfRules(job.todo) :
            insights' \subseteq insights \cup {[pool |-> Pool, type |-> type, at |-> job.now,
                                               learned |-> job.entry.learned]}
      BY <2>1 DEF SaveInsight
    <3>2. type \in InsightTypes
      BY <3>1 DEF FirstOfRules, InsightTypes
    <3>3. job.entry.learned \in Nat /\ job.now \in Nat
      BY <1>0, <2>1 DEF SaveInsight, IInv, EntryOK, Job, Entry
    <3>4. Pool \in Pools
      BY <1>0, <2>1, PoolType DEF SaveInsight, IInv, LoopOK, Loop
    <3> QED
      BY <1>0, <3>1, <3>2, <3>3, <3>4 DEF TypeOK, Insight
  <2>2. CASE UNCHANGED insights
    BY <1>0, <2>2 DEF TypeOK
  <2> QED
    BY <2>1, <2>2 DEF Next, vars, keys, Tick, Trade, StartScan, JobStep, LookUp, TakeToken,
       NoToken, AskAgain, Answered, Charge, SaveInCache, Fail, Mark, Crash
<1>9. taken' \in [0..MaxTime -> Nat]
  <2>1. CASE TakeToken
    BY <1>0, <2>1 DEF TakeToken, TypeOK
  <2>2. CASE UNCHANGED taken
    BY <1>0, <2>2 DEF TypeOK
  <2> QED
    BY <2>1, <2>2 DEF Next, vars, keys, Tick, Trade, StartScan, JobStep, LookUp,
       NoToken, AskAgain, Answered, Charge, SaveInCache, SaveInsight, Fail, Mark, Crash
<1> QED
  BY <1>1, <1>2, <1>3, <1>4, <1>5, <1>6, <1>7, <1>8, <1>9, StepKeepsJob DEF TypeOK

LEMMA StepKeepsFresh == ASSUME IInv, [Next]_vars PROVE InsightsAreFresh'
<1>1. CASE SaveInsight
  <2>1. PICK type :
          insights' \subseteq insights \cup {[pool |-> Pool, type |-> type, at |-> job.now,
                                             learned |-> job.entry.learned]}
    BY <1>1 DEF SaveInsight
  <2>2. job.now < job.entry.learned + Day
    BY <1>1 DEF SaveInsight, IInv, EntryOK
  <2> QED
    BY <2>1, <2>2 DEF IInv, InsightsAreFresh
<1>2. CASE UNCHANGED insights
  BY <1>2 DEF IInv, InsightsAreFresh
<1> QED
  BY <1>1, <1>2 DEF Next, vars, keys, Tick, Trade, StartScan, JobStep, LookUp, TakeToken,
     NoToken, AskAgain, Answered, Charge, SaveInCache, Fail, Mark, Crash

LEMMA StepKeepsBucket == ASSUME IInv, [Next]_vars PROVE BucketOK'
<1>0. /\ now \in Nat /\ taken \in [0..MaxTime -> Nat] /\ MaxTime \in Nat
      /\ bucket.at \in 0..now /\ bucket.parts \in 0..Capacity
  BY NowType, PartsType DEF IInv, TypeOK
<1>1. ASSUME NEW s \in 0..MaxTime, NEW n \in {0, 1},
             bucket' = [parts |-> PartsNow - TokenParts * n, at |-> now],
             taken' = [t \in 0..MaxTime |->
                         IF t <= now THEN taken[t] + n ELSE 0]
      PROVE  IF s <= now
               THEN TokenParts * taken'[s] + bucket'.parts
                      <= Capacity + Refill * (now - s)
               ELSE taken'[s] = 0
  <2>1. bucket'.parts = PartsNow - TokenParts * n
    BY <1>1
  <2>2. CASE s <= bucket.at
    <3>1. TokenParts * taken[s] + bucket.parts <= Capacity + Refill * (bucket.at - s)
      BY <2>2 DEF IInv, BucketOK
    <3>2. taken'[s] = taken[s] + n /\ taken[s] \in Nat
      BY <1>0, <1>1, <2>2
    <3>3. /\ TokenParts * (taken[s] + n) = TokenParts * taken[s] + TokenParts * n
          /\ TokenParts * taken[s] \in Int /\ TokenParts * n \in Int
      <4>1. TokenParts \in Int /\ taken[s] \in Int /\ n \in Int
        BY <1>1, <3>2, PartsType DEF IInv
      <4> QED
        BY <4>1, ProductOfSum
    <3>4. /\ Refill * ((bucket.at - s) + (now - bucket.at))
               = Refill * (bucket.at - s) + Refill * (now - bucket.at)
          /\ Refill * (bucket.at - s) \in Int
      <4>1. Refill \in Int /\ bucket.at - s \in Int /\ now - bucket.at \in Int
        BY <1>0, PartsType DEF IInv
      <4> QED
        BY <4>1, ProductOfSum
    <3>5. (bucket.at - s) + (now - bucket.at) = now - s
      BY <1>0
    <3>6. /\ PartsNow <= bucket.parts + Refill * (now - bucket.at)
          /\ Refill * (now - bucket.at) \in Int /\ PartsNow \in Int /\ Capacity \in Int
      BY PartsType DEF IInv
    <3>7. bucket'.parts = PartsNow - TokenParts * n
      BY <2>1
    <3>8. bucket.parts \in Int
      BY <1>0
    <3>9. TokenParts * taken'[s] = TokenParts * taken[s] + TokenParts * n
      BY <3>2, <3>3
    <3>10. Refill * (now - s) = Refill * (bucket.at - s) + Refill * (now - bucket.at)
      BY <3>4, <3>5
    <3>11. TokenParts * taken'[s] + bucket'.parts <= Capacity + Refill * (now - s)
      BY <3>1, <3>3, <3>4, <3>6, <3>7, <3>8, <3>9, <3>10
    <3> QED
      BY <1>0, <2>2, <3>11
  <2>3. CASE bucket.at < s /\ s <= now
    <3>1. taken[s] = 0 /\ taken'[s] = n
      BY <1>0, <1>1, <2>3 DEF IInv, BucketOK
    <3>2. Refill * (now - s) \in Nat
      <4>1. now - s \in Nat /\ Refill \in Nat
        BY <1>0, <2>3, PartsType DEF IInv
      <4> QED
        BY <4>1, ProductIsNat
    <3>3. TokenParts * n \in Nat
      BY <1>1, PartsType, ProductIsNat DEF IInv
    <3> QED
      BY <2>1, <2>3, <3>1, <3>2, <3>3, PartsType DEF IInv
  <2>4. CASE now < s
    BY <1>0, <1>1, <2>4
  <2> QED
    BY <1>0, <2>2, <2>3, <2>4
<1>2. CASE TakeToken
  <2>1. bucket' = [parts |-> PartsNow - TokenParts * 1, at |-> now]
    BY <1>2, PartsType DEF TakeToken, IInv
  <2>2. taken' = [t \in 0..MaxTime |-> IF t <= now THEN taken[t] + 1 ELSE 0]
    BY <1>0, <1>2 DEF TakeToken
  <2>3. bucket'.at = now
    BY <2>1
  <2> QED
    BY <1>1, <2>1, <2>2, <2>3 DEF BucketOK
<1>3. CASE NoToken
  <2>1. bucket' = [parts |-> PartsNow - TokenParts * 0, at |-> now]
    BY <1>3, PartsType DEF NoToken, IInv
  <2>2. \A t \in 0..MaxTime : now < t => taken[t] = 0
    BY <1>0 DEF IInv, BucketOK
  <2>3. taken' = [t \in 0..MaxTime |-> IF t <= now THEN taken[t] + 0 ELSE 0]
    BY <1>0, <1>3, <2>2 DEF NoToken
  <2>4. bucket'.at = now
    BY <2>1
  <2> QED
    BY <1>1, <2>1, <2>3, <2>4 DEF BucketOK
<1>4. CASE UNCHANGED <<bucket, taken>>
  BY <1>4 DEF IInv, BucketOK
<1> QED
  BY <1>2, <1>3, <1>4 DEF Next, vars, keys, Tick, Trade, StartScan, JobStep, LookUp,
     AskAgain, Answered, Charge, SaveInCache, SaveInsight, Fail, Mark, Crash

LEMMA StepKeepsCharge == ASSUME IInv, [Next]_vars PROVE ChargeOK'
<1>0. /\ charged \in [0..DayOf(MaxTime) -> Nat] /\ job \in Job /\ job' \in Job
      /\ Quota \in Nat /\ ChargeOK /\ LoopOK /\ DayOf(now) \in 0..DayOf(MaxTime)
  BY StepKeepsJob, NowType, ScanAssumption DEF IInv, TypeOK
<1>1. ASSUME charged' = charged, job'.day = job.day,
             job'.pc \in {"acquire", "ask", "charge"} => job.pc \in {"acquire", "ask", "charge"}
      PROVE  ChargeOK'
  <2>1. \A d \in DOMAIN charged : Pending(d)' <= Pending(d)
    BY <1>1 DEF Pending
  <2>2. \A d \in DOMAIN charged : charged[d] \in Nat /\ Pending(d) \in Nat /\ Pending(d)' \in Nat
    BY <1>0 DEF Pending
  <2>3. \A d \in DOMAIN charged : charged[d] + Pending(d) <= Quota
    BY <1>0 DEF ChargeOK
  <2>4. \A d \in DOMAIN charged : charged[d] + Pending(d)' <= Quota
    BY <1>0, <2>1, <2>2, <2>3
  <2> QED
    BY <1>1, <2>4 DEF ChargeOK
<1>2. ASSUME charged' = charged, job'.pc \notin {"acquire", "ask", "charge"}
      PROVE  ChargeOK'
  <2>1. \A d \in DOMAIN charged : Pending(d)' = 0 /\ Pending(d) \in {0, 1}
    BY <1>2 DEF Pending
  <2>2. \A d \in DOMAIN charged : charged[d] <= Quota
    BY <1>0, <2>1 DEF ChargeOK
  <2> QED
    BY <1>0, <1>2, <2>1, <2>2 DEF ChargeOK
<1>3. ASSUME job.pc \in Loop
      PROVE  /\ TokenDone(job).pc \in {"look_up", "mark"}
             /\ TokenFailed(job).pc \in {"look_up", "mark"}
             /\ \A entry : \A k \in Generate(job, entry) : k.pc \in {"look_up", "mark", "save"}
  <2>1. InLoop(job)
    BY <1>0, <1>3 DEF LoopOK
  <2>2. /\ TokenDone(job).pc \in {"look_up", "mark"}
        /\ TokenFailed(job).pc \in {"look_up", "mark"}
    BY <1>0, <2>1, TokenIsOver
  <2>3. ASSUME NEW entry, NEW k \in Generate(job, entry)
        PROVE  k.pc \in {"look_up", "mark", "save"}
    <3>1. \/ k = TokenDone(job)
          \/ \E types : k = [job EXCEPT !.pc = "save", !.entry = entry, !.todo = types]
      BY <2>3 DEF Generate
    <3> QED
      BY <1>0, <2>2, <3>1 DEF Job
  <2> QED
    BY <2>2, <2>3
<1>4. CASE Tick \/ Trade \/ UNCHANGED vars
  BY <1>1, <1>4 DEF Tick, Trade, vars, keys
<1>5. CASE StartScan
  <2>1. job'.pc = "look_up"
    BY <1>5 DEF StartScan, IdleJob
  <2> QED
    BY <1>2, <1>5, <2>1 DEF StartScan, keys
<1>6. CASE LookUp
  <2>1. charged' = charged /\ job.pc \in Loop
    BY <1>6 DEF LookUp, keys, Loop
  <2>2. CASE ~Cached(Pool) /\ QuotaLeft
    <3>1. job'.pc = "acquire" /\ job'.day = DayOf(now)
      BY <1>0, <1>6, <2>2 DEF LookUp, Job
    <3>2. charged[DayOf(now)] + 1 <= Quota
      BY <1>0, <2>2 DEF QuotaLeft
    <3>3. ASSUME NEW d \in DOMAIN charged PROVE charged[d] + Pending(d)' <= Quota
      <4>1. charged[d] + Pending(d) <= Quota /\ Pending(d) \in {0, 1} /\ charged[d] \in Nat
        BY <1>0 DEF ChargeOK, Pending
      <4>2. Pending(d)' = IF d = DayOf(now) THEN 1 ELSE 0
        BY <3>1 DEF Pending
      <4> QED
        BY <1>0, <3>2, <4>1, <4>2
    <3> QED
      BY <2>1, <3>3 DEF ChargeOK
  <2>3. CASE Cached(Pool) \/ ~QuotaLeft
    <3>1. job' \in Generate(job, cache[Pool]) \/ job' = TokenDone(job)
      BY <1>6, <2>3 DEF LookUp
    <3> QED
      BY <1>2, <1>3, <2>1, <3>1
  <2> QED
    BY <2>2, <2>3
<1>7. CASE TakeToken
  <2>1. charged' = charged /\ job.pc = "acquire" /\ job'.day = job.day
    BY <1>0, <1>7 DEF TakeToken, Job
  <2> QED
    BY <1>1, <2>1
<1>8. CASE NoToken
  <2>1. charged' = charged /\ job.pc = "acquire" /\ job.pc \in Loop
    BY <1>8 DEF NoToken, Loop
  <2>2. CASE job' = TokenFailed(job)
    BY <1>2, <1>3, <2>1, <2>2
  <2>3. CASE job' = [job EXCEPT !.tries = @ + 1]
    BY <1>0, <1>1, <2>1, <2>3 DEF Job
  <2> QED
    BY <1>8, <2>2, <2>3 DEF NoToken
<1>9. CASE AskAgain
  <2>1. charged' = charged /\ job.pc = "ask" /\ job.pc \in Loop
    BY <1>9 DEF AskAgain, Loop, keys
  <2>2. CASE job' = TokenFailed(job)
    BY <1>2, <1>3, <2>1, <2>2
  <2>3. CASE job' = [job EXCEPT !.tries = @ + 1]
    BY <1>0, <1>1, <2>1, <2>3 DEF Job
  <2> QED
    BY <1>9, <2>2, <2>3 DEF AskAgain, Repeat
<1>10. CASE Answered
  <2>1. charged' = charged /\ job.pc = "ask" /\ job'.day = job.day
    BY <1>0, <1>10 DEF Answered, Job, keys
  <2> QED
    BY <1>1, <2>1
<1>11. CASE Charge
  <2>1. job.pc = "charge" /\ job.pc \in Loop
    BY <1>11 DEF Charge, Loop
  <2>2. job'.pc \notin {"acquire", "ask", "charge"}
    BY <1>0, <1>3, <1>11, <2>1 DEF Charge, Job
  <2>3. charged' = [charged EXCEPT ![job.day] = charged[job.day] + 1]
    BY <1>11 DEF Charge
  <2>4. ASSUME NEW d \in DOMAIN charged PROVE charged'[d] + Pending(d)' <= Quota
    <3>1. charged[d] + Pending(d) <= Quota /\ charged[d] \in Nat
      BY <1>0 DEF ChargeOK
    <3>2. Pending(d) = IF job.day = d THEN 1 ELSE 0
      BY <2>1 DEF Pending
    <3>3. Pending(d)' = 0
      BY <2>2 DEF Pending
    <3>4. charged'[d] = IF job.day = d THEN charged[d] + 1 ELSE charged[d]
      BY <1>0, <2>3
    <3> QED
      BY <1>0, <3>1, <3>2, <3>3, <3>4
  <2>5. DOMAIN charged' = DOMAIN charged
    BY <1>0, <2>3
  <2> QED
    BY <2>4, <2>5 DEF ChargeOK
<1>12. CASE SaveInCache
  <2>1. charged' = charged /\ job.pc \in Loop /\ job' \in Generate(job, job.entry)
    BY <1>12 DEF SaveInCache, Loop
  <2> QED
    BY <1>2, <1>3, <2>1
<1>13. CASE SaveInsight
  <2>1. charged' = charged /\ job.pc = "save" /\ job.pc \in Loop
    BY <1>13 DEF SaveInsight, Loop, keys
  <2>2. job' = TokenDone(job) \/ \E todo : job' = [job EXCEPT !.todo = todo]
    BY <1>13 DEF SaveInsight
  <2>3. job'.pc \notin {"acquire", "ask", "charge"}
    BY <1>0, <1>3, <2>1, <2>2 DEF Job
  <2> QED
    BY <1>2, <2>1, <2>3
<1>14. CASE Fail
  <2>1. charged' = charged /\ job.pc \in Loop /\ job' = TokenFailed(job)
    BY <1>14 DEF Fail, Loop, keys
  <2> QED
    BY <1>2, <1>3, <2>1
<1>15. CASE Mark
  <2>1. job'.pc \in {"mark", "idle"}
    BY <1>0, <1>15 DEF Mark, Job, IdleJob
  <2> QED
    BY <1>2, <1>15, <2>1 DEF Mark
<1>16. CASE Crash
  <2>1. job'.pc = "idle"
    BY <1>16 DEF Crash, IdleJob
  <2> QED
    BY <1>2, <1>16, <2>1 DEF Crash, keys
<1> QED
  BY <1>4, <1>5, <1>6, <1>7, <1>8, <1>9, <1>10, <1>11, <1>12, <1>13, <1>14, <1>15, <1>16
     DEF Next, JobStep

LEMMA Inductive == Spec => []IInv
<1>1. IInv /\ [Next]_vars => IInv'
  BY StepKeepsType, StepKeepsJob, StepKeepsCharge, StepKeepsBucket, StepKeepsFresh DEF IInv
<1> QED
  BY InitEstablishes, <1>1, PTL DEF Spec

(* Every variable has its type.                                            *)
THEOREM TypesAreKept == Spec => []TypeOK
<1>1. IInv => TypeOK
  BY DEF IInv
<1> QED
  BY <1>1, Inductive, PTL

(* No day is charged more than its quota: between the check and the charge *)
(* there is one job, and it makes one charge.                              *)
THEOREM QuotaIsHeld == Spec => []QuotaHeld
<1>1. IInv => QuotaHeld
  <2> SUFFICES ASSUME IInv, NEW d \in DOMAIN charged PROVE charged[d] <= Quota
    BY DEF QuotaHeld
  <2>1. charged[d] + Pending(d) <= Quota /\ Pending(d) \in {0, 1}
    BY DEF IInv, ChargeOK, Pending
  <2>2. charged[d] \in Nat /\ Quota \in Nat
    BY ScanAssumption DEF IInv, TypeOK
  <2> QED
    BY <2>1, <2>2
<1> QED
  BY <1>1, Inductive, PTL

(* The API is asked no more often than the bucket allows.                  *)
THEOREM RateIsBounded == Spec => []RateBound
<1>1. IInv => RateBound
  <2> SUFFICES ASSUME IInv, NEW s \in 0..now
               PROVE  TokenParts * taken[s] <= Capacity + Refill * (now - s)
    BY DEF RateBound
  <2>1. /\ s \in 0..MaxTime /\ now \in Nat /\ s <= now /\ s \in Nat /\ taken[s] \in Nat
        /\ bucket.at \in 0..now /\ bucket.parts \in 0..Capacity
        /\ TokenParts \in Nat /\ Capacity \in Nat /\ Refill \in Nat
        /\ Refill * (now - bucket.at) \in Nat
    <3>1. TypeOK /\ taken \in [0..MaxTime -> Nat]
      BY DEF IInv, TypeOK
    <3>2. now \in Nat /\ now <= MaxTime /\ MaxTime \in Nat
      BY <3>1, NowType
    <3>3. s \in 0..MaxTime /\ s <= now /\ s \in Nat /\ taken[s] \in Nat
      BY <3>1, <3>2
    <3> QED
      BY <3>1, <3>2, <3>3, PartsType
  <2>2. now - s \in Nat
    BY <2>1
  <2>3. TokenParts * taken[s] \in Nat /\ Refill * (now - s) \in Nat
    BY <2>1, <2>2, ProductIsNat
  <2>4. CASE s <= bucket.at
    <3>1. TokenParts * taken[s] + bucket.parts <= Capacity + Refill * (bucket.at - s)
      BY <2>1, <2>4 DEF IInv, BucketOK
    <3>2. /\ Refill * ((bucket.at - s) + (now - bucket.at))
                = Refill * (bucket.at - s) + Refill * (now - bucket.at)
          /\ Refill * (bucket.at - s) \in Int
      <4>1. Refill \in Int /\ bucket.at - s \in Int /\ now - bucket.at \in Int
        BY <2>1
      <4> QED
        BY <4>1, ProductOfSum
    <3>3. (bucket.at - s) + (now - bucket.at) = now - s
      BY <2>1
    <3>4. Refill * (now - s) = Refill * (bucket.at - s) + Refill * (now - bucket.at)
      BY <3>2, <3>3
    <3> QED
      BY <2>1, <2>3, <3>1, <3>2, <3>4
  <2>5. CASE ~(s <= bucket.at)
    <3>1. taken[s] = 0
      BY <2>1, <2>5 DEF IInv, BucketOK
    <3>2. TokenParts * 0 = 0
      BY <2>1
    <3> QED
      BY <2>1, <2>3, <3>1, <3>2
  <2> QED
    BY <2>4, <2>5
<1> QED
  BY <1>1, Inductive, PTL

(* A scan that comes to its marks went through all of its candidates.      *)
THEOREM FailuresAreIsolated == Spec => []FailuresIsolated
<1>1. IInv => FailuresIsolated
  BY DEF IInv, LoopOK, AtMarks, FailuresIsolated
<1> QED
  BY <1>1, Inductive, PTL

(* No insight rests on an answer that was a day old.                       *)
THEOREM InsightsStayFresh == Spec => []InsightsAreFresh
<1>1. IInv => InsightsAreFresh
  BY DEF IInv
<1> QED
  BY <1>1, Inductive, PTL

-----------------------------------------------------------------------------
(* Sums over finite sets.  MapThenSumSet is a recursive function: it takes *)
(* some element, and what it is of the others.                             *)

AddsAt(g, s, w) ==
  g[s] = IF s = {} THEN 0
         ELSE w[CHOOSE x \in s : TRUE] + g[s \ {CHOOSE x \in s : TRUE}]

Adds(g, U, w) == \A s \in SUBSET U : AddsAt(g, s, w)

(* There is such a function up to sets of any number of elements.          *)
LEMMA AddsUpTo ==
  ASSUME NEW U, IsFiniteSet(U), NEW w \in [U -> Nat], NEW n \in Nat
  PROVE  \E g \in [SUBSET U -> Nat] : \A s \in SUBSET U : Cardinality(s) <= n => AddsAt(g, s, w)
<1> DEFINE c(s) == CHOOSE x \in s : TRUE
           UpTo(m) == \E g \in [SUBSET U -> Nat] : \A s \in SUBSET U : Cardinality(s) <= m => AddsAt(g, s, w)
           Bad == {m \in Nat : ~UpTo(m)}
<1>0. \A s \in SUBSET U : IsFiniteSet(s) /\ Cardinality(s) \in Nat
  BY FS_Subset, FS_CardinalityType
<1>1. \A s \in SUBSET U : s # {} => c(s) \in s
  OBVIOUS
<1>2. UpTo(0)
  <2> DEFINE g == [s \in SUBSET U |-> 0]
  <2>1. \A s \in SUBSET U : Cardinality(s) <= 0 => s = {}
    BY <1>0, FS_EmptySet
  <2>2. g \in [SUBSET U -> Nat] /\ \A s \in SUBSET U : Cardinality(s) <= 0 => AddsAt(g, s, w)
    BY <2>1 DEF AddsAt
  <2> HIDE DEF g
  <2> QED
    BY <2>2
<1>3. ASSUME NEW m \in Nat, UpTo(m)
      PROVE  UpTo(m + 1)
  <2>1. PICK g \in [SUBSET U -> Nat] : \A s \in SUBSET U : Cardinality(s) <= m => AddsAt(g, s, w)
    BY <1>3
  <2> DEFINE h == [s \in SUBSET U |-> IF s = {} THEN 0 ELSE w[c(s)] + g[s \ {c(s)}]]
  <2>2. h \in [SUBSET U -> Nat]
    <3>1. ASSUME NEW s \in SUBSET U, s # {}
          PROVE  w[c(s)] + g[s \ {c(s)}] \in Nat
      <4>1. c(s) \in U /\ s \ {c(s)} \in SUBSET U
        BY <1>1, <3>1
      <4> HIDE DEF c
      <4> QED
        BY <4>1
    <3> QED
      BY <3>1
  <2>3. \A s \in SUBSET U : Cardinality(s) <= m => h[s] = g[s]
    BY <2>1 DEF AddsAt
  <2>4. ASSUME NEW s \in SUBSET U, Cardinality(s) <= m + 1
        PROVE  AddsAt(h, s, w)
    <3>1. CASE s = {}
      BY <3>1 DEF AddsAt
    <3>2. CASE s # {}
      <4>1. c(s) \in s /\ s \ {c(s)} \in SUBSET U
        BY <1>1, <3>2
      <4>2. Cardinality(s \ {c(s)}) = Cardinality(s) - 1
        BY <1>0, <4>1, FS_RemoveElement
      <4>3. Cardinality(s \ {c(s)}) <= m
        BY <1>0, <2>4, <4>2
      <4>4. h[s \ {c(s)}] = g[s \ {c(s)}]
        BY <2>3, <4>1, <4>3
      <4> QED
        BY <3>2, <4>4 DEF AddsAt
    <3> QED
      BY <3>1, <3>2
  <2> HIDE DEF h
  <2> QED
    BY <2>2, <2>4
<1>4. Bad = {}
  <2> HIDE DEF UpTo
  <2> SUFFICES ASSUME Bad # {} PROVE FALSE
    OBVIOUS
  <2>1. PICK m \in Bad : \A k \in Bad : ~(<<k, m>> \in OpToRel(<, Nat))
    <3>1. Bad \subseteq Nat
      OBVIOUS
    <3> HIDE DEF Bad
    <3> QED
      BY <3>1, NatLessThanWellFounded, WFMin, Zenon
  <2>2. m \in Nat /\ ~UpTo(m)
    OBVIOUS
  <2>3. m # 0
    BY <1>2, <2>2
  <2>4. m - 1 \in Nat /\ m - 1 < m
    BY <2>2, <2>3
  <2>5. m - 1 \notin Bad
    BY <2>1, <2>2, <2>4 DEF OpToRel
  <2>6. UpTo(m - 1)
    BY <2>4, <2>5
  <2>7. UpTo((m - 1) + 1) /\ (m - 1) + 1 = m
    BY <1>3, <2>2, <2>4, <2>6
  <2> QED
    BY <2>2, <2>7
<1>5. UpTo(n)
  <2> HIDE DEF UpTo
  <2> QED
    BY <1>4
<1> QED
  BY <1>5

(* There is such a function on all subsets of a finite set.                *)
LEMMA AddsExists ==
  ASSUME NEW U, IsFiniteSet(U), NEW w \in [U -> Nat]
  PROVE  \E g \in [SUBSET U -> Nat] : Adds(g, U, w)
<1>0. Cardinality(U) \in Nat
  BY FS_CardinalityType
<1>1. ASSUME NEW s \in SUBSET U
      PROVE  Cardinality(s) <= Cardinality(U)
  BY FS_Subset
<1>2. PICK g \in [SUBSET U -> Nat] : \A s \in SUBSET U : Cardinality(s) <= Cardinality(U) => AddsAt(g, s, w)
  BY <1>0, AddsUpTo
<1> QED
  BY <1>1, <1>2 DEF Adds

(* The least set of a family of finite sets.                               *)
LEMMA LeastSet ==
  ASSUME NEW U, IsFiniteSet(U), NEW F, F \subseteq SUBSET U, F # {}
  PROVE  \E s \in F : \A t \in F : t \subseteq s => t = s
<1>1. F \subseteq FiniteSubsetsOf(U)
  BY FS_Subset DEF FiniteSubsetsOf
<1>2. PICK s \in F : \A t \in F : ~(<<t, s>> \in StrictSubsetOrdering(U))
  BY <1>1, FS_StrictSubsetOrderingWellFounded, WFMin
<1> QED
  BY <1>2 DEF StrictSubsetOrdering

(* Two such functions agree where both are defined.                        *)
LEMMA AddsUnique ==
  ASSUME NEW U, IsFiniteSet(U), NEW w, NEW T \in SUBSET U, NEW g, NEW h,
         Adds(g, U, w), Adds(h, T, w)
  PROVE  \A s \in SUBSET T : g[s] = h[s]
<1> DEFINE Bad == {s \in SUBSET T : g[s] # h[s]}
<1>1. SUFFICES ASSUME Bad # {} PROVE FALSE
  OBVIOUS
<1>2. PICK s \in Bad : \A t \in Bad : t \subseteq s => t = s
  <2>1. Bad \subseteq SUBSET U
    OBVIOUS
  <2> HIDE DEF Bad
  <2> QED
    BY <1>1, <2>1, LeastSet
<1> DEFINE c == CHOOSE x \in s : TRUE
<1>3. s \in SUBSET T /\ s \in SUBSET U /\ g[s] # h[s]
  OBVIOUS
<1>4. s # {}
  BY <1>3 DEF Adds, AddsAt
<1>5. c \in s
  BY <1>4
<1>6. g[s] = w[c] + g[s \ {c}] /\ h[s] = w[c] + h[s \ {c}]
  BY <1>3, <1>4 DEF Adds, AddsAt
<1>7. g[s \ {c}] = h[s \ {c}]
  BY <1>2, <1>3, <1>5
<1> QED
  BY <1>3, <1>6, <1>7

(* It does not matter which element is taken.                              *)
LEMMA AnyElement ==
  ASSUME NEW U, IsFiniteSet(U), NEW w \in [U -> Nat], NEW g \in [SUBSET U -> Nat], Adds(g, U, w)
  PROVE  \A s \in SUBSET U : \A x \in s : g[s] = w[x] + g[s \ {x}]
<1> DEFINE Any(s) == \A x \in s : g[s] = w[x] + g[s \ {x}]
           Bad == {s \in SUBSET U : ~Any(s)}
<1>1. SUFFICES ASSUME Bad # {} PROVE FALSE
  OBVIOUS
<1>2. PICK s \in Bad : \A t \in Bad : t \subseteq s => t = s
  <2>1. Bad \subseteq SUBSET U
    OBVIOUS
  <2> HIDE DEF Bad
  <2> QED
    BY <1>1, <2>1, LeastSet
<1>3. PICK x \in s : g[s] # w[x] + g[s \ {x}]
  OBVIOUS
<1> DEFINE c == CHOOSE y \in s : TRUE
<1>4. c \in s /\ s \in SUBSET U
  BY <1>3
<1>5. g[s] = w[c] + g[s \ {c}]
  BY <1>4 DEF Adds, AddsAt
<1>6. c # x
  BY <1>3, <1>5
<1>7. s \ {c} \in SUBSET U /\ s \ {x} \in SUBSET U /\ s \ {c} # s /\ s \ {x} # s
  BY <1>4
<1>8. Any(s \ {c}) /\ Any(s \ {x})
  <2> HIDE DEF Any, c
  <2> QED
    BY <1>2, <1>7
<1>9. x \in s \ {c} /\ c \in s \ {x} /\ (s \ {c}) \ {x} = (s \ {x}) \ {c}
  BY <1>4, <1>6
<1>10. g[s \ {c}] = w[x] + g[(s \ {c}) \ {x}] /\ g[s \ {x}] = w[c] + g[(s \ {c}) \ {x}]
  <2> HIDE DEF c
  <2> QED
    BY <1>8, <1>9
<1>11. w[x] \in Nat /\ w[c] \in Nat /\ g[(s \ {c}) \ {x}] \in Nat
  <2>1. (s \ {c}) \ {x} \in SUBSET U /\ x \in U /\ c \in U
    BY <1>4
  <2> QED
    BY <2>1
<1> HIDE DEF c
<1>12. g[s] = w[c] + (w[x] + g[(s \ {c}) \ {x}])
  BY <1>5, <1>10
<1>13. w[x] + g[s \ {x}] = w[x] + (w[c] + g[(s \ {c}) \ {x}])
  BY <1>10
<1> QED
  BY <1>3, <1>11, <1>12, <1>13

(* A sum of more is not less.                                              *)
LEMMA MoreIsMore ==
  ASSUME NEW U, IsFiniteSet(U), NEW w \in [U -> Nat], NEW g \in [SUBSET U -> Nat], Adds(g, U, w)
  PROVE  \A t \in SUBSET U : \A s \in SUBSET t : g[s] <= g[t]
<1>0. ASSUME NEW r \in SUBSET U, NEW y \in r
      PROVE  g[r] = w[y] + g[r \ {y}]
  BY AnyElement
<1> DEFINE Least(t) == \A s \in SUBSET t : g[s] <= g[t]
           Bad == {t \in SUBSET U : ~Least(t)}
<1>1. SUFFICES ASSUME Bad # {} PROVE FALSE
  OBVIOUS
<1>2. PICK t \in Bad : \A r \in Bad : r \subseteq t => r = t
  <2>1. Bad \subseteq SUBSET U
    OBVIOUS
  <2> HIDE DEF Bad
  <2> QED
    BY <1>1, <2>1, LeastSet
<1>3. PICK s \in SUBSET t : ~(g[s] <= g[t])
  OBVIOUS
<1>4. g[s] \in Nat /\ g[t] \in Nat /\ t \in SUBSET U
  OBVIOUS
<1>5. PICK x \in t : x \notin s
  BY <1>3, <1>4
<1>6. g[t] = w[x] + g[t \ {x}]
  <2> HIDE DEF Bad
  <2> QED
    BY <1>0, <1>4, <1>5
<1>7. t \ {x} \in SUBSET U /\ t \ {x} # t /\ s \in SUBSET (t \ {x})
  BY <1>4, <1>5
<1>8. Least(t \ {x})
  <2> HIDE DEF Least
  <2> QED
    BY <1>2, <1>7
<1>9. g[s] <= g[t \ {x}] /\ g[t \ {x}] \in Nat /\ w[x] \in Nat
  BY <1>4, <1>7, <1>8
<1> QED
  BY <1>3, <1>4, <1>6, <1>9

-----------------------------------------------------------------------------
(* The score of an answer.                                                 *)

RiskFlags == DOMAIN Weights
SumOf(S) == MapThenSumSet(LAMBDA i : Weights[i], S)

(* There are finitely many flags, and they weigh natural numbers.          *)
LEMMA WeightsType == Weights \in [RiskFlags -> Nat] /\ IsFiniteSet(RiskFlags)
<1>1. Weights \in [RiskFlags -> Nat]
  BY DEF Weights, RiskFlags
<1>0. IsFiniteSet(1..15)
  <2>1. \A a, b \in Int : IsFiniteSet(a..b)
    BY FS_Interval
  <2>2. 1 \in Int /\ 15 \in Int
    OBVIOUS
  <2> QED
    BY <2>1, <2>2
<1> DEFINE flags == <<"hidden_owner", "owner_change_balance", "is_mintable", "sell_tax_high",
                      "buy_tax_high", "is_proxy", "selfdestruct", "external_call",
                      "transfer_pausable", "is_blacklisted", "is_airdrop_scam", "fake_token",
                      "cannot_buy", "cannot_sell_all", "slippage_modifiable">>
<1>2. flags \in Surjection(1..15, RiskFlags)
  BY DEF Weights, RiskFlags, Surjection
<1>3. IsFiniteSet(RiskFlags)
  <2> HIDE DEF flags
  <2> QED
    BY <1>0, <1>2, FS_Surjection, Zenon
<1> QED
  BY <1>1, <1>3

(* The sum the model takes is such a function.                             *)
LEMMA SumAdds ==
  ASSUME NEW S \in SUBSET RiskFlags
  PROVE  \E h : SumOf(S) = h[S] /\ Adds(h, S, Weights)
<1> DEFINE It == CHOOSE g : g = [s \in SUBSET S |->
                   IF s = {} THEN 0 ELSE Weights[CHOOSE x \in s : TRUE] + g[s \ {CHOOSE x \in s : TRUE}]]
<1>1. SumOf(S) = It[S]
  BY Zenon DEF SumOf, MapThenSumSet, MapThenFoldSet
<1>2. \E g : g = [s \in SUBSET S |->
                   IF s = {} THEN 0 ELSE Weights[CHOOSE x \in s : TRUE] + g[s \ {CHOOSE x \in s : TRUE}]]
  <2>1. PICK g \in [SUBSET RiskFlags -> Nat] : Adds(g, RiskFlags, Weights)
    BY WeightsType, AddsExists
  <2> DEFINE h == [s \in SUBSET S |-> g[s]]
  <2>2. ASSUME NEW s \in SUBSET S
        PROVE  g[s] = IF s = {} THEN 0
                      ELSE Weights[CHOOSE x \in s : TRUE] + h[s \ {CHOOSE x \in s : TRUE}]
    <3>1. s \in SUBSET RiskFlags /\ s \ {CHOOSE x \in s : TRUE} \in SUBSET S
      OBVIOUS
    <3> QED
      BY <2>1, <3>1 DEF Adds, AddsAt
  <2>3. h = [s \in SUBSET S |->
               IF s = {} THEN 0 ELSE Weights[CHOOSE x \in s : TRUE] + h[s \ {CHOOSE x \in s : TRUE}]]
    BY <2>2
  <2> QED
    BY <2>3
<1>3. It = [s \in SUBSET S |->
              IF s = {} THEN 0 ELSE Weights[CHOOSE x \in s : TRUE] + It[s \ {CHOOSE x \in s : TRUE}]]
  BY <1>2
<1>4. Adds(It, S, Weights)
  <2> HIDE DEF It
  <2> QED
    BY <1>3 DEF Adds, AddsAt
<1> HIDE DEF It
<1> QED
  BY <1>1, <1>4

(* More flags weigh more.                                                  *)
LEMMA SumsGrow ==
  ASSUME NEW T \in SUBSET RiskFlags, NEW S \in SUBSET T
  PROVE  SumOf(S) \in Nat /\ SumOf(T) \in Nat /\ SumOf(S) <= SumOf(T)
<1>1. PICK g \in [SUBSET RiskFlags -> Nat] : Adds(g, RiskFlags, Weights)
  BY WeightsType, AddsExists
<1>2. ASSUME NEW R \in SUBSET RiskFlags
      PROVE  SumOf(R) = g[R]
  <2>1. PICK h : SumOf(R) = h[R] /\ Adds(h, R, Weights)
    BY SumAdds
  <2>2. \A s \in SUBSET R : g[s] = h[s]
    BY <1>1, <2>1, WeightsType, AddsUnique
  <2> QED
    BY <2>1, <2>2
<1>3. S \in SUBSET RiskFlags
  OBVIOUS
<1> QED
  BY <1>1, <1>2, <1>3, WeightsType, MoreIsMore

-----------------------------------------------------------------------------
(* A worse answer is rated no better.                                      *)

(* A worse answer has every indicator of the better one.                   *)
LEMMA MoreIndicators ==
  ASSUME NEW a \in Answer, NEW b \in Answer, Worse(a, b)
  PROVE  /\ Indicators(b) \ {"is_honeypot"} \in SUBSET RiskFlags
         /\ Indicators(a) \ {"is_honeypot"} \in SUBSET (Indicators(b) \ {"is_honeypot"})
<1>1. /\ a.flags \subseteq b.flags /\ b.flags \subseteq Flags
      /\ a.sell_tax \in Nat /\ b.sell_tax \in Nat /\ a.sell_tax <= b.sell_tax
      /\ a.buy_tax \in Nat /\ b.buy_tax \in Nat /\ a.buy_tax <= b.buy_tax
  BY DEF Answer, Worse
<1>2. (TaxIsHigh(a.sell_tax) => TaxIsHigh(b.sell_tax)) /\ (TaxIsHigh(a.buy_tax) => TaxIsHigh(b.buy_tax))
  BY <1>1 DEF TaxIsHigh
<1>3. Indicators(a) \subseteq Indicators(b)
  BY <1>1, <1>2 DEF Indicators
<1>4. Flags \ {"is_honeypot"} \subseteq RiskFlags
  BY DEF Flags, RiskFlags
<1>5. TaxFlags \subseteq RiskFlags
  BY DEF TaxFlags, RiskFlags, Weights
<1>6. Indicators(b) \subseteq b.flags \cup TaxFlags
  BY DEF Indicators
<1>7. Indicators(b) \ {"is_honeypot"} \subseteq RiskFlags
  BY <1>1, <1>4, <1>5, <1>6
<1> QED
  BY <1>3, <1>7

(* The score, with its sum given a name.                                   *)
LEMMA RiskScoreIs ==
  ASSUME NEW a
  PROVE  RiskScore(a) = IF "is_honeypot" \in a.flags \/ SumOf(Indicators(a) \ {"is_honeypot"}) > 100
                          THEN 100 ELSE SumOf(Indicators(a) \ {"is_honeypot"})
BY Zenon DEF RiskScore, SumOf

(* A worse answer is scored no lower.                                      *)
LEMMA WorseIsScoredHigher ==
  ASSUME NEW a \in Answer, NEW b \in Answer, Worse(a, b)
  PROVE  /\ RiskScore(a) \in Nat /\ RiskScore(b) \in Nat /\ RiskScore(a) <= RiskScore(b)
         /\ IsHoneypot(b) => RiskScore(b) = 100
<1> DEFINE S == Indicators(a) \ {"is_honeypot"}
           T == Indicators(b) \ {"is_honeypot"}
<1>1. SumOf(S) \in Nat /\ SumOf(T) \in Nat /\ SumOf(S) <= SumOf(T)
  <2>1. T \in SUBSET RiskFlags /\ S \in SUBSET T
    BY MoreIndicators
  <2> HIDE DEF S, T
  <2> QED
    BY <2>1, SumsGrow
<1>2. "is_honeypot" \in a.flags => "is_honeypot" \in b.flags
  BY DEF Worse
<1>3. /\ RiskScore(a) = IF "is_honeypot" \in a.flags \/ SumOf(S) > 100 THEN 100 ELSE SumOf(S)
      /\ RiskScore(b) = IF "is_honeypot" \in b.flags \/ SumOf(T) > 100 THEN 100 ELSE SumOf(T)
  BY RiskScoreIs
<1> HIDE DEF S, T
<1> QED
  BY <1>1, <1>2, <1>3 DEF IsHoneypot

(* A worse answer is HIGH if the better one is: what a honeypot does not   *)
(* fire, its own rule replaces.                                            *)
LEMMA WorseIsAlerted ==
  ASSUME NEW a \in Answer, NEW b \in Answer, Worse(a, b), NEW up \in BOOLEAN,
         Alerts(a, up) # {}
  PROVE  Alerts(b, up) # {}
<1>1. CASE IsHoneypot(b)
  <2>1. "HoneypotDetected" \in Alerts(b, up)
    BY <1>1 DEF Alerts, HighImportance, Fires
  <2> QED
    BY <2>1
<1>2. CASE ~IsHoneypot(b)
  <2>1. PICK t \in HighImportance : Fires(t, a, up)
    BY DEF Alerts
  <2>2. ~IsHoneypot(a)
    BY <1>2 DEF IsHoneypot, Worse
  <2>3. t # "HoneypotDetected"
    BY <2>1, <2>2 DEF Fires
  <2>4. CASE t = "HighRiskDetected"
    <3>1. IsHighRisk(a, up)
      BY <2>1, <2>4 DEF Fires
    <3>2. IsHighRisk(b, up)
      BY <1>2, <3>1, WorseIsScoredHigher DEF IsHighRisk, Reaches
    <3> QED
      BY <2>4, <3>2 DEF Alerts, HighImportance, Fires
  <2>5. CASE t \in {"AirdropScam", "FakeToken"}
    <3>1. Fires(t, b, up)
      BY <2>1, <2>5 DEF Fires, Worse
    <3> QED
      BY <2>5, <3>1 DEF Alerts, HighImportance
  <2> QED
    BY <2>3, <2>4, <2>5 DEF HighImportance
<1> QED
  BY <1>1, <1>2

-----------------------------------------------------------------------------
(* The answer the job holds while it saves is one of the API.              *)
AnswerInHand == job.pc = "save" => job.entry.answer \in Answers

(* Only an answer of the API leads to insights.                            *)
LEMMA UsedAnswer ==
  ASSUME NEW j \in Job, InLoop(j), NEW entry \in Entry, NEW k \in Generate(j, entry)
  PROVE  k.pc = "save" => k.entry.answer \in Answers
<1> SUFFICES ASSUME k.pc = "save" PROVE k.entry.answer \in Answers
  OBVIOUS
<1>1. k # TokenDone(j)
  BY TokenIsOver
<1>2. entry.answer # NoData /\ k.entry = entry
  <2>1. entry.answer # NoData
    BY <1>1 DEF Generate
  <2>2. InLoop(k) /\ k.entry = entry
    BY AnswerIsUsed
  <2> QED
    BY <2>1, <2>2
<1>3. entry.answer \in Answers
  BY <1>2 DEF Entry, NoEntry
<1> QED
  BY <1>2, <1>3

LEMMA StepKeepsAnswer == ASSUME IInv, AnswerInHand, [Next]_vars PROVE AnswerInHand'
<1>1. job \in Job /\ (job.pc \in Loop => InLoop(job)) /\ cache \in [Pools -> Entry]
  BY DEF IInv, TypeOK, LoopOK
<1>2. ASSUME job.pc \in Loop, job' \in {TokenDone(job), TokenFailed(job)}
      PROVE  AnswerInHand'
  <2>1. job'.pc # "save"
    BY <1>1, <1>2, TokenIsOver
  <2> QED
    BY <2>1 DEF AnswerInHand
<1>3. ASSUME job.pc \in Loop, NEW entry \in Entry, job' \in Generate(job, entry)
      PROVE  AnswerInHand'
  BY <1>1, <1>3, UsedAnswer DEF AnswerInHand
<1>4. ASSUME job'.pc # "save"
      PROVE  AnswerInHand'
  BY <1>4 DEF AnswerInHand
<1>5. ASSUME UNCHANGED job
      PROVE  AnswerInHand'
  BY <1>5 DEF AnswerInHand
<1>6. CASE Tick \/ Trade \/ UNCHANGED vars
  BY <1>5, <1>6 DEF Tick, Trade, vars
<1>7. CASE StartScan
  <2>1. PICK queue : job' = [IdleJob EXCEPT !.pc = "look_up", !.now = now, !.queue = queue]
    BY <1>7 DEF StartScan
  <2>2. job'.pc = "look_up"
    BY <2>1 DEF IdleJob
  <2> QED
    BY <1>4, <2>2
<1>17. CASE Crash
  BY <1>4, <1>17 DEF Crash, IdleJob
<1>8. CASE LookUp
  <2>0. job.pc = "look_up" /\ job.pc \in Loop
    BY <1>8 DEF LookUp, Loop
  <2>1. CASE Cached(Pool)
    <3>1. cache[Pool] \in Entry
      BY <1>1, <2>0, PoolType
    <3> QED
      BY <1>3, <1>8, <2>0, <2>1, <3>1 DEF LookUp
  <2>2. CASE ~Cached(Pool) /\ QuotaLeft
    <3>1. job'.pc = "acquire"
      BY <1>1, <1>8, <2>2 DEF LookUp, Job
    <3> QED
      BY <1>4, <3>1
  <2>3. CASE ~Cached(Pool) /\ ~QuotaLeft
    BY <1>2, <1>8, <2>0, <2>3 DEF LookUp
  <2> QED
    BY <2>1, <2>2, <2>3
<1>9. CASE TakeToken \/ Answered
  BY <1>1, <1>4, <1>9 DEF TakeToken, Answered, Job
<1>10. CASE NoToken
  <2>1. CASE job.tries < Polls
    BY <1>1, <1>4, <1>10, <2>1 DEF NoToken, Job
  <2>2. CASE ~(job.tries < Polls)
    BY <1>2, <1>10, <2>2 DEF NoToken, Loop
  <2> QED
    BY <2>1, <2>2
<1>11. CASE AskAgain
  <2>1. CASE job.tries < Attempts
    BY <1>1, <1>4, <1>11, <2>1 DEF AskAgain, Repeat, Job
  <2>2. CASE ~(job.tries < Attempts)
    BY <1>2, <1>11, <2>2 DEF AskAgain, Repeat, Loop
  <2> QED
    BY <2>1, <2>2
<1>12. CASE Charge
  <2>1. CASE job.entry.answer = NoData
    BY <1>1, <1>3, <1>12, <2>1 DEF Charge, Loop, Job
  <2>2. CASE job.entry.answer # NoData
    BY <1>1, <1>4, <1>12, <2>2 DEF Charge, Job
  <2> QED
    BY <2>1, <2>2
<1>13. CASE SaveInCache
  BY <1>1, <1>3, <1>13 DEF SaveInCache, Loop, Job
<1>14. CASE SaveInsight
  <2>1. PICK type \in FirstOfRules(job.todo) :
          job' = IF job.todo = {type} THEN TokenDone(job) ELSE [job EXCEPT !.todo = @ \ {type}]
    BY <1>14 DEF SaveInsight
  <2>2. CASE job.todo = {type}
    BY <1>2, <1>14, <2>1, <2>2 DEF SaveInsight, Loop
  <2>3. CASE job.todo # {type}
    <3>1. job'.pc = job.pc /\ job'.entry = job.entry
      BY <1>1, <2>1, <2>3 DEF Job
    <3> QED
      BY <3>1 DEF AnswerInHand
  <2> QED
    BY <2>2, <2>3
<1>15. CASE Fail
  BY <1>2, <1>15 DEF Fail, Loop
<1>16. CASE Mark
  <2>1. CASE job.index <= job.scanned
    BY <1>1, <1>4, <1>16, <2>1 DEF Mark, Job
  <2>2. CASE ~(job.index <= job.scanned)
    BY <1>4, <1>16, <2>2 DEF Mark, IdleJob
  <2> QED
    BY <2>1, <2>2
<1> QED
  BY <1>6, <1>7, <1>8, <1>9, <1>10, <1>11, <1>12, <1>13, <1>14, <1>15, <1>16, <1>17 DEF Next, JobStep

(* A worse answer than the one a scan reports would be scored no lower, and  *)
(* would be HIGH if that one is: for any answers, and whichever way sums are *)
(* rounded.                                                                  *)
THEOREM RulesAreGraded == Spec => []RulesGraded
<1>1. Init => AnswerInHand
  BY DEF Init, IdleJob, AnswerInHand
<1>2. IInv /\ AnswerInHand /\ [Next]_vars => AnswerInHand'
  BY StepKeepsAnswer
<1>3. AnswerInHand => RulesGraded
  <2> SUFFICES ASSUME AnswerInHand, job.pc = "save", NEW b \in Compared,
                      Worse(job.entry.answer, b), NEW up \in BOOLEAN
               PROVE  /\ Ratings[job.entry.answer][up].score <= Ratings[b][up].score
                      /\ Ratings[job.entry.answer][up].alert => Ratings[b][up].alert
    BY DEF RulesGraded
  <2>1. PICK a : a = job.entry.answer
    OBVIOUS
  <2>2. a \in Compared /\ a \in Answer /\ b \in Answer /\ Worse(a, b)
    BY <2>1, ScanAssumption DEF AnswerInHand
  <2>3. /\ Ratings[a][up] = [score |-> RiskScore(a), alert |-> Alerts(a, up) # {}]
        /\ Ratings[b][up] = [score |-> RiskScore(b), alert |-> Alerts(b, up) # {}]
    BY <2>2 DEF Ratings, Rating
  <2>4. RiskScore(a) <= RiskScore(b)
    BY <2>2, WorseIsScoredHigher
  <2>5. Alerts(a, up) # {} => Alerts(b, up) # {}
    BY <2>2, WorseIsAlerted
  <2> QED
    BY <2>1, <2>3, <2>4, <2>5
<1> QED
  BY <1>1, <1>2, <1>3, Inductive, PTL DEF Spec
=============================================================================
