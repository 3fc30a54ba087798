------------------------------ MODULE Labelling ------------------------------
(***************************************************************************)
(* The life of one trading pair's labels.  Three writers share the tables: *)
(* the snapshot job and the outcome job of the running platform            *)
(* (analytics/snapshot_job.py, outcome_job.py), and the operator's script  *)
(* scripts/post_process_analytics.py, which fills in bars and snapshots    *)
(* from finalized facts and then runs the outcome job itself, in a process *)
(* of its own.  Every query and every commit is a step.                    *)
(*                                                                         *)
(* Time is counted in ticks.  A bar starts at a multiple of BarLength; the *)
(* pair's creation need not.  The state of the pool is its depth,          *)
(* reserve0 * reserve1, which is all the rules look at; as one amount, to  *)
(* which a fact adds or from which it takes.                               *)
(***************************************************************************)
EXTENDS OutcomeRules, Sequences, FiniteSets

CONSTANTS
  Created,     \* event_time of the pair's creating fact
  Windows,     \* the observation windows in the order of evaluation
  Thresholds,  \* for each window, its ThresholdConfig
  BarLength,   \* ticks of a one-minute bar
  Offsets,     \* ages at which the script reconstructs a snapshot
  Launch,      \* facts of the pair's first blocks, its creation before others
  Moves,       \* kinds of an event of the pool with the depth after it
  Interval,    \* ticks between two runs of the snapshot job and of the scan
  MaxLag,      \* bound: ticks from the reading of a clock to the write
  MaxTime,     \* bound: the clock stops here
  MaxEvents,   \* bound: later events of the pool
  MaxRuns,     \* bound: runs of the script
  MaxCrashes   \* bound: crashes of the platform

ASSUME LabellingAssumption ==
  /\ Created \in Nat
  /\ Windows \in Seq(Nat \ {0}) /\ Windows # <<>>
  /\ \A i, j \in DOMAIN Windows : Windows[i] = Windows[j] => i = j
  /\ \A i \in DOMAIN Windows : Coherent(Thresholds[Windows[i]])
  /\ BarLength \in Nat \ {0}
  /\ Offsets \in Seq(Nat)
  /\ Launch \in Seq([time : Nat, kind : {"creation", "swap", "liquidity"}, depth : Nat])
  /\ Launch # <<>> /\ Launch[1].kind = "creation" /\ Launch[1].time = Created
  /\ Moves \subseteq [kind : {"swap", "liquidity"}, depth : Nat]
  /\ Interval \in Nat \ {0}
  /\ {MaxLag, MaxTime, MaxEvents, MaxRuns, MaxCrashes} \subseteq Nat

VARIABLES
  now,        \* the clock
  events,     \* facts of the pool in chain order: time, kind, depth after it
  finalized,  \* how many of them are FINALIZED
  snapshots,  \* table observation_snapshots
  bars,       \* table market_bars: the swaps in the bar that starts at a time
  honeypot,   \* generated_at of the HoneypotDetected insight, or Never
  outcomes,   \* table outcomes
  script,     \* the script
  jobs,       \* the outcome job in the platform and in the script
  crashes     \* how often the platform crashed

environment == <<now, events, finalized, honeypot>>
tables == <<snapshots, bars>>
vars == <<environment, tables, outcomes, script, jobs, crashes>>

Runners == {"platform", "script"}
TypeOrder == <<"RUG_PULL", "SUCCESSFUL_LAUNCH", "DEAD_TOKEN">>
WindowSet == {Windows[i] : i \in DOMAIN Windows}
Close(w) == Created + w

Labelled(w, t) == \E o \in outcomes : o.window = w /\ o.type = t

NoEvidence ==
  [rows |-> 0, early |-> 0, late |-> 0, peak |-> 0, trades |-> 0, honeypot |-> Never]

IdleJob == [pc |-> "idle", now |-> 0, window |-> 1, todo |-> {}, value |-> FALSE]
IdleScript(runs) == [pc |-> "off", facts |-> 0, done |-> {}, runs |-> runs]
-----------------------------------------------------------------------------
(* The pool.                                                               *)

\* What a fact changed, and its kind: liquidity is added or removed.
Change(i) == events[i].depth - (IF i = 1 THEN 0 ELSE events[i - 1].depth)
FactType(i) ==
  IF events[i].kind # "liquidity" THEN events[i].kind
  ELSE IF Change(i) < 0 THEN "removed" ELSE "added"

\* A depth, and zero in place of a negative one.
Clamp(d) == IF d \in Nat THEN d ELSE 0

\* The depths that facts may leave of those in from: they are replayed in the
\* order of their transactions' hashes, which may be any.
Replayed(facts, from) ==
  LET depths[done \in SUBSET facts] ==
        IF done = {} THEN from
        ELSE UNION {{Clamp(d + Change(i)) : d \in depths[done \ {i}]} : i \in done}
  IN  {Clamp(d) : d \in depths[facts]}

\* The first n facts, as far as they are not after t, replayed from an empty
\* pool: all swaps, then what was added, then what was removed.
DepthsAt(n, t) ==
  LET past(type) == {i \in 1..n : events[i].time <= t /\ FactType(i) = type}
  IN  Replayed(past("removed"), Replayed(past("added"), Replayed(past("swap"), {0})))

BucketStart(t) == t - (t % BarLength)

\* The swaps among the first n events in the bar that starts at b.
SwapsIn(n, b) ==
  {i \in 1..n : events[i].kind = "swap" /\ BucketStart(events[i].time) = b}

Buckets(n) == {BucketStart(events[i].time) : i \in {j \in 1..n : events[j].kind = "swap"}}

\* The times a writer may have read from the clock.
Recent == {t \in Created..now : now - t <= MaxLag}
Scheduled == {t \in Recent : t % Interval = 0}

Tick ==
  /\ now < MaxTime
  /\ now' = now + 1
  /\ UNCHANGED <<events, finalized, honeypot, tables, outcomes, script, jobs, crashes>>

\* The handler stores the fact of an event and applies it to the projection,
\* perhaps some time after the event.
Ingest ==
  /\ Len(events) < Len(Launch) + MaxEvents
  /\ \E time \in Recent, move \in Moves :
       /\ events[Len(events)].time <= time
       /\ events' = Append(events, [time  |-> time, kind |-> move.kind,
                                    depth |-> move.depth])
  /\ UNCHANGED <<now, finalized, honeypot, tables, outcomes, script, jobs, crashes>>

\* The finality engine reaches the next block: all its facts at once.
Finalize ==
  /\ finalized < Len(events)
  /\ \E n \in finalized + 1..Len(events) :
       /\ \A i \in finalized + 1..Len(events) :
            i <= n <=> events[i].time = events[finalized + 1].time
       /\ finalized' = n
  /\ UNCHANGED <<now, events, honeypot, tables, outcomes, script, jobs, crashes>>

\* The intelligence scan, which read the clock before it asked its source.
SaveInsight ==
  /\ honeypot = Never
  /\ honeypot' \in Scheduled
  /\ UNCHANGED <<now, events, finalized, tables, outcomes, script, jobs, crashes>>
-----------------------------------------------------------------------------
(* The snapshot job.  It reads the clock before it lists the pairs, and the *)
(* projection of each pair after that.                                      *)

Upserted(time, source, depth) ==
  {s \in snapshots : s.time # time \/ s.source # source}
    \cup {[time |-> time, source |-> source, depth |-> depth]}

\* Only a pool whose liquidity was ever touched has a projection.
SaveSnapshot ==
  /\ Len(events) > 1
  /\ \E time \in Scheduled :
       snapshots' = Upserted(time, "poll", events[Len(events)].depth)
  /\ UNCHANGED <<environment, bars, outcomes, script, jobs, crashes>>
-----------------------------------------------------------------------------
(* The script: bars, snapshots, outcomes.  It does not ask whether the     *)
(* pair's creation is final, nor whether the age of a snapshot was reached. *)

StartScript ==
  /\ script.pc = "off"
  /\ script.runs < MaxRuns
  /\ jobs["script"] = IdleJob
  /\ script' = [pc |-> "bars", facts |-> finalized, done |-> {}, runs |-> script.runs + 1]
  /\ UNCHANGED <<environment, tables, outcomes, jobs, crashes>>

BackfillBar ==
  /\ script.pc = "bars"
  /\ \E b \in Buckets(script.facts) \ script.done :
       /\ \A c \in Buckets(script.facts) \ script.done : b <= c
       /\ bars' = [bars EXCEPT ![b] = SwapsIn(script.facts, b)]
       /\ script' = [script EXCEPT !.done = @ \cup {b}]
  /\ UNCHANGED <<environment, snapshots, outcomes, jobs, crashes>>

BarsDone ==
  /\ script.pc = "bars"
  /\ Buckets(script.facts) \subseteq script.done
  /\ script' = [script EXCEPT !.pc = "snapshots", !.done = {}]
  /\ UNCHANGED <<environment, tables, outcomes, jobs, crashes>>

BackfillSnapshot ==
  /\ script.pc = "snapshots"
  /\ \E i \in DOMAIN Offsets \ script.done :
       /\ \A j \in DOMAIN Offsets \ script.done : i <= j
       /\ LET time == Created + Offsets[i]
          IN  \E depth \in DepthsAt(finalized, time) :
                snapshots' = Upserted(time, "post_process", depth)
       /\ script' = [script EXCEPT !.done = @ \cup {i}]
  /\ UNCHANGED <<environment, bars, outcomes, jobs, crashes>>
-----------------------------------------------------------------------------
(* The outcome job, in the platform and at the end of the script.          *)

\* The job goes on after the window it is at.
NextWindow(job) ==
  IF job.window < Len(Windows)
    THEN [job EXCEPT !.pc = "keys", !.window = @ + 1, !.todo = {}, !.value = FALSE]
    ELSE IdleJob

First(todo) == CHOOSE i \in todo : \A k \in todo : i <= k

\* The job goes on after the type it is at, the first of todo.
NextType(job) ==
  LET rest == job.todo \ {First(job.todo)}
  IN  IF rest = {}
        THEN NextWindow(job)
        ELSE [job EXCEPT !.pc = "evaluate", !.todo = rest, !.value = FALSE]

Window(j) == Windows[jobs[j].window]
CurrentType(j) == TypeOrder[First(jobs[j].todo)]

\* Not the code: every pair is evaluated.
ReadPairsOfAnyStatus(j) ==
  /\ jobs[j].pc = "idle"
  /\ jobs' = [jobs EXCEPT ![j] = [IdleJob EXCEPT !.pc = "keys", !.now = now]]

\* Pairs are evaluated once their creation is final.
ReadPairs(j) ==
  /\ jobs[j].pc = "idle"
  /\ finalized > 0
  /\ jobs' = [jobs EXCEPT ![j] = [IdleJob EXCEPT !.pc = "keys", !.now = now]]

StartJob ==
  /\ ReadPairs("platform")
  /\ UNCHANGED <<environment, tables, outcomes, script, crashes>>

\* The script ends with its outcome job, whether or not that finds the pair.
ScriptOutcomes ==
  /\ script.pc = "snapshots"
  /\ DOMAIN Offsets \subseteq script.done
  /\ IF finalized > 0 THEN ReadPairs("script") ELSE UNCHANGED jobs
  /\ script' = IdleScript(script.runs)
  /\ UNCHANGED <<environment, tables, outcomes, crashes>>

\* Not the code: a window with a label is not evaluated again.
UnlabelledWindow(w) ==
  IF \E t \in Types : Labelled(w, t) THEN {} ELSE DOMAIN TypeOrder

\* The types of the window that have a label already are not evaluated again.
Unlabelled(w) == {i \in DOMAIN TypeOrder : ~Labelled(w, TypeOrder[i])}

ReadKeys(j) ==
  /\ jobs[j].pc = "keys"
  /\ LET w == Window(j)
         todo == IF jobs[j].now - Created < w THEN {} ELSE Unlabelled(w)
     IN  jobs' = [jobs EXCEPT ![j] =
                    IF todo = {} THEN NextWindow(@)
                    ELSE [@ EXCEPT !.pc = "evaluate", !.todo = todo]]
  /\ UNCHANGED <<environment, tables, outcomes, script, crashes>>

SnapshotsIn(w) == {s \in snapshots : Created <= s.time /\ s.time <= Close(w)}

\* A bar belongs to the window if it starts in it.
SwapsOf(w) == UNION {bars[b] : b \in {c \in DOMAIN bars : Created <= c /\ c <= Close(w)}}

\* What an evaluation of window w may read; rows of one timestamp come in any
\* order.
Readings(w) ==
  LET rows == SnapshotsIn(w)
      read == [NoEvidence EXCEPT !.trades = Cardinality(SwapsOf(w)),
                                 !.honeypot = honeypot]
  IN  IF rows = {} THEN {read}
      ELSE {[read EXCEPT !.rows = Cardinality(rows), !.early = r[1].depth,
                         !.late = r[2].depth, !.peak = r[3].depth] :
              r \in {r \in rows \X rows \X rows :
                       \A s \in rows : /\ r[1].time <= s.time
                                       /\ s.time <= r[2].time
                                       /\ s.depth <= r[3].depth}}

\* evaluate_outcome.  Without any row the type stays unlabelled, to be tried
\* by a later run.
EvaluateOutcome(j) ==
  /\ jobs[j].pc = "evaluate"
  /\ \E e \in Readings(Window(j)) :
       LET value == EvaluateForType(CurrentType(j), e, Thresholds[Window(j)])
       IN  jobs' = [jobs EXCEPT ![j] =
                      IF e.rows = 0 /\ e.trades = 0 THEN NextType(@)
                      ELSE [@ EXCEPT !.pc = "save", !.value = value]]
  /\ UNCHANGED <<environment, tables, outcomes, script, crashes>>

\* Not the code: ON CONFLICT DO UPDATE.
UpdateOutcome(label) ==
  outcomes' = {o \in outcomes : o.window # label.window \/ o.type # label.type}
                \cup {label}

\* INSERT ... ON CONFLICT DO NOTHING: the first label stays.
PutOutcome(label) ==
  outcomes' = IF Labelled(label.window, label.type) THEN outcomes
              ELSE outcomes \cup {label}

SaveOutcome(j) ==
  /\ jobs[j].pc = "save"
  /\ PutOutcome([window |-> Window(j), type |-> CurrentType(j), value |-> jobs[j].value])
  /\ jobs' = [jobs EXCEPT ![j] = NextType(@)]
  /\ UNCHANGED <<environment, tables, script, crashes>>
-----------------------------------------------------------------------------
Crash ==
  /\ crashes < MaxCrashes
  /\ crashes' = crashes + 1
  /\ jobs' = [jobs EXCEPT !["platform"] = IdleJob]
  /\ UNCHANGED <<environment, tables, outcomes, script>>

\* The operator interrupts the script.
Interrupt ==
  /\ script.pc # "off" \/ jobs["script"] # IdleJob
  /\ script' = IdleScript(script.runs)
  /\ jobs' = [jobs EXCEPT !["script"] = IdleJob]
  /\ UNCHANGED <<environment, tables, outcomes, crashes>>

Evaluate(j) ==
  \/ ReadKeys(j)
  \/ EvaluateOutcome(j)
  \/ SaveOutcome(j)

Init ==
  /\ now = Created
  /\ events = Launch
  /\ finalized = 0
  /\ snapshots = {}
  /\ bars = [b \in {BucketStart(t) : t \in 0..MaxTime} |-> {}]
  /\ honeypot = Never
  /\ outcomes = {}
  /\ script = IdleScript(0)
  /\ jobs = [j \in Runners |-> IdleJob]
  /\ crashes = 0

Next ==
  \/ Tick \/ Ingest \/ Finalize \/ SaveInsight
  \/ SaveSnapshot
  \/ StartScript \/ BackfillBar \/ BarsDone \/ BackfillSnapshot
  \/ ScriptOutcomes \/ Interrupt
  \/ StartJob \/ \E j \in Runners : Evaluate(j)
  \/ Crash

Spec == Init /\ [][Next]_vars

\* APScheduler runs the outcome job again and again, and its awaits return.
FairSpec == Spec /\ WF_vars(StartJob \/ Evaluate("platform"))
-----------------------------------------------------------------------------
(* Properties.                                                             *)

EventType ==
  [time : Nat, kind : {"creation", "swap", "liquidity"}, depth : Nat]

Snapshot == [time : Nat, source : {"poll", "post_process"}, depth : Nat]

Job ==
  [pc : {"idle", "keys", "evaluate", "save"}, now : Nat,
   window : DOMAIN Windows, todo : SUBSET DOMAIN TypeOrder, value : BOOLEAN]

\* Every variable has its type.
TypeOK ==
  /\ now \in Nat
  /\ events \in Seq(EventType)
  /\ finalized \in 0..Len(events)
  /\ snapshots \subseteq Snapshot
  /\ bars \in [{BucketStart(t) : t \in 0..MaxTime} -> SUBSET (DOMAIN events)]
  /\ honeypot \in Nat \cup {Never}
  /\ outcomes \subseteq [window : WindowSet, type : Types, value : BOOLEAN]
  /\ script \in [pc : {"off", "bars", "snapshots"}, facts : 0..finalized,
                 done : SUBSET Int, runs : 0..MaxRuns]
  /\ jobs \in [Runners -> Job]
  /\ crashes \in 0..MaxCrashes

\* A label, once written, is the only one of its window and type and keeps its
\* value, whatever the two runners of the job, crashes and repetitions do
\* ("One-shot, window-scoped", outcome_job.py; save_outcome inserts or does
\* nothing).
LabelsAreFinal ==
  [][\A o \in outcomes :
       {p \in outcomes' : p.window = o.window /\ p.type = o.type} = {o}]_vars

\* What can be read about a window makes it a successful launch, or a rug pull
\* or a dead token, and never both (the thresholds of outcome_rules.py leave no
\* overlap).
RulesExclude ==
  \A w \in WindowSet : \A e \in Readings(w) :
    SuccessfulLaunch(e, Thresholds[w]) =>
      ~RugPull(e, Thresholds[w]) /\ ~DeadToken(e, Thresholds[w])

\* No label exists before the window closed, nor before the creation of its
\* pair is final ("Finality Before Analytics", ADR-006).
LabelledAfterClose ==
  \A w \in WindowSet, t \in Types :
    Labelled(w, t) => now >= Close(w) /\ finalized > 0

\* Once a window is closed and any row describes it, all of its labels are
\* written in the end, over crashes of the platform and runs of the script
\* ("retry on a later run", outcome_job.py).
EveryWindowLabelled ==
  \A w \in WindowSet :
    (finalized > 0 /\ now >= Close(w) /\ (SnapshotsIn(w) # {} \/ SwapsOf(w) # {}))
      ~> (\A t \in Types : Labelled(w, t))

\* Every insight a label rests on was known when its window closed ("never
\* uses post-close data", outcome_engine.py).
NoPostCloseData ==
  [][\A j \in Runners :
       jobs[j].pc = "evaluate" /\ jobs'[j].pc = "save"
         => honeypot <= Close(Window(j))]_vars
=============================================================================
