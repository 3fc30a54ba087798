--------------------------- MODULE LabellingProofs ---------------------------
(***************************************************************************)
(* Theorems about OutcomeRules and Labelling, for every list of windows    *)
(* and coherent thresholds, every number of events, runs and crashes, and  *)
(* every delay of the writers.                                             *)
(***************************************************************************)
EXTENDS Labelling, SequenceTheorems, FiniteSetTheorems, TLAPS

-----------------------------------------------------------------------------
(* The rules.                                                              *)

\* A drop of at least d percent of what was there first leaves less than r
\* percent of the peak, when d + r is at least 100.
LEMMA DroppedIsNotRetained ==
  ASSUME NEW early \in Nat, NEW late \in Nat, NEW peak \in Nat, early <= peak,
         NEW d \in 0..100, NEW r \in 0..100, d + r >= 100,
         (early - late) * 100 > d * early
  PROVE  late * 100 < r * peak
<1>1. late * 100 < (100 - d) * early
  OBVIOUS
<1>2. (100 - d) * early <= r * early
  OBVIOUS
<1>3. r * early <= r * peak
  OBVIOUS
<1>4. /\ late * 100 \in Int /\ (100 - d) * early \in Int
      /\ r * early \in Int /\ r * peak \in Int
  OBVIOUS
<1> QED
  BY <1>1, <1>2, <1>3, <1>4

LEMMA PositiveProduct ==
  ASSUME NEW a \in Nat, NEW b \in Nat, a > 0, b # 0
  PROVE  a * b \in Nat /\ a * b > 0
  OBVIOUS

\* Under coherent thresholds a successful launch is neither a rug pull nor a
\* dead token (outcome_rules.py), for every evidence whatever.
THEOREM SuccessExcludes ==
  ASSUME NEW e, WellRead(e), NEW th, Coherent(th), SuccessfulLaunch(e, th)
  PROVE  ~RugPull(e, th) /\ ~DeadToken(e, th)
<1>1. /\ e.rows \in Nat /\ e.early \in Nat /\ e.late \in Nat /\ e.peak \in Nat /\ e.trades \in Nat
      /\ e.early <= e.peak
  BY DEF WellRead, Evidence
<1>2. /\ th.drop \in 0..100 /\ th.retention \in 0..100 /\ th.trades \in Nat /\ th.dead \in Nat
      /\ th.drop + th.retention >= 100 /\ th.retention > 0 /\ th.dead < th.trades
  BY DEF Coherent, ThresholdConfig
<1>3. /\ ~IsHoneypot(e) /\ e.trades >= th.trades /\ e.peak # 0
      /\ e.late * 100 >= th.retention * e.peak
  BY DEF SuccessfulLaunch
<1>4. ~Dropped(e, th)
  <2>1. SUFFICES ASSUME (e.early - e.late) * 100 > th.drop * e.early PROVE FALSE
    BY DEF Dropped
  <2>2. e.late * 100 < th.retention * e.peak
    BY <1>1, <1>2, <2>1, DroppedIsNotRetained
  <2>3. e.late * 100 \in Int /\ th.retention * e.peak \in Int
    BY <1>1, <1>2
  <2> QED
    BY <1>3, <2>2, <2>3
<1>5. e.late # 0
  <2>1. th.retention * e.peak > 0
    BY <1>1, <1>2, <1>3, PositiveProduct
  <2>2. th.retention * e.peak \in Nat
    BY <1>1, <1>2
  <2> QED
    BY <1>3, <2>1, <2>2
<1> QED
  BY <1>1, <1>2, <1>3, <1>4, <1>5 DEF RugPull, DeadToken

-----------------------------------------------------------------------------
(* What an evaluation reads.                                               *)

\* The rows of a table are finitely many.
FiniteTables == IsFiniteSet(snapshots)

LEMMA Constants ==
  /\ Created \in Nat
  /\ BarLength \in Nat \ {0}
  /\ {MaxLag, MaxTime, MaxEvents, MaxRuns, MaxCrashes} \subseteq Nat
  /\ DOMAIN Windows = 1..Len(Windows) /\ Len(Windows) \in Nat \ {0}
  /\ \A i \in DOMAIN Windows : Windows[i] \in Nat \ {0} /\ Windows[i] \in WindowSet
  /\ \A w \in WindowSet : w \in Nat \ {0} /\ Coherent(Thresholds[w])
  /\ DOMAIN TypeOrder = {1, 2, 3} /\ \A i \in DOMAIN TypeOrder : TypeOrder[i] \in Types
<1>1. Len(Windows) \in Nat \ {0} /\ DOMAIN Windows = 1..Len(Windows)
  BY LabellingAssumption
<1>2. \A i \in DOMAIN Windows : Windows[i] \in Nat \ {0}
  BY LabellingAssumption
<1>3. DOMAIN TypeOrder = {1, 2, 3} /\ \A i \in DOMAIN TypeOrder : TypeOrder[i] \in Types
  BY DEF TypeOrder, Types
<1>4. \A i \in DOMAIN Windows : Windows[i] \in WindowSet /\ Coherent(Thresholds[Windows[i]])
  BY LabellingAssumption DEF WindowSet
<1>5. \A w \in WindowSet : \E i \in DOMAIN Windows : w = Windows[i]
  BY DEF WindowSet
<1>6. /\ Created \in Nat /\ BarLength \in Nat \ {0}
      /\ {MaxLag, MaxTime, MaxEvents, MaxRuns, MaxCrashes} \subseteq Nat
  BY LabellingAssumption
<1>7. \A w \in WindowSet : w \in Nat \ {0} /\ Coherent(Thresholds[w])
  BY <1>2, <1>4, <1>5
<1> QED
  BY <1>1, <1>2, <1>3, <1>4, <1>6, <1>7

\* A window's swaps are facts of the pool: finitely many.
LEMMA SwapsAreFinite ==
  ASSUME TypeOK, NEW w
  PROVE  Cardinality(SwapsOf(w)) \in Nat
<1>1. DOMAIN events = 1..Len(events) /\ Len(events) \in Nat
  BY DEF TypeOK
<1>2. SwapsOf(w) \subseteq 1..Len(events)
  BY <1>1 DEF SwapsOf, TypeOK
<1>3. IsFiniteSet(1..Len(events))
  BY <1>1, FS_Interval
<1> QED
  BY <1>2, <1>3, FS_Subset, FS_CardinalityType

\* Whatever rows the queries of evaluate_outcome return, and in whatever order,
\* the depths are those of one list.
LEMMA ReadingsAreWell ==
  ASSUME TypeOK, FiniteTables, NEW w, NEW e \in Readings(w)
  PROVE  WellRead(e)
<1> DEFINE rows == SnapshotsIn(w)
           read == [NoEvidence EXCEPT !.trades = Cardinality(SwapsOf(w)), !.honeypot = honeypot]
<1>1. rows \subseteq Snapshot
  BY DEF TypeOK, SnapshotsIn
<1>2. Cardinality(rows) \in Nat
  BY FS_Subset, FS_CardinalityType DEF FiniteTables, SnapshotsIn
<1>3. /\ NoEvidence \in Evidence
      /\ NoEvidence.rows = 0 /\ NoEvidence.early = 0 /\ NoEvidence.late = 0 /\ NoEvidence.peak = 0
  BY DEF NoEvidence, Evidence, Never
<1>4. read \in Evidence /\ read.early = 0 /\ read.late = 0 /\ read.peak = 0
  <2>1. Cardinality(SwapsOf(w)) \in Nat /\ honeypot \in Nat \cup {Never}
    BY SwapsAreFinite DEF TypeOK
  <2>2. read \in Evidence
    BY <1>3, <2>1 DEF Evidence
  <2>3. read.early = 0 /\ read.late = 0 /\ read.peak = 0
    BY <1>3 DEF Evidence
  <2> QED
    BY <2>2, <2>3
<1>5. CASE rows = {}
  <2>1. e = read
    BY <1>5 DEF Readings
  <2> QED
    BY <1>4, <2>1 DEF WellRead
<1>6. CASE rows # {}
  <2>1. PICK r \in rows \X rows \X rows :
          /\ \A s \in rows : r[1].time <= s.time /\ s.time <= r[2].time /\ s.depth <= r[3].depth
          /\ e = [read EXCEPT !.rows = Cardinality(rows), !.early = r[1].depth,
                              !.late = r[2].depth, !.peak = r[3].depth]
    BY <1>6 DEF Readings
  <2>2. r[1] \in rows /\ r[2] \in rows /\ r[3] \in rows
    OBVIOUS
  <2>3. r[1].depth \in Nat /\ r[2].depth \in Nat /\ r[3].depth \in Nat
    BY <1>1, <2>2 DEF Snapshot
  <2>4. r[1].depth <= r[3].depth /\ r[2].depth <= r[3].depth
    BY <2>1, <2>2
  <2>5. e \in Evidence /\ e.early = r[1].depth /\ e.late = r[2].depth /\ e.peak = r[3].depth
    BY <1>2, <1>4, <2>1, <2>3 DEF Evidence
  <2> QED
    BY <2>4, <2>5 DEF WellRead
<1> QED
  BY <1>5, <1>6

\* An evaluation is TRUE or FALSE.
LEMMA EvaluationType ==
  ASSUME NEW t \in Types, NEW e, NEW th
  PROVE  EvaluateForType(t, e, th) \in BOOLEAN
<1>1. RugPull(e, th) \in BOOLEAN
  BY DEF RugPull, IsHoneypot, Dropped
<1>2. SuccessfulLaunch(e, th) \in BOOLEAN
  BY DEF SuccessfulLaunch
<1>3. DeadToken(e, th) \in BOOLEAN
  BY DEF DeadToken
<1> QED
  BY <1>1, <1>2, <1>3 DEF EvaluateForType, Types

-----------------------------------------------------------------------------
(* The inductive invariant.                                                *)

\* A job that is under way found the pair's creation final, and evaluates a
\* window that was closed on the clock it read when it began.
JobInOrder(job) ==
  /\ job.pc # "idle" => finalized > 0 /\ job.now <= now
  /\ job.pc \in {"evaluate", "save"} =>
       job.todo # {} /\ Close(Windows[job.window]) <= job.now

JobsInOrder == \A j \in Runners : JobInOrder(jobs[j])

\* There is one label of a window and type (the table's unique key).
OneLabel ==
  \A o, p \in outcomes : o.window = p.window /\ o.type = p.type => o = p

IInv ==
  /\ TypeOK
  /\ FiniteTables
  /\ JobsInOrder
  /\ OneLabel
  /\ LabelledAfterClose

LEMMA IdleJobType == IdleJob \in Job /\ JobInOrder(IdleJob)
<1>1. 1 \in DOMAIN Windows
  BY Constants
<1> QED
  BY <1>1 DEF IdleJob, Job, JobInOrder

\* What the loops over types and windows do with a job.
LEMMA NextWindowInOrder ==
  ASSUME NEW job \in Job, JobInOrder(job), job.pc # "idle"
  PROVE  NextWindow(job) \in Job /\ JobInOrder(NextWindow(job))
<1>1. CASE job.window < Len(Windows)
  <2>1. job.window + 1 \in DOMAIN Windows
    BY <1>1, Constants DEF Job
  <2>2. NextWindow(job) = [job EXCEPT !.pc = "keys", !.window = @ + 1, !.todo = {}, !.value = FALSE]
    BY <1>1 DEF NextWindow
  <2>3. NextWindow(job) \in Job
    BY <2>1, <2>2 DEF Job
  <2>4. NextWindow(job).pc = "keys" /\ NextWindow(job).now = job.now
    BY <2>2 DEF Job
  <2> QED
    BY <2>3, <2>4 DEF JobInOrder
<1>2. CASE ~(job.window < Len(Windows))
  BY <1>2, IdleJobType DEF NextWindow
<1> QED
  BY <1>1, <1>2

LEMMA NextTypeInOrder ==
  ASSUME NEW job \in Job, JobInOrder(job), job.pc \in {"evaluate", "save"}
  PROVE  NextType(job) \in Job /\ JobInOrder(NextType(job))
<1> DEFINE rest == job.todo \ {First(job.todo)}
<1>1. CASE rest = {}
  BY <1>1, NextWindowInOrder DEF NextType
<1>2. CASE rest # {}
  <2>1. NextType(job) = [job EXCEPT !.pc = "evaluate", !.todo = rest, !.value = FALSE]
    BY <1>2 DEF NextType
  <2>2. rest \in SUBSET DOMAIN TypeOrder
    BY DEF Job
  <2> HIDE DEF rest
  <2>3. NextType(job) \in Job
    BY <2>1, <2>2 DEF Job
  <2>4. /\ NextType(job).todo = rest /\ NextType(job).now = job.now
        /\ NextType(job).window = job.window
    BY <2>1 DEF Job
  <2> QED
    BY <1>2, <2>3, <2>4 DEF JobInOrder
<1> QED
  BY <1>1, <1>2

\* The type a job is at is one of the three.
LEMMA FirstIsMember ==
  ASSUME NEW todo \in SUBSET DOMAIN TypeOrder, todo # {}
  PROVE  First(todo) \in todo
<1>1. \E i \in todo : \A k \in todo : i <= k
  <2>1. todo \subseteq {1, 2, 3}
    BY Constants
  <2>2. CASE 1 \in todo
    BY <2>1, <2>2
  <2>3. CASE 1 \notin todo /\ 2 \in todo
    BY <2>1, <2>3
  <2>4. CASE 1 \notin todo /\ 2 \notin todo
    BY <2>1, <2>4
  <2> QED
    BY <2>2, <2>3, <2>4
<1> QED
  BY <1>1 DEF First

LEMMA WindowAndType ==
  ASSUME TypeOK, JobsInOrder, NEW j \in Runners
  PROVE  /\ jobs[j] \in Job /\ JobInOrder(jobs[j])
         /\ Window(j) \in WindowSet /\ Window(j) = Windows[jobs[j].window]
         /\ Close(Window(j)) \in Nat
         /\ jobs[j].pc \in {"evaluate", "save"} => CurrentType(j) \in Types
<1>1. jobs[j] \in Job /\ JobInOrder(jobs[j])
  BY DEF TypeOK, JobsInOrder
<1>2. jobs[j].window \in DOMAIN Windows /\ jobs[j].todo \in SUBSET DOMAIN TypeOrder
  BY <1>1 DEF Job
<1>3. Window(j) \in WindowSet /\ Window(j) = Windows[jobs[j].window] /\ Close(Window(j)) \in Nat
  <2>1. Window(j) = Windows[jobs[j].window]
    BY DEF Window
  <2>2. Window(j) \in WindowSet
    BY <1>2, <2>1, Constants
  <2>3. Window(j) \in Nat /\ Created \in Nat
    BY <2>2, Constants
  <2> QED
    BY <2>1, <2>2, <2>3 DEF Close
<1>4. ASSUME jobs[j].pc \in {"evaluate", "save"} PROVE CurrentType(j) \in Types
  <2>1. jobs[j].todo # {}
    BY <1>1, <1>4 DEF JobInOrder
  <2>2. First(jobs[j].todo) \in DOMAIN TypeOrder
    BY <1>2, <2>1, FirstIsMember
  <2> QED
    BY <2>2, Constants DEF CurrentType
<1> QED
  BY <1>1, <1>3, <1>4

-----------------------------------------------------------------------------
(* The steps.                                                              *)

LEMMA InitEstablishes == Init => IInv
<1> SUFFICES ASSUME Init PROVE IInv
  OBVIOUS
<1>1. events \in Seq(EventType) /\ finalized \in 0..Len(events) /\ now \in Nat
  BY LabellingAssumption DEF Init, EventType
<1>2. bars \in [{BucketStart(t) : t \in 0..MaxTime} -> SUBSET (DOMAIN events)]
  BY DEF Init
<1>3. script \in [pc : {"off", "bars", "snapshots"}, facts : 0..finalized,
                  done : SUBSET Int, runs : 0..MaxRuns]
  BY Constants DEF Init, IdleScript
<1>4. jobs \in [Runners -> Job] /\ JobsInOrder
  BY IdleJobType DEF Init, JobsInOrder
<1>5. TypeOK
  BY <1>1, <1>2, <1>3, <1>4, Constants DEF Init, TypeOK
<1>6. FiniteTables
  BY FS_EmptySet DEF Init, FiniteTables
<1>7. OneLabel /\ LabelledAfterClose
  BY DEF Init, OneLabel, LabelledAfterClose, Labelled
<1> QED
  BY <1>4, <1>5, <1>6, <1>7 DEF IInv

\* Time, finality and the end of a job break nothing that was said of labels.
LEMMA LabelsUntouched ==
  ASSUME IInv, TypeOK', FiniteTables', outcomes' = outcomes, now <= now', finalized <= finalized',
         \A j \in Runners : jobs'[j] = jobs[j] \/ jobs'[j] = IdleJob
  PROVE  IInv'
<1>1. now \in Nat /\ now' \in Nat /\ finalized \in Nat /\ finalized' \in Nat
  BY DEF IInv, TypeOK
<1>2. JobsInOrder'
  <2>1. ASSUME NEW j \in Runners PROVE JobInOrder(jobs[j])'
    <3>1. CASE jobs'[j] = IdleJob
      BY <3>1 DEF IdleJob, JobInOrder
    <3>2. CASE jobs'[j] = jobs[j]
      <4>1. JobInOrder(jobs[j]) /\ jobs[j].now \in Nat
        BY DEF IInv, JobsInOrder, TypeOK, Job
      <4> QED
        BY <1>1, <3>2, <4>1 DEF JobInOrder, Close
    <3> QED
      BY <2>1, <3>1, <3>2
  <2> QED
    BY <2>1 DEF JobsInOrder
<1>3. LabelledAfterClose'
  <2>1. \A w \in WindowSet : Close(w) \in Nat
    BY Constants DEF Close
  <2> QED
    BY <1>1, <2>1 DEF IInv, LabelledAfterClose, Labelled, Close
<1> QED
  BY <1>2, <1>3 DEF IInv, OneLabel

\* What an upsert leaves is a table.
LEMMA UpsertedType ==
  ASSUME TypeOK, FiniteTables, NEW time \in Nat, NEW source \in {"poll", "post_process"}, NEW depth \in Nat
  PROVE  Upserted(time, source, depth) \subseteq Snapshot /\ IsFiniteSet(Upserted(time, source, depth))
<1> DEFINE kept == {s \in snapshots : s.time # time \/ s.source # source}
           row == [time |-> time, source |-> source, depth |-> depth]
<1>1. row \in Snapshot /\ kept \subseteq Snapshot
  BY DEF Snapshot, TypeOK
<1>2. IsFiniteSet(kept)
  BY FS_Subset DEF FiniteTables
<1>3. Upserted(time, source, depth) = kept \cup {row}
  BY DEF Upserted
<1> HIDE DEF kept, row
<1> QED
  BY <1>1, <1>2, <1>3, FS_AddElement

LEMMA EventFields ==
  ASSUME TypeOK, NEW i \in 1..Len(events)
  PROVE  events[i].time \in Nat /\ events[i].depth \in Nat
<1>1. events[i] \in EventType
  BY ElementOfSeq DEF TypeOK
<1> QED
  BY <1>1 DEF EventType

LEMMA DepthsAreNumbers ==
  ASSUME NEW n, NEW t
  PROVE  DepthsAt(n, t) \subseteq Nat
<1>1. \A d : Clamp(d) \in Nat
  BY DEF Clamp
<1>2. \A facts, from : Replayed(facts, from) \subseteq Nat
  BY <1>1 DEF Replayed
<1> QED
  BY <1>2 DEF DepthsAt

\* The steps of the world and of the two writers of rows.
LEMMA WritersKeepInvariant ==
  ASSUME IInv,
         \/ Tick \/ Ingest \/ Finalize \/ SaveInsight \/ SaveSnapshot
         \/ StartScript \/ BackfillBar \/ BarsDone \/ BackfillSnapshot
         \/ Interrupt \/ Crash
  PROVE  IInv'
<1> USE DEF IInv
<1>0. /\ now \in Nat /\ Len(events) \in Nat /\ finalized \in 0..Len(events)
      /\ DOMAIN events = 1..Len(events) /\ Recent \subseteq Nat /\ Scheduled \subseteq Nat
  <2>1. /\ now \in Nat /\ Len(events) \in Nat /\ finalized \in 0..Len(events)
        /\ DOMAIN events = 1..Len(events)
    BY DEF TypeOK
  <2>2. Created \in Nat
    BY Constants
  <2>3. Recent \subseteq Nat
    BY <2>1, <2>2 DEF Recent
  <2> QED
    BY <2>1, <2>3 DEF Scheduled
<1>1. CASE Tick
  <2>1. TypeOK' /\ FiniteTables'
    BY <1>0, <1>1 DEF Tick, TypeOK, FiniteTables, tables
  <2> QED
    BY <1>0, <1>1, <2>1, LabelsUntouched DEF Tick
<1>2. CASE Ingest
  <2>1. PICK time \in Recent, move \in Moves :
          events' = Append(events, [time |-> time, kind |-> move.kind, depth |-> move.depth])
    BY <1>2 DEF Ingest
  <2>2. [time |-> time, kind |-> move.kind, depth |-> move.depth] \in EventType
    BY <1>0, LabellingAssumption DEF EventType
  <2>3. events' \in Seq(EventType) /\ Len(events') = Len(events) + 1
    BY <2>1, <2>2 DEF TypeOK
  <2>4. DOMAIN events \subseteq DOMAIN events' /\ finalized' \in 0..Len(events')
    BY <1>0, <1>2, <2>3 DEF Ingest
  <2>5. bars' \in [{BucketStart(t) : t \in 0..MaxTime} -> SUBSET (DOMAIN events')]
    BY <1>2, <2>4 DEF Ingest, TypeOK, tables
  <2>6. TypeOK' /\ FiniteTables'
    BY <1>2, <2>3, <2>4, <2>5 DEF Ingest, TypeOK, FiniteTables, tables
  <2> QED
    BY <1>0, <1>2, <2>6, LabelsUntouched DEF Ingest
<1>3. CASE Finalize
  <2>1. finalized' \in finalized + 1..Len(events)
    BY <1>3 DEF Finalize
  <2>2. 0..finalized \subseteq 0..finalized' /\ finalized' \in 0..Len(events) /\ finalized <= finalized'
    BY <1>0, <2>1
  <2>3. script \in [pc : {"off", "bars", "snapshots"}, facts : 0..finalized',
                    done : SUBSET Int, runs : 0..MaxRuns]
    BY <2>2 DEF TypeOK
  <2>4. TypeOK' /\ FiniteTables'
    BY <1>3, <2>2, <2>3 DEF Finalize, TypeOK, FiniteTables, tables
  <2> QED
    BY <1>0, <1>3, <2>2, <2>4, LabelsUntouched DEF Finalize
<1>4. CASE SaveInsight
  <2>1. TypeOK' /\ FiniteTables'
    BY <1>0, <1>4 DEF SaveInsight, TypeOK, FiniteTables, tables
  <2> QED
    BY <1>0, <1>4, <2>1, LabelsUntouched DEF SaveInsight
<1>5. CASE SaveSnapshot
  <2>1. PICK time \in Scheduled : snapshots' = Upserted(time, "poll", events[Len(events)].depth)
    BY <1>5 DEF SaveSnapshot
  <2>2. events[Len(events)].depth \in Nat
    BY <1>0, <1>5, EventFields DEF SaveSnapshot
  <2>3. snapshots' \subseteq Snapshot /\ IsFiniteSet(snapshots')
    BY <1>0, <2>1, <2>2, UpsertedType
  <2>4. TypeOK' /\ FiniteTables'
    BY <1>5, <2>3 DEF SaveSnapshot, TypeOK, FiniteTables, environment
  <2> QED
    BY <1>0, <1>5, <2>4, LabelsUntouched DEF SaveSnapshot, environment
<1>6. CASE StartScript
  <2>1. script' = [pc |-> "bars", facts |-> finalized, done |-> {}, runs |-> script.runs + 1]
    BY <1>6 DEF StartScript
  <2>2. script.runs + 1 \in 0..MaxRuns /\ finalized \in 0..finalized
    <3>1. script.runs \in 0..MaxRuns /\ script.runs < MaxRuns /\ MaxRuns \in Nat
      BY <1>6, Constants DEF StartScript, TypeOK
    <3> QED
      BY <1>0, <3>1
  <2>3. script' \in [pc : {"off", "bars", "snapshots"}, facts : 0..finalized,
                     done : SUBSET Int, runs : 0..MaxRuns]
    BY <2>1, <2>2
  <2>4. TypeOK' /\ FiniteTables'
    BY <1>6, <2>3 DEF StartScript, TypeOK, FiniteTables, environment, tables
  <2> QED
    BY <1>0, <1>6, <2>4, LabelsUntouched DEF StartScript, environment
<1>7. CASE BackfillBar
  <2>1. PICK b \in Buckets(script.facts) :
          /\ bars' = [bars EXCEPT ![b] = SwapsIn(script.facts, b)]
          /\ script' = [script EXCEPT !.done = @ \cup {b}]
    BY <1>7 DEF BackfillBar
  <2>2. script.facts \in 0..finalized
    BY DEF TypeOK
  <2>3. SwapsIn(script.facts, b) \subseteq DOMAIN events
    BY <1>0, <2>2 DEF SwapsIn
  <2>4. b \in Int
    <3>1. PICK i \in 1..script.facts : b = BucketStart(events[i].time)
      BY DEF Buckets
    <3>2. events[i].time \in Nat
      BY <1>0, <2>2, EventFields
    <3> QED
      BY <3>1, <3>2, Constants DEF BucketStart
  <2>5. bars' \in [{BucketStart(t) : t \in 0..MaxTime} -> SUBSET (DOMAIN events)]
    BY <2>1, <2>3 DEF TypeOK
  <2>6. script' \in [pc : {"off", "bars", "snapshots"}, facts : 0..finalized,
                     done : SUBSET Int, runs : 0..MaxRuns]
    BY <2>1, <2>4 DEF TypeOK
  <2>7. TypeOK' /\ FiniteTables'
    BY <1>7, <2>5, <2>6 DEF BackfillBar, TypeOK, FiniteTables, environment
  <2> QED
    BY <1>0, <1>7, <2>7, LabelsUntouched DEF BackfillBar, environment
<1>8. CASE BarsDone
  <2>1. script' \in [pc : {"off", "bars", "snapshots"}, facts : 0..finalized,
                     done : SUBSET Int, runs : 0..MaxRuns]
    BY <1>8 DEF BarsDone, TypeOK
  <2>2. TypeOK' /\ FiniteTables'
    BY <1>8, <2>1 DEF BarsDone, TypeOK, FiniteTables, environment, tables
  <2> QED
    BY <1>0, <1>8, <2>2, LabelsUntouched DEF BarsDone, environment
<1>9. CASE BackfillSnapshot
  <2>0. PICK i \in DOMAIN Offsets :
          /\ \E depth \in DepthsAt(finalized, Created + Offsets[i]) :
               snapshots' = Upserted(Created + Offsets[i], "post_process", depth)
          /\ script' = [script EXCEPT !.done = @ \cup {i}]
    BY <1>9 DEF BackfillSnapshot
  <2>1. PICK depth \in DepthsAt(finalized, Created + Offsets[i]) :
          snapshots' = Upserted(Created + Offsets[i], "post_process", depth)
    BY <2>0
  <2>2. Created + Offsets[i] \in Nat /\ depth \in Nat /\ i \in Int
    <3>1. Offsets \in Seq(Nat) /\ Created \in Nat
      BY LabellingAssumption
    <3>2. i \in 1..Len(Offsets) /\ Len(Offsets) \in Nat
      BY <3>1
    <3>3. Offsets[i] \in Nat
      BY <3>1, <3>2, ElementOfSeq
    <3>4. depth \in Nat
      BY DepthsAreNumbers
    <3> QED
      BY <3>1, <3>2, <3>3, <3>4
  <2>3. snapshots' \subseteq Snapshot /\ IsFiniteSet(snapshots')
    BY <2>1, <2>2, UpsertedType
  <2>4. script' \in [pc : {"off", "bars", "snapshots"}, facts : 0..finalized,
                     done : SUBSET Int, runs : 0..MaxRuns]
    BY <2>0, <2>2 DEF TypeOK
  <2>5. TypeOK' /\ FiniteTables'
    BY <1>9, <2>3, <2>4 DEF BackfillSnapshot, TypeOK, FiniteTables, environment
  <2> QED
    BY <1>0, <1>9, <2>5, LabelsUntouched DEF BackfillSnapshot, environment
<1>10. CASE Interrupt
  <2>1. script' \in [pc : {"off", "bars", "snapshots"}, facts : 0..finalized,
                     done : SUBSET Int, runs : 0..MaxRuns]
    BY <1>0, <1>10 DEF Interrupt, IdleScript, TypeOK
  <2>2. TypeOK' /\ FiniteTables'
    BY <1>10, <2>1, IdleJobType DEF Interrupt, TypeOK, FiniteTables, environment, tables
  <2>3. \A j \in Runners : jobs'[j] = jobs[j] \/ jobs'[j] = IdleJob
    BY <1>10 DEF Interrupt, TypeOK
  <2> QED
    BY <1>0, <1>10, <2>2, <2>3, LabelsUntouched DEF Interrupt, environment
<1>11. CASE Crash
  <2>1. crashes' \in 0..MaxCrashes
    BY <1>11, Constants DEF Crash, TypeOK
  <2>2. TypeOK' /\ FiniteTables'
    BY <1>11, <2>1, IdleJobType DEF Crash, TypeOK, FiniteTables, environment, tables
  <2>3. \A j \in Runners : jobs'[j] = jobs[j] \/ jobs'[j] = IdleJob
    BY <1>11 DEF Crash, TypeOK
  <2> QED
    BY <1>0, <1>11, <2>2, <2>3, LabelsUntouched DEF Crash, environment
<1> QED
  BY <1>1, <1>2, <1>3, <1>4, <1>5, <1>6, <1>7, <1>8, <1>9, <1>10, <1>11

\* A step of one job that writes no label.
LEMMA JobStep ==
  ASSUME IInv, NEW j \in Runners, NEW job \in Job, JobInOrder(job), jobs' = [jobs EXCEPT ![j] = job],
         UNCHANGED <<environment, tables, outcomes, crashes>>,
         script' \in [pc : {"off", "bars", "snapshots"}, facts : 0..finalized,
                      done : SUBSET Int, runs : 0..MaxRuns]
  PROVE  IInv'
<1>1. TypeOK' /\ FiniteTables'
  BY DEF IInv, TypeOK, FiniteTables, environment, tables
<1>2. JobsInOrder'
  <2>1. ASSUME NEW k \in Runners PROVE JobInOrder(jobs[k])'
    <3>1. jobs'[k] = job \/ jobs'[k] = jobs[k]
      BY DEF IInv, TypeOK
    <3>2. JobInOrder(jobs[k]) /\ now' = now /\ finalized' = finalized
      BY DEF IInv, JobsInOrder, environment
    <3> QED
      BY <3>1, <3>2 DEF JobInOrder
  <2> QED
    BY <2>1 DEF JobsInOrder
<1>3. OneLabel' /\ LabelledAfterClose'
  BY DEF IInv, OneLabel, LabelledAfterClose, Labelled, environment
<1> QED
  BY <1>1, <1>2, <1>3 DEF IInv

LEMMA ReadPairsKeepsInvariant ==
  ASSUME IInv, NEW j \in Runners, ReadPairs(j), UNCHANGED <<environment, tables, outcomes, crashes>>,
         script' \in [pc : {"off", "bars", "snapshots"}, facts : 0..finalized,
                      done : SUBSET Int, runs : 0..MaxRuns]
  PROVE  IInv'
<1> DEFINE job == [IdleJob EXCEPT !.pc = "keys", !.now = now]
<1>1. job \in Job /\ job.pc = "keys" /\ job.now = now
  BY IdleJobType DEF IInv, TypeOK, Job
<1>2. JobInOrder(job)
  BY <1>1 DEF JobInOrder, ReadPairs, IInv, TypeOK
<1>3. jobs' = [jobs EXCEPT ![j] = job]
  BY DEF ReadPairs
<1> HIDE DEF job
<1> QED
  BY <1>1, <1>2, <1>3, JobStep

LEMMA ReadKeysKeepsInvariant ==
  ASSUME IInv, NEW j \in Runners, ReadKeys(j)
  PROVE  IInv'
<1> DEFINE w == Window(j)
           todo == IF jobs[j].now - Created < w THEN {} ELSE Unlabelled(w)
           job == IF todo = {} THEN NextWindow(jobs[j])
                  ELSE [jobs[j] EXCEPT !.pc = "evaluate", !.todo = todo]
<1>1. /\ jobs[j] \in Job /\ JobInOrder(jobs[j]) /\ w \in Nat /\ w = Windows[jobs[j].window]
      /\ jobs[j].pc = "keys"
  BY WindowAndType, Constants DEF IInv, ReadKeys
<1>2. jobs' = [jobs EXCEPT ![j] = job]
  BY DEF ReadKeys
<1>3. todo \in SUBSET DOMAIN TypeOrder
  BY DEF Unlabelled
<1>4. job \in Job /\ JobInOrder(job)
  <2>1. CASE todo = {}
    BY <1>1, <2>1, NextWindowInOrder
  <2>2. CASE todo # {}
    <3>1. Close(w) <= jobs[j].now
      <4>1. ~(jobs[j].now - Created < w)
        BY <2>2
      <4>2. jobs[j].now \in Nat
        BY <1>1 DEF Job
      <4>3. Created \in Nat
        BY Constants
      <4> HIDE DEF w, todo
      <4> QED
        BY <1>1, <4>1, <4>2, <4>3 DEF Close
    <3>2. job = [jobs[j] EXCEPT !.pc = "evaluate", !.todo = todo]
      BY <2>2
    <3> HIDE DEF todo, job
    <3>3. job \in Job
      BY <1>1, <1>3, <3>2 DEF Job
    <3>4. job.todo = todo /\ job.now = jobs[j].now /\ job.window = jobs[j].window
      BY <1>1, <3>2 DEF Job
    <3> QED
      BY <1>1, <2>2, <3>1, <3>3, <3>4 DEF JobInOrder
  <2> QED
    BY <2>1, <2>2
<1>5. /\ UNCHANGED <<environment, tables, outcomes, crashes>>
      /\ script' \in [pc : {"off", "bars", "snapshots"}, facts : 0..finalized,
                      done : SUBSET Int, runs : 0..MaxRuns]
  BY DEF ReadKeys, IInv, TypeOK
<1> HIDE DEF job
<1> QED
  BY <1>2, <1>4, <1>5, JobStep

LEMMA EvaluateKeepsInvariant ==
  ASSUME IInv, NEW j \in Runners, EvaluateOutcome(j)
  PROVE  IInv'
<1>1. /\ jobs[j] \in Job /\ JobInOrder(jobs[j]) /\ jobs[j].pc = "evaluate"
      /\ CurrentType(j) \in Types
  BY WindowAndType DEF IInv, EvaluateOutcome
<1>2. PICK e \in Readings(Window(j)) :
        jobs' = [jobs EXCEPT ![j] =
                   IF e.rows = 0 /\ e.trades = 0 THEN NextType(@)
                   ELSE [@ EXCEPT !.pc = "save",
                                  !.value = EvaluateForType(CurrentType(j), e, Thresholds[Window(j)])]]
  BY DEF EvaluateOutcome
<1> DEFINE value == EvaluateForType(CurrentType(j), e, Thresholds[Window(j)])
           job == IF e.rows = 0 /\ e.trades = 0 THEN NextType(jobs[j])
                  ELSE [jobs[j] EXCEPT !.pc = "save", !.value = value]
<1>3. jobs' = [jobs EXCEPT ![j] = job]
  BY <1>2
<1>4. value \in BOOLEAN
  BY <1>1, EvaluationType
<1>5. job \in Job /\ JobInOrder(job)
  <2>1. CASE e.rows = 0 /\ e.trades = 0
    BY <1>1, <2>1, NextTypeInOrder
  <2>2. CASE ~(e.rows = 0 /\ e.trades = 0)
    <3>1. job = [jobs[j] EXCEPT !.pc = "save", !.value = value]
      BY <2>2
    <3> HIDE DEF value, job
    <3>2. job \in Job
      BY <1>1, <1>4, <3>1 DEF Job
    <3>3. job.todo = jobs[j].todo /\ job.now = jobs[j].now /\ job.window = jobs[j].window
      BY <1>1, <3>1 DEF Job
    <3> QED
      BY <1>1, <3>2, <3>3 DEF JobInOrder
  <2> QED
    BY <2>1, <2>2
<1>6. /\ UNCHANGED <<environment, tables, outcomes, crashes>>
      /\ script' \in [pc : {"off", "bars", "snapshots"}, facts : 0..finalized,
                      done : SUBSET Int, runs : 0..MaxRuns]
  BY DEF EvaluateOutcome, IInv, TypeOK
<1> HIDE DEF job
<1> QED
  BY <1>3, <1>5, <1>6, JobStep

\* What SaveOutcome writes keeps the labels there are, and is for a window that
\* was closed when the job began.
LEMMA SaveKeepsInvariant ==
  ASSUME IInv, NEW j \in Runners, SaveOutcome(j)
  PROVE  IInv'
<1> DEFINE label == [window |-> Window(j), type |-> CurrentType(j), value |-> jobs[j].value]
           job == NextType(jobs[j])
<1>1. /\ jobs[j] \in Job /\ JobInOrder(jobs[j]) /\ jobs[j].pc = "save"
      /\ CurrentType(j) \in Types /\ Window(j) \in WindowSet /\ Window(j) = Windows[jobs[j].window]
  BY WindowAndType DEF IInv, SaveOutcome
<1>2. /\ label \in [window : WindowSet, type : Types, value : BOOLEAN]
      /\ label.window = Window(j) /\ label.type = CurrentType(j)
  BY <1>1 DEF Job
<1>3. \/ Labelled(label.window, label.type) /\ outcomes' = outcomes
      \/ ~Labelled(label.window, label.type) /\ outcomes' = outcomes \cup {label}
  BY <1>2 DEF SaveOutcome, PutOutcome
<1>4. jobs' = [jobs EXCEPT ![j] = job] /\ job \in Job /\ JobInOrder(job)
  BY <1>1, NextTypeInOrder DEF SaveOutcome
<1>5. UNCHANGED <<now, events, finalized, honeypot, snapshots, bars, script, crashes>>
  BY DEF SaveOutcome, environment, tables
<1> HIDE DEF label, job
<1>6. TypeOK' /\ FiniteTables'
  BY <1>2, <1>3, <1>4, <1>5 DEF IInv, TypeOK, FiniteTables
<1>7. JobsInOrder'
  <2>1. ASSUME NEW k \in Runners PROVE JobInOrder(jobs[k])'
    <3>1. jobs'[k] = job \/ jobs'[k] = jobs[k]
      BY <1>4 DEF IInv, TypeOK
    <3>2. JobInOrder(jobs[k])
      BY DEF IInv, JobsInOrder
    <3> QED
      BY <1>4, <1>5, <3>1, <3>2 DEF JobInOrder
  <2> QED
    BY <2>1 DEF JobsInOrder
<1>8. OneLabel'
  BY <1>3 DEF IInv, OneLabel, Labelled
<1>9. LabelledAfterClose'
  <2>1. finalized > 0 /\ Close(Window(j)) <= now
    <3>1. finalized > 0 /\ jobs[j].now <= now /\ Close(Window(j)) <= jobs[j].now
      BY <1>1 DEF JobInOrder
    <3>2. jobs[j].now \in Nat /\ now \in Nat /\ Close(Window(j)) \in Nat
      BY <1>1, WindowAndType DEF IInv, TypeOK, Job
    <3> QED
      BY <3>1, <3>2
  <2>2. ASSUME NEW w \in WindowSet, NEW t \in Types, Labelled(w, t)'
        PROVE  now' >= Close(w)' /\ finalized' > 0
    <3>1. Labelled(w, t) \/ w = Window(j)
      BY <1>2, <1>3, <2>2 DEF Labelled
    <3>2. CASE Labelled(w, t)
      BY <1>5, <3>2 DEF IInv, LabelledAfterClose, Close
    <3>3. CASE w = Window(j)
      <4>1. Close(w) <= now /\ Close(w) \in Nat
        BY <2>1, <3>3, WindowAndType DEF IInv
      <4>2. now \in Nat
        BY DEF IInv, TypeOK
      <4>3. Close(w)' = Close(w)
        BY DEF Close
      <4> QED
        BY <1>5, <2>1, <4>1, <4>2, <4>3
    <3> QED
      BY <3>1, <3>2, <3>3
  <2> QED
    BY <2>2 DEF LabelledAfterClose
<1> QED
  BY <1>6, <1>7, <1>8, <1>9 DEF IInv

LEMMA StepKeepsInvariant == IInv /\ [Next]_vars => IInv'
<1> SUFFICES ASSUME IInv, [Next]_vars PROVE IInv'
  OBVIOUS
<1>1. CASE \/ Tick \/ Ingest \/ Finalize \/ SaveInsight \/ SaveSnapshot
           \/ StartScript \/ BackfillBar \/ BarsDone \/ BackfillSnapshot \/ Interrupt \/ Crash
  BY <1>1, WritersKeepInvariant
<1>2. CASE ScriptOutcomes
  <2>1. script' \in [pc : {"off", "bars", "snapshots"}, facts : 0..finalized,
                     done : SUBSET Int, runs : 0..MaxRuns]
    BY <1>2 DEF ScriptOutcomes, IdleScript, IInv, TypeOK
  <2>2. UNCHANGED <<environment, tables, outcomes, crashes>> /\ "script" \in Runners
    BY <1>2 DEF ScriptOutcomes, Runners
  <2>3. CASE ReadPairs("script")
    BY <2>1, <2>2, <2>3, ReadPairsKeepsInvariant
  <2>4. CASE UNCHANGED jobs
    <3>1. TypeOK' /\ FiniteTables'
      BY <2>1, <2>2, <2>4 DEF IInv, TypeOK, FiniteTables, environment, tables
    <3>2. now <= now' /\ finalized <= finalized'
      BY <2>2 DEF IInv, TypeOK, environment
    <3> QED
      BY <2>2, <2>4, <3>1, <3>2, LabelsUntouched
  <2> QED
    BY <1>2, <2>3, <2>4 DEF ScriptOutcomes
<1>3. CASE StartJob
  <2>1. script' \in [pc : {"off", "bars", "snapshots"}, facts : 0..finalized,
                     done : SUBSET Int, runs : 0..MaxRuns]
    BY <1>3 DEF StartJob, IInv, TypeOK
  <2> QED
    BY <1>3, <2>1, ReadPairsKeepsInvariant DEF StartJob, Runners
<1>4. ASSUME NEW j \in Runners, Evaluate(j) PROVE IInv'
  BY <1>4, ReadKeysKeepsInvariant, EvaluateKeepsInvariant, SaveKeepsInvariant DEF Evaluate
<1>5. CASE UNCHANGED vars
  <2>1. TypeOK' /\ FiniteTables'
    BY <1>5 DEF vars, environment, tables, IInv, TypeOK, FiniteTables
  <2>2. now <= now' /\ finalized <= finalized'
    BY <1>5 DEF vars, environment, IInv, TypeOK
  <2> QED
    BY <1>5, <2>1, <2>2, LabelsUntouched DEF vars
<1> QED
  BY <1>1, <1>2, <1>3, <1>4, <1>5 DEF Next
-----------------------------------------------------------------------------
(* The theorems.                                                           *)

\* The inductive invariant.
THEOREM InvariantHolds == Spec => []IInv
  BY InitEstablishes, StepKeepsInvariant, PTL DEF Spec

\* Every table row, job and script state has its type.
THEOREM TypeCorrect == Spec => []TypeOK
<1>1. IInv => TypeOK
  BY DEF IInv
<1> QED
  BY <1>1, InvariantHolds, PTL

\* run_outcome_evaluation writes no label before the window closed and the
\* creation is final, however old the clock value of the run is.
THEOREM NoEarlyLabel == Spec => []LabelledAfterClose
<1>1. IInv => LabelledAfterClose
  BY DEF IInv
<1> QED
  BY <1>1, InvariantHolds, PTL

\* Whatever rows a window has, the rules make it a successful launch or one of
\* the other two labels, never both.
THEOREM NoContradiction == Spec => []RulesExclude
<1>1. IInv => RulesExclude
  <2> SUFFICES ASSUME IInv, NEW w \in WindowSet, NEW e \in Readings(w),
                      SuccessfulLaunch(e, Thresholds[w])
               PROVE  ~RugPull(e, Thresholds[w]) /\ ~DeadToken(e, Thresholds[w])
    BY DEF RulesExclude
  <2>1. WellRead(e)
    BY ReadingsAreWell DEF IInv
  <2>2. Coherent(Thresholds[w])
    BY Constants
  <2> QED
    BY <2>1, <2>2, SuccessExcludes
<1> QED
  BY <1>1, InvariantHolds, PTL

\* No step of either runner, of the script or of a crash changes or doubles a
\* label that is written.
THEOREM LabelsStay == Spec => LabelsAreFinal
<1>1. IInv /\ IInv' /\ [Next]_vars =>
        [\A o \in outcomes : {p \in outcomes' : p.window = o.window /\ p.type = o.type} = {o}]_vars
  <2> SUFFICES ASSUME IInv, IInv', [Next]_vars, NEW o \in outcomes
               PROVE  {p \in outcomes' : p.window = o.window /\ p.type = o.type} = {o}
    OBVIOUS
  <2>1. outcomes \subseteq outcomes'
    BY DEF Next, Tick, Ingest, Finalize, SaveInsight, SaveSnapshot, StartScript, BackfillBar, BarsDone,
           BackfillSnapshot, ScriptOutcomes, Interrupt, StartJob, Evaluate, ReadKeys, EvaluateOutcome,
           SaveOutcome, PutOutcome, Crash, vars
  <2>2. \A p \in outcomes' : p.window = o.window /\ p.type = o.type => p = o
    BY <2>1 DEF IInv, OneLabel
  <2> QED
    BY <2>1, <2>2
<1> QED
  BY <1>1, InvariantHolds, PTL DEF Spec, LabelsAreFinal
=============================================================================
