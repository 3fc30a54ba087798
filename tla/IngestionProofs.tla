--------------------------- MODULE IngestionProofs ---------------------------
(***************************************************************************)
(* Theorems about Ingestion, for every set of logs, filter list,           *)
(* confirmation depth, operator argument and reorganisation the constants  *)
(* allow.                                                                  *)
(***************************************************************************)
EXTENDS Ingestion, TLAPS

-----------------------------------------------------------------------------
(* The rows and the statements on them.                                     *)

(* A statement leaves the table a table.                                    *)
LEMMA SaveFactType ==
  ASSUME NEW table \in [Txs -> Row], NEW id \in Txs, NEW row \in Row
  PROVE  SaveFact(table, id, row) \in [Txs -> Row]
  BY DEF SaveFact

LEMMA AdvanceRowType ==
  ASSUME NEW row \in Row, NEW head \in Nat
  PROVE  AdvanceRow(row, head, Depth) \in Row
<1>1. CASE row.status \in Advancing /\ row.block <= head
  <2>1. row.block \in Nat /\ row.status \in ConfirmationStatus \cup {Absent}
    BY DEF Row
  <2>2. head - row.block \in Nat
    BY <1>1, <2>1
  <2>3. StatusAt(row, head - row.block, Depth) \in ConfirmationStatus \cup {Absent}
    BY <2>1 DEF StatusAt, ConfirmationStatus
  <2>4. AdvanceRow(row, head, Depth)
          = [row EXCEPT !.confs  = head - row.block,
                        !.status = StatusAt(row, head - row.block, Depth)]
    BY <1>1 DEF AdvanceRow
  <2>5. QED BY <2>2, <2>3, <2>4 DEF Row
<1>2. CASE ~(row.status \in Advancing /\ row.block <= head)
  BY <1>2 DEF AdvanceRow
<1>3. QED BY <1>1, <1>2

LEMMA OrphanRowType ==
  ASSUME NEW row \in Row, NEW from \in Int, NEW to \in Int
  PROVE  OrphanRow(row, from, to) \in Row
  BY DEF OrphanRow, Row, ConfirmationStatus, Orphaned

LEMMA AdvanceType ==
  ASSUME NEW table \in [Txs -> Row], NEW head \in Nat
  PROVE  AdvanceConfirmationCounts(table, head, Depth) \in [Txs -> Row]
  BY AdvanceRowType DEF AdvanceConfirmationCounts

LEMMA OrphanType ==
  ASSUME NEW table \in [Txs -> Row], NEW from \in Int, NEW to \in Int
  PROVE  MarkFactsOrphaned(table, from, to) \in [Txs -> Row]
  BY OrphanRowType DEF MarkFactsOrphaned

(* A fact of a block of the chain is a row.                                 *)
LEMMA NewFactType ==
  ASSUME NEW number \in Nat, NEW hash \in Nat, NEW time \in Nat
  PROVE  NewFact(number, hash, time) \in Row
  BY DEF NewFact, Row, ConfirmationStatus

-----------------------------------------------------------------------------
(* The header buffer.                                                       *)

(* A push keeps the newest header last and creates no break below it.       *)
LEMMA PushedHeaders ==
  ASSUME NEW buf \in Seq(Header), NEW h \in Header
  PROVE  /\ Pushed(buf, h) \in Seq(Header)
         /\ Len(Pushed(buf, h)) \in Nat \ {0}
         /\ Pushed(buf, h)[Len(Pushed(buf, h))] = h
         /\ Linked(buf) => Breaks(Pushed(buf, h)) \subseteq {Len(Pushed(buf, h))}
<1> DEFINE longer == Append(buf, h)
<1>1. /\ longer \in Seq(Header)
      /\ Len(longer) = Len(buf) + 1
      /\ longer[Len(longer)] = h
      /\ \A i \in 1 .. Len(buf) : longer[i] = buf[i]
  OBVIOUS
<1>2. Depth \in Nat \ {0}
  BY IngestionAssumption
<1>3. CASE Len(longer) > Depth
  <2>1. Pushed(buf, h) = Tail(longer)
    BY <1>3 DEF Pushed
  <2>2. /\ Tail(longer) \in Seq(Header)
        /\ Len(Tail(longer)) = Len(buf)
        /\ \A i \in 1 .. Len(buf) : Tail(longer)[i] = longer[i + 1]
    BY <1>1, <1>2, <1>3
  <2>3. Len(buf) \in Nat \ {0}
    BY <1>1, <1>2, <1>3
  <2>4. ASSUME Linked(buf), NEW i \in Breaks(Tail(longer))
        PROVE  i = Len(buf)
    <3>1. /\ i \in 2 .. Len(buf)
          /\ longer[i + 1].parent # longer[i].hash
      BY <2>2, <2>4 DEF Breaks
    <3>2. SUFFICES ASSUME i < Len(buf) PROVE FALSE
      BY <3>1
    <3>3. longer[i + 1] = buf[i + 1] /\ longer[i] = buf[i]
      BY <3>1, <3>2, <1>1
    <3>4. i + 1 \in Breaks(buf)
      BY <3>1, <3>2, <3>3 DEF Breaks
    <3>5. QED BY <3>4, <2>4 DEF Linked
  <2>5. QED BY <1>1, <2>1, <2>2, <2>3, <2>4
<1>4. CASE ~(Len(longer) > Depth)
  <2>1. Pushed(buf, h) = longer
    BY <1>4 DEF Pushed
  <2>2. ASSUME Linked(buf), NEW i \in Breaks(longer)
        PROVE  i = Len(longer)
    <3>1. i \in 2 .. Len(longer) /\ longer[i].parent # longer[i - 1].hash
      BY <2>2 DEF Breaks
    <3>2. SUFFICES ASSUME i < Len(longer) PROVE FALSE
      BY <3>1, <1>1
    <3>3. i \in Breaks(buf)
      BY <3>1, <3>2, <1>1 DEF Breaks
    <3>4. QED BY <3>3, <2>2 DEF Linked
  <2>3. QED BY <1>1, <2>1, <2>2
<1>5. QED BY <1>3, <1>4

(* Dropping the newest header of a buffer broken only there links it again. *)
LEMMA PoppedHeaders ==
  ASSUME NEW buf \in Seq(Header), Len(buf) >= 2, Breaks(buf) = {Len(buf)}
  PROVE  /\ ForkIndex(buf) = Len(buf)
         /\ SubSeq(buf, 1, Len(buf) - 1) \in Seq(Header)
         /\ Len(SubSeq(buf, 1, Len(buf) - 1)) = Len(buf) - 1
         /\ \A i \in 1 .. Len(buf) - 1 : SubSeq(buf, 1, Len(buf) - 1)[i] = buf[i]
         /\ Linked(SubSeq(buf, 1, Len(buf) - 1))
<1> DEFINE popped == SubSeq(buf, 1, Len(buf) - 1)
<1>1. ForkIndex(buf) = Len(buf)
  BY DEF ForkIndex
<1>2. /\ popped \in Seq(Header)
      /\ Len(popped) = Len(buf) - 1
      /\ \A i \in 1 .. Len(buf) - 1 : popped[i] = buf[i]
  OBVIOUS
<1>3. ASSUME NEW i \in Breaks(popped) PROVE FALSE
  <2>1. i \in 2 .. Len(buf) - 1 /\ popped[i].parent # popped[i - 1].hash
    BY <1>2, <1>3 DEF Breaks
  <2>2. i \in Breaks(buf)
    BY <2>1, <1>2 DEF Breaks
  <2>3. QED BY <2>1, <2>2
<1>4. QED BY <1>1, <1>2, <1>3 DEF Linked

-----------------------------------------------------------------------------
(* The chain stays a sequence of blocks.                                    *)
LEMMA ReorgType ==
  ASSUME TypeOK, NEW d \in 1 .. MaxReorg, NEW txsOf \in [1 .. d -> SUBSET Txs], Reorg(d, txsOf)
  PROVE  chain' \in Seq(Block) /\ minted' \in Nat /\ reorgs' \in Nat
<1> DEFINE kept  == SubSeq(chain, 1, Len(chain) - d)
           fresh == [i \in 1 .. d |-> [hash |-> minted + i, txs |-> txsOf[i]]]
<1>1. d \in Nat /\ d < Len(chain) /\ chain' = kept \o fresh
      /\ minted' = minted + d /\ reorgs' = reorgs + 1
  BY IngestionAssumption DEF Reorg
<1>2. \A i \in 1 .. d : fresh[i] \in Block
  BY <1>1 DEF TypeOK, Block
<1>3. fresh \in Seq(Block)
  BY <1>1, <1>2
<1>4. kept \in Seq(Block)
  BY <1>1 DEF TypeOK
<1>5. kept \o fresh \in Seq(Block)
  BY <1>3, <1>4
<1>6. QED BY <1>1, <1>5 DEF TypeOK

(* What the provider answers about a height.                                *)
LEMMA HeaderAtType ==
  ASSUME TypeOK, NEW n \in Nat
  PROVE  HashAt(chain, n) \in Nat /\ HashAt(chain, n - 1) \in Nat
         /\ HeaderAt(n) \in Header /\ HeaderAt(n).number = n
         /\ CanonicalAt(n) \subseteq Txs
<1>1. ASSUME NEW m \in 1 .. Len(chain)
      PROVE  chain[m].hash \in Nat /\ chain[m].txs \subseteq Txs
  <2>1. chain[m] \in Block
    BY DEF TypeOK
  <2>2. QED BY <2>1 DEF Block
<1>2. \A m \in Int : HashAt(chain, m) \in Nat
  BY <1>1 DEF HashAt
<1>3. CanonicalAt(n) \subseteq Txs
  BY <1>1 DEF CanonicalAt
<1>4. QED BY <1>2, <1>3 DEF HeaderAt, Header

-----------------------------------------------------------------------------
(* The inductive invariant.  Typing needs the window: HandleReorg cuts the  *)
(* buffer at the break, so there has to be one, above the first header.     *)
IInv == TypeOK /\ HeaderWindow

LEMMA IInvInit == Init => IInv
<1> SUFFICES ASSUME Init PROVE IInv
  OBVIOUS
<1>1. [hash |-> 1, txs |-> {}] \in Block
  BY DEF Block
<1>2. NoRow \in Row
  BY DEF NoRow, Row
<1>3. TypeOK
  <2>1. chain \in Seq(Block)
    BY <1>1 DEF Init
  <2>2. facts \in [Txs -> Row]
    BY <1>2 DEF Init
  <2>3. buffer \in Seq(Header) /\ logs \subseteq Log
    BY DEF Init
  <2>4. QED BY <2>1, <2>2, <2>3 DEF Init, TypeOK, ControlPoints
<1>4. HeaderWindow
  BY DEF Init, HeaderWindow, Linked, Breaks
<1>5. QED BY <1>3, <1>4 DEF IInv

(* Everything but the on_new_block of FinalityEngine.                       *)
LEMMA IInvCollect ==
  ASSUME IInv, Network \/ Operator \/ Crash \/ Collect
  PROVE  IInv'
<1> USE DEF IInv, network, store, memory, history
<1>1. CASE Network
  <2>1. ASSUME NEW txs \in SUBSET Txs, Mine(txs) PROVE IInv'
    <3>1. [hash |-> minted + 1, txs |-> txs] \in Block
      BY DEF TypeOK, Block
    <3>2. chain' \in Seq(Block) /\ minted' \in Nat
      BY <2>1, <3>1 DEF Mine, TypeOK
    <3>3. QED BY <2>1, <3>2 DEF Mine, TypeOK, HeaderWindow
  <2>2. ASSUME NEW d \in 1 .. MaxReorg, NEW txsOf \in [1 .. d -> SUBSET Txs], Reorg(d, txsOf)
        PROVE  IInv'
    BY <2>2, ReorgType DEF Reorg, TypeOK, HeaderWindow
  <2>3. QED BY <1>1, <2>1, <2>2 DEF Network
<1>2. CASE Operator
  <2>1. ASSUME NEW from \in StartArgs, NEW to \in EndArgs, Start(from, to) PROVE IInv'
    <3>1. from \in Nat \cup {NoBlock} /\ to \in Nat \cup {NoBlock}
      BY IngestionAssumption
    <3>2. Len(chain) \in Nat
      BY DEF TypeOK
    <3>3. /\ nextBlock' \in Nat /\ rangeEnd' \in Nat /\ origin' \in Nat
          /\ live' \in BOOLEAN /\ pc' \in {"head", "block"}
      <4> DEFINE begin == IF from # NoBlock THEN from
                          ELSE IF checkpoint # NoBlock THEN checkpoint + 1 ELSE NoBlock
      <4>1. CASE begin = NoBlock
        <5>1. live' = TRUE /\ nextBlock' = Len(chain) /\ rangeEnd' = 0 /\ pc' = "head"
              /\ origin' = Len(chain)
          BY <2>1, <4>1 DEF Start
        <5>2. QED BY <5>1, <3>2
      <4>2. CASE begin # NoBlock
        <5>1. live' = FALSE /\ nextBlock' = begin /\ pc' = "block" /\ origin' = origin
              /\ rangeEnd' = IF to # NoBlock THEN to ELSE begin
          BY <2>1, <4>2 DEF Start
        <5>2. begin \in Nat
          BY <3>1, <4>2 DEF TypeOK
        <5>3. QED BY <5>1, <5>2, <3>1 DEF TypeOK
      <4>3. QED BY <4>1, <4>2
    <3>4. TypeOK'
      <4>1. starts' = starts + 1 /\ stop' = FALSE
            /\ UNCHANGED <<network, store, header, filter, logs, buffer>>
        BY <2>1, Zenon DEF Start
      <4>2. starts' \in Nat
        BY <4>1 DEF TypeOK
      <4>3. stop' \in BOOLEAN
        BY <4>1, Zenon
      <4>4. QED BY <3>3, <4>1, <4>2, <4>3 DEF TypeOK, ControlPoints
    <3>5. HeaderWindow'
      BY <2>1, <3>3 DEF Start, HeaderWindow
    <3>6. QED BY <3>4, <3>5
  <2>2. CASE RequestStop
    BY <2>2 DEF RequestStop, TypeOK, HeaderWindow
  <2>3. QED BY <1>2, <2>1, <2>2 DEF Operator
<1>3. ASSUME Off, UNCHANGED <<network, store, history>> PROVE IInv'
  <2>1. TypeOK'
    <3>1. buffer' \in Seq(Header) /\ logs' \subseteq Log
      BY <1>3 DEF Off
    <3>2. QED BY <1>3, <3>1 DEF Off, TypeOK, ControlPoints
  <2>2. HeaderWindow'
    BY <1>3 DEF Off, HeaderWindow, Linked, Breaks
  <2>3. QED BY <2>1, <2>2
<1>4. CASE Crash
  BY <1>3, <1>4 DEF Crash
<1>5. CASE Collect
  <2>1. CASE PollHead
    BY <2>1 DEF PollHead, TypeOK, HeaderWindow, ControlPoints
  <2>2. CASE StopPolling
    BY <1>3, <2>2 DEF StopPolling
  <2>3. CASE EndRange
    <3>1. CASE live
      BY <2>3, <3>1 DEF EndRange, TypeOK, HeaderWindow, ControlPoints
    <3>2. CASE ~live
      BY <1>3, <2>3, <3>2 DEF EndRange
    <3>3. QED BY <3>1, <3>2
  <2>4. CASE ReadHeader
    BY <2>4, HeaderAtType DEF ReadHeader, TypeOK, HeaderWindow, ControlPoints
  <2>5. CASE MissingBlock
    BY <1>3, <2>5 DEF MissingBlock
  <2>6. CASE ReadLogs
    <3>1. logs' \subseteq Log
      <4>1. HashAt(chain, nextBlock) \in Nat /\ CanonicalAt(nextBlock) \subseteq Txs
        BY HeaderAtType DEF TypeOK
      <4>2. logs \subseteq Log
        BY DEF TypeOK
      <4>3. QED BY <2>6, <4>1, <4>2 DEF ReadLogs, Log
    <3>2. QED BY <2>6, <3>1 DEF ReadLogs, TypeOK, HeaderWindow, ControlPoints
  <2>7. ASSUME NEW log \in logs, HandleLog(log) PROVE IInv'
    <3>1. log.tx \in Txs /\ log.hash \in Nat
      BY DEF TypeOK, Log
    <3>2. SaveFact(facts, log.tx, NewFact(nextBlock, log.hash, header)) \in [Txs -> Row]
      BY <3>1, NewFactType, SaveFactType DEF TypeOK
    <3>3. facts' \in [Txs -> Row]
      BY <2>7, <3>2 DEF HandleLog, TypeOK
    <3>4. QED BY <2>7, <3>3 DEF HandleLog, TypeOK, HeaderWindow
  <2>8. CASE BlockStored
    BY <2>8 DEF BlockStored, TypeOK, HeaderWindow, ControlPoints
  <2>9. QED BY <1>5, <2>1, <2>2, <2>3, <2>4, <2>5, <2>6, <2>7, <2>8 DEF Collect
<1>6. QED BY <1>1, <1>2, <1>4, <1>5

LEMMA IInvEngine ==
  ASSUME IInv, Engine
  PROVE  IInv'
<1> USE DEF IInv, network, store, memory, history
<1>1. CASE OnNewBlock
  <2>1. nextBlock \in Nat /\ buffer \in Seq(Header) /\ Linked(buffer)
    BY <1>1 DEF OnNewBlock, TypeOK, HeaderWindow
  <2>2. /\ buffer' \in Seq(Header)
        /\ buffer'[Len(buffer')].number = nextBlock
        /\ Breaks(buffer') \subseteq {Len(buffer')}
        /\ Len(buffer') \in Nat \ {0}
    BY <1>1, <2>1, HeaderAtType, PushedHeaders DEF OnNewBlock
  <2>3. CASE Len(buffer') < 2
    <3>1. Linked(buffer')
      BY <2>2, <2>3 DEF Linked, Breaks
    <3>2. QED BY <1>1, <2>2, <2>3, <3>1
               DEF OnNewBlock, NextBlock, TypeOK, HeaderWindow, ControlPoints
  <2>4. CASE ~(Len(buffer') < 2)
    <3>1. /\ pc' = IF Linked(buffer') THEN "advance" ELSE "orphan"
          /\ nextBlock' = nextBlock
      BY <1>1, <2>4 DEF OnNewBlock
    <3>2. ~Linked(buffer') => Breaks(buffer') = {Len(buffer')}
      BY <2>2 DEF Linked
    <3>3. HeaderWindow'
      BY <2>2, <2>4, <3>1, <3>2 DEF HeaderWindow
    <3>4. TypeOK'
      BY <1>1, <2>2, <3>1 DEF OnNewBlock, TypeOK, ControlPoints
    <3>5. QED BY <3>3, <3>4
  <2>5. QED BY <2>3, <2>4
<1>2. CASE AdvanceLifecycle
  <2>1. facts' \in [Txs -> Row]
    BY <1>2, AdvanceType DEF AdvanceLifecycle, TypeOK
  <2>2. QED BY <1>2, <2>1 DEF AdvanceLifecycle, TypeOK, HeaderWindow, ControlPoints
<1>3. CASE SaveCheckpoint
  <2>1. checkpoint' \in Nat \cup {NoBlock}
    BY <1>3, IngestionAssumption DEF SaveCheckpoint, TypeOK
  <2>2. QED BY <1>3, <2>1 DEF SaveCheckpoint, NextBlock, TypeOK, HeaderWindow, ControlPoints
<1>4. CASE HandleReorg
  <2>1. /\ buffer \in Seq(Header) /\ Len(buffer) >= 2
        /\ Breaks(buffer) = {Len(buffer)}
    BY <1>4 DEF HandleReorg, TypeOK, HeaderWindow
  <2>2. /\ ForkIndex(buffer) = Len(buffer)
        /\ buffer' = SubSeq(buffer, 1, Len(buffer) - 1)
        /\ buffer' \in Seq(Header) /\ Linked(buffer')
    BY <1>4, <2>1, PoppedHeaders DEF HandleReorg
  <2>3. facts' \in [Txs -> Row]
    <3>1. buffer[Len(buffer) - 1].number \in Nat /\ buffer[Len(buffer)].number \in Nat
      <4>1. buffer[Len(buffer) - 1] \in Header /\ buffer[Len(buffer)] \in Header
        BY <2>1
      <4>2. QED BY <4>1 DEF Header
    <3>2. facts' = MarkFactsOrphaned(facts, buffer[Len(buffer) - 1].number + 1,
                                     buffer[Len(buffer)].number)
      BY <1>4, <2>2 DEF HandleReorg
    <3>3. QED BY <3>1, <3>2, OrphanType DEF TypeOK
  <2>4. QED BY <1>4, <2>2, <2>3 DEF HandleReorg, NextBlock, TypeOK, HeaderWindow, ControlPoints
<1>5. QED BY <1>1, <1>2, <1>3, <1>4 DEF Engine

LEMMA IInvStep == IInv /\ [Next]_vars => IInv'
<1> SUFFICES ASSUME IInv, [Next]_vars PROVE IInv'
  OBVIOUS
<1>1. CASE Next
  BY <1>1, IInvCollect, IInvEngine DEF Next
<1>2. CASE UNCHANGED vars
  BY <1>2 DEF IInv, vars, network, store, memory, history, TypeOK, HeaderWindow
<1>3. QED BY <1>1, <1>2

THEOREM InvariantHolds == Spec => []IInv
BY IInvInit, IInvStep, PTL DEF Spec

(* Every variable keeps its type: in particular no confirmation count is    *)
(* ever negative, whatever ranges are replayed in whatever order.           *)
THEOREM TypeCorrect == Spec => []TypeOK
<1>1. IInv => TypeOK
  BY DEF IInv
<1>2. QED BY InvariantHolds, <1>1, PTL

(* The scan of the confirmation window finds a break only at the block just *)
(* appended; between blocks the window is always linked.                    *)
THEOREM WindowLinked == Spec => []HeaderWindow
<1>1. IInv => HeaderWindow
  BY DEF IInv
<1>2. QED BY InvariantHolds, <1>1, PTL

-----------------------------------------------------------------------------
(* Steps that change the table.                                             *)

LEMMA TableSteps ==
  ASSUME [Next]_vars, facts' # facts
  PROVE  (\E log \in logs : HandleLog(log)) \/ AdvanceLifecycle \/ HandleReorg
<1> USE DEF network, store, memory, history
<1>1. Next
  BY DEF vars
<1>2. ~Network
  BY DEF Network, Mine, Reorg
<1>3. ~Operator
  BY DEF Operator, Start, RequestStop
<1>4. ~Crash
  BY DEF Crash
<1>5. Collect => \E log \in logs : HandleLog(log)
  BY DEF Collect, PollHead, StopPolling, EndRange, ReadHeader, MissingBlock, ReadLogs, BlockStored
<1>6. Engine => AdvanceLifecycle \/ HandleReorg
  BY DEF Engine, OnNewBlock, SaveCheckpoint
<1>7. QED BY <1>1, <1>2, <1>3, <1>4, <1>5, <1>6 DEF Next

(* What each of them does to one row.                                       *)
LEMMA HandleLogRows ==
  ASSUME IInv, NEW log \in logs, HandleLog(log), NEW t \in Txs
  PROVE  \/ facts'[t] = facts[t]
         \/ /\ t = log.tx /\ facts[t].status = Absent
            /\ facts'[t] = NewFact(nextBlock, log.hash, header)
  BY DEF IInv, TypeOK, HandleLog, SaveFact

LEMMA AdvanceRows ==
  ASSUME IInv, AdvanceLifecycle, NEW t \in Txs
  PROVE  facts'[t] = AdvanceRow(facts[t], nextBlock, Depth)
  BY DEF IInv, TypeOK, AdvanceLifecycle, AdvanceConfirmationCounts

LEMMA OrphanRows ==
  ASSUME IInv, HandleReorg, NEW t \in Txs
  PROVE  /\ facts'[t] = OrphanRow(facts[t], buffer'[Len(buffer')].number + 1, nextBlock)
         /\ buffer' # <<>> /\ Linked(buffer')
         /\ buffer'[Len(buffer')].number \in Nat
<1>1. /\ buffer \in Seq(Header) /\ Len(buffer) >= 2
      /\ Breaks(buffer) = {Len(buffer)}
      /\ buffer[Len(buffer)].number = nextBlock
  BY DEF HandleReorg, IInv, TypeOK, HeaderWindow
<1>2. /\ ForkIndex(buffer) = Len(buffer)
      /\ buffer' = SubSeq(buffer, 1, Len(buffer) - 1)
      /\ buffer' \in Seq(Header) /\ Linked(buffer')
      /\ Len(buffer') = Len(buffer) - 1
      /\ buffer'[Len(buffer')] = buffer[Len(buffer) - 1]
  BY <1>1, PoppedHeaders DEF HandleReorg
<1>3. buffer'[Len(buffer')].number \in Nat
  <2>1. buffer[Len(buffer) - 1] \in Header
    BY <1>1
  <2>2. QED BY <1>2, <2>1 DEF Header
<1>4. facts' = MarkFactsOrphaned(facts, buffer'[Len(buffer')].number + 1, nextBlock)
  BY <1>1, <1>2 DEF HandleReorg
<1>5. facts'[t] = OrphanRow(facts[t], buffer'[Len(buffer')].number + 1, nextBlock)
  BY <1>4 DEF MarkFactsOrphaned, IInv, TypeOK
<1>6. buffer' # <<>>
  <2>1. Len(buffer') # 0
    BY <1>1, <1>2
  <2>2. QED BY <2>1
<1>7. QED BY <1>2, <1>3, <1>5, <1>6

LEMMA RowsTyped ==
  ASSUME IInv, NEW t \in Txs
  PROVE  facts[t] \in Row /\ facts[t].block \in Nat /\ facts[t].confs \in Nat
  BY DEF IInv, TypeOK, Row

-----------------------------------------------------------------------------
(* A stored fact keeps its block, hash and event time; FINALIZED changes    *)
(* only to ORPHANED and ORPHANED never: for any operator arguments, any     *)
(* reorganisations and any crashes.                                         *)
LEMMA HistoryStep ==
  ASSUME IInv, [Next]_vars, facts' # facts, NEW t \in Txs
  PROVE  KeepsHistory(facts[t], facts'[t])
<1> USE DEF KeepsHistory, Pending, Confirmed, Finalized, Orphaned, Absent, Advancing
<1>1. ASSUME NEW log \in logs, HandleLog(log)
      PROVE  KeepsHistory(facts[t], facts'[t])
  BY <1>1, HandleLogRows
<1>2. CASE AdvanceLifecycle
  BY <1>2, AdvanceRows, RowsTyped DEF AdvanceRow, StatusAt, Row, ConfirmationStatus
<1>3. CASE HandleReorg
  BY <1>3, OrphanRows, RowsTyped DEF OrphanRow, Row, ConfirmationStatus
<1>4. QED BY TableSteps, <1>1, <1>2, <1>3

THEOREM HistoryKept == Spec => FactHistory
<1>1. IInv /\ [Next]_vars => [\A t \in Txs : KeepsHistory(facts[t], facts'[t])]_facts
  BY HistoryStep
<1>2. QED BY InvariantHolds, <1>1, PTL DEF Spec, FactHistory

(* Nothing is finalized unless the headers in memory are linked up to the   *)
(* head the count is taken from, and the fact is Depth blocks below it.     *)
LEMMA FinalizedStep ==
  ASSUME IInv, [Next]_vars, facts' # facts, NEW t \in Txs, BecomesFinalized(t)
  PROVE  CoveredByWindow(t)
<1> USE DEF BecomesFinalized, Pending, Confirmed, Finalized, Orphaned, Absent, Advancing
<1>1. ASSUME NEW log \in logs, HandleLog(log) PROVE FALSE
  <2>1. facts'[t] = facts[t] \/ facts'[t] = NewFact(nextBlock, log.hash, header)
    BY <1>1, HandleLogRows
  <2>2. NewFact(nextBlock, log.hash, header).status = Pending
    BY DEF NewFact
  <2>3. QED BY <2>1, <2>2
<1>2. CASE AdvanceLifecycle
  <2>1. /\ Len(buffer) >= 2 /\ Linked(buffer) /\ buffer[Len(buffer)].number = nextBlock
        /\ nextBlock \in Nat
    BY <1>2 DEF AdvanceLifecycle, IInv, TypeOK, HeaderWindow
  <2>2. Depth \in Nat
    BY IngestionAssumption
  <2>3. nextBlock - facts[t].block >= Depth
    BY <1>2, AdvanceRows, RowsTyped DEF AdvanceRow, StatusAt, Row
  <2>4. QED BY <2>1, <2>2, <2>3, RowsTyped DEF CoveredByWindow
<1>3. CASE HandleReorg
  BY <1>3, OrphanRows, RowsTyped DEF OrphanRow, Row
<1>4. QED BY TableSteps, <1>1, <1>2, <1>3

THEOREM FinalizedOnlyOnLinkedHeaders == Spec => FinalizedOnLinkedHeaders
<1>1. IInv /\ [Next]_vars => [\A t \in Txs : BecomesFinalized(t) => CoveredByWindow(t)]_facts
  BY FinalizedStep
<1>2. QED BY InvariantHolds, <1>1, PTL DEF Spec, FinalizedOnLinkedHeaders

(* Reorg handling orphans only facts above the header it leaves on top of   *)
(* the buffer, and leaves the buffer linked.                                *)
LEMMA OrphanedStep ==
  ASSUME IInv, [Next]_vars, facts' # facts, NEW t \in Txs, BecomesOrphaned(t)
  PROVE  AboveWindow(t)'
<1> USE DEF BecomesOrphaned, Pending, Confirmed, Finalized, Orphaned, Absent, Advancing
<1>1. ASSUME NEW log \in logs, HandleLog(log) PROVE FALSE
  <2>1. facts'[t] = facts[t] \/ facts'[t] = NewFact(nextBlock, log.hash, header)
    BY <1>1, HandleLogRows
  <2>2. NewFact(nextBlock, log.hash, header).status = Pending
    BY DEF NewFact
  <2>3. QED BY <2>1, <2>2
<1>2. CASE AdvanceLifecycle
  BY <1>2, AdvanceRows, RowsTyped DEF AdvanceRow, StatusAt, Row
<1>3. CASE HandleReorg
  <2>1. /\ facts'[t] = OrphanRow(facts[t], buffer'[Len(buffer')].number + 1, nextBlock)
        /\ buffer' # <<>> /\ Linked(buffer')
        /\ buffer'[Len(buffer')].number \in Nat
    BY <1>3, OrphanRows
  <2>2. /\ facts[t].block >= buffer'[Len(buffer')].number + 1
        /\ facts'[t].block = facts[t].block
    BY <2>1, RowsTyped DEF OrphanRow, Row
  <2>3. QED BY <2>1, <2>2, RowsTyped DEF AboveWindow
<1>4. QED BY TableSteps, <1>1, <1>2, <1>3

THEOREM OrphansLieAboveFork == Spec => OrphanedAboveFork
<1>1. IInv /\ [Next]_vars => [\A t \in Txs : BecomesOrphaned(t) => AboveWindow(t)']_facts
  BY OrphanedStep
<1>2. QED BY InvariantHolds, <1>1, PTL DEF Spec, OrphanedAboveFork

-----------------------------------------------------------------------------
(* Status and count agree; the count of a CONFIRMED fact is below the       *)
(* depth, that of a FINALIZED one is not.                                   *)
LEMMA CountsStep ==
  ASSUME IInv, StatusMatchesCount, [Next]_vars
  PROVE  StatusMatchesCount'
<1> USE DEF Pending, Confirmed, Finalized, Orphaned, Absent, Advancing
<1>1. CASE facts' = facts
  BY <1>1 DEF StatusMatchesCount, CountFits
<1>2. CASE facts' # facts
  <2> SUFFICES ASSUME NEW t \in Txs PROVE CountFits(facts'[t])
    BY DEF StatusMatchesCount
  <2>1. CountFits(facts[t])
    BY DEF StatusMatchesCount
  <2>2. Depth \in Nat \ {0}
    BY IngestionAssumption
  <2>3. ASSUME NEW log \in logs, HandleLog(log)
        PROVE  CountFits(facts'[t])
    <3>1. facts'[t] = facts[t] \/ facts'[t] = NewFact(nextBlock, log.hash, header)
      BY <2>3, HandleLogRows
    <3>2. CountFits(NewFact(nextBlock, log.hash, header))
      BY <2>2 DEF CountFits, NewFact
    <3>3. QED BY <2>1, <3>1, <3>2
  <2>4. CASE AdvanceLifecycle
    <3>1. facts'[t] = AdvanceRow(facts[t], nextBlock, Depth) /\ nextBlock \in Nat
      BY <2>4, AdvanceRows DEF IInv, TypeOK
    <3> DEFINE n == nextBlock - facts[t].block
    <3>2. CASE facts[t].status \in Advancing /\ facts[t].block <= nextBlock
      <4>1. n \in Nat
        BY <3>1, <3>2, RowsTyped
      <4>2. /\ facts'[t].confs = n
            /\ facts'[t].status = StatusAt(facts[t], n, Depth)
        BY <3>1, <3>2, RowsTyped DEF AdvanceRow, Row
      <4>3. QED BY <2>1, <2>2, <3>2, <4>1, <4>2 DEF StatusAt, CountFits
    <3>3. CASE ~(facts[t].status \in Advancing /\ facts[t].block <= nextBlock)
      BY <2>1, <3>1, <3>3 DEF AdvanceRow
    <3>4. QED BY <3>2, <3>3
  <2>5. CASE HandleReorg
    <3>1. PICK from \in Int : facts'[t] = OrphanRow(facts[t], from, nextBlock)
      <4>1. /\ facts'[t] = OrphanRow(facts[t], buffer'[Len(buffer')].number + 1, nextBlock)
            /\ buffer'[Len(buffer')].number \in Nat
        BY <2>5, OrphanRows
      <4>2. buffer'[Len(buffer')].number + 1 \in Int
        BY <4>1
      <4>3. QED BY <4>1, <4>2
    <3>2. CASE facts'[t] = facts[t]
      BY <2>1, <3>2
    <3>3. CASE facts'[t] # facts[t]
      <4>1. facts'[t] = [facts[t] EXCEPT !.status = Orphaned, !.confs = 0]
        BY <3>1, <3>3 DEF OrphanRow
      <4>2. facts'[t].status = Orphaned /\ facts'[t].confs = 0
        BY <4>1, RowsTyped DEF Row
      <4>3. QED BY <4>2 DEF CountFits
    <3>4. QED BY <3>2, <3>3
  <2>6. QED BY <1>2, TableSteps, <2>3, <2>4, <2>5
<1>3. QED BY <1>1, <1>2

THEOREM CountsAgree == Spec => []StatusMatchesCount
<1>1. Init => StatusMatchesCount
  BY DEF Init, StatusMatchesCount, CountFits, NoRow, Absent, Finalized, Confirmed
<1>2. IInv /\ StatusMatchesCount /\ [Next]_vars => StatusMatchesCount'
  BY CountsStep
<1>3. QED BY InvariantHolds, <1>1, <1>2, PTL DEF Spec

-----------------------------------------------------------------------------
(* The ingestion of a chain implements the confirmation lifecycle: every    *)
(* step observes one fact, confirms and finalizes some, orphans some, or    *)
(* changes no status.                                                       *)
LEMMA LifecycleStep ==
  ASSUME IInv, [Next]_vars
  PROVE  Lifecycle!Next \/ UNCHANGED [t \in Txs |-> facts[t].status]
<1> DEFINE status == [t \in Txs |-> facts[t].status]
<1>1. CASE facts' = facts
  BY <1>1
<1>2. ASSUME NEW log \in logs, HandleLog(log)
      PROVE  Lifecycle!Next \/ status' = status
  <2>1. CASE facts' = facts
    BY <2>1
  <2>2. CASE facts' # facts
    <3>1. log.tx \in Txs
      BY DEF IInv, TypeOK, Log
    <3>2. /\ facts[log.tx].status = Absent
          /\ facts' = [facts EXCEPT ![log.tx] = NewFact(nextBlock, log.hash, header)]
      BY <1>2, <2>2 DEF HandleLog, SaveFact
    <3>3. status' = [status EXCEPT ![log.tx] = Pending]
      BY <3>1, <3>2 DEF NewFact, IInv, TypeOK
    <3>4. Lifecycle!Observe(log.tx)
      BY <3>1, <3>2, <3>3 DEF Lifecycle!Observe, Lifecycle!Absent, Lifecycle!Pending, Absent, Pending
    <3>5. QED BY <3>1, <3>4, Zenon DEF Lifecycle!Next
  <2>3. QED BY <2>1, <2>2
<1>3. CASE AdvanceLifecycle
  <2> DEFINE moved(s) == {t \in Txs : facts[t].status \in Advancing /\ facts'[t].status = s}
  <2>1. ASSUME NEW t \in Txs
        PROVE  \/ facts'[t].status = facts[t].status
               \/ facts[t].status \in Advancing /\ facts'[t].status \in {Confirmed, Finalized}
    BY <1>3, AdvanceRows, RowsTyped DEF AdvanceRow, StatusAt, Row
  <2>2. status' = [t \in Txs |-> IF t \in moved(Confirmed) THEN Confirmed
                                 ELSE IF t \in moved(Finalized) THEN Finalized
                                 ELSE status[t]]
    BY <2>1
  <2>3. moved(Confirmed) \cap moved(Finalized) = {}
    BY DEF Confirmed, Finalized
  <2>4. PICK confirmed \in SUBSET Txs, finalized \in SUBSET Txs :
          confirmed = moved(Confirmed) /\ finalized = moved(Finalized)
    OBVIOUS
  <2>5. Lifecycle!Confirm(confirmed, finalized)
    BY <2>2, <2>3, <2>4
       DEF Lifecycle!Confirm, Lifecycle!Advancing, Lifecycle!Pending, Lifecycle!Confirmed,
           Lifecycle!Finalized, Advancing, Pending, Confirmed, Finalized
  <2>6. QED BY <2>5, Zenon DEF Lifecycle!Next
<1>4. CASE HandleReorg
  <2> DEFINE moved == {t \in Txs : facts[t].status \in Advancing \cup {Finalized}
                                   /\ facts'[t].status = Orphaned}
  <2>1. ASSUME NEW t \in Txs
        PROVE  \/ facts'[t].status = facts[t].status
               \/ facts[t].status \in Advancing \cup {Finalized} /\ facts'[t].status = Orphaned
    BY <1>4, OrphanRows, RowsTyped DEF OrphanRow, Row
  <2>2. status' = [t \in Txs |-> IF t \in moved THEN Orphaned ELSE status[t]]
    BY <2>1
  <2>3. PICK orphaned \in SUBSET Txs : orphaned = moved
    OBVIOUS
  <2>4. Lifecycle!Invalidate(orphaned)
    BY <2>2, <2>3
       DEF Lifecycle!Invalidate, Lifecycle!Advancing, Lifecycle!Pending, Lifecycle!Confirmed,
           Lifecycle!Finalized, Lifecycle!Orphaned, Advancing, Pending, Confirmed, Finalized, Orphaned
  <2>5. QED BY <2>4, Zenon DEF Lifecycle!Next
<1>5. QED BY <1>1, <1>2, <1>3, <1>4, TableSteps

THEOREM ImplementsTheLifecycle == Spec => ImplementsLifecycle
<1>1. Init => Lifecycle!Init
  BY DEF Init, Lifecycle!Init, NoRow, Absent, Lifecycle!Absent
<1>2. IInv /\ [Next]_vars => [Lifecycle!Next]_([t \in Txs |-> facts[t].status])
  BY LifecycleStep
<1>3. QED BY InvariantHolds, <1>1, <1>2, PTL DEF Spec, ImplementsLifecycle, Lifecycle!Spec
==============================================================================
