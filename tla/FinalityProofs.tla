---------------------------- MODULE FinalityProofs ----------------------------
(***************************************************************************)
(* Theorems that relate the fact store and the checkpoint of Ingestion to  *)
(* the chain and to later starts of the process.                           *)
(***************************************************************************)
EXTENDS IngestionProofs

Called  == {"advance", "checkpoint", "orphan"}             \* on_new_block has appended
InBlock == {"logs", "facts", "finality"} \cup Called       \* a block is being processed

(* A header of the buffer is on the canonical chain.                        *)
OnChain(h) == h.hash = HashAt(chain, h.number)

(* The header was linked to the one before it when it was appended.         *)
Verified(i) == ~(pc = "orphan" /\ i = Len(buffer))

(* The facts of a block are in the store, as far as they can be decoded.    *)
Kept(n) == \A t \in CanonicalAt(n) \ Undecodable : facts[t].status # Absent

-----------------------------------------------------------------------------
(* The chain and the buffer: a hash names one block of one height, so a     *)
(* header can only be followed by a header of the next height.              *)
HashesUnique ==
  /\ \A n \in 1 .. Len(chain) : chain[n].hash \in 1 .. minted
  /\ \A m, n \in 1 .. Len(chain) : chain[m].hash = chain[n].hash => m = n

HeadersKnown ==
  \A i \in 1 .. Len(buffer) :
    /\ buffer[i].hash \in 1 .. minted
    /\ \A n \in 1 .. Len(chain) : chain[n].hash = buffer[i].hash => n = buffer[i].number

(* Numbers in the buffer are consecutive and below the block being          *)
(* processed, but for the header a reorganisation was noticed at.           *)
HeadersNumbered ==
  /\ Len(buffer) <= Depth
  /\ \A i \in 1 .. Len(buffer) :
       Verified(i) => buffer[i].number = buffer[1].number + i - 1
  /\ \A i \in 1 .. Len(buffer) :
       ~(pc \in Called /\ i = Len(buffer)) => buffer[i].number < nextBlock

(* Where the process is in its range and on the chain.                      *)
Position ==
  /\ pc = "down" => buffer = <<>>
  /\ pc \notin {"logs", "facts"} => logs = {}
  /\ pc \in InBlock => nextBlock \in 1 .. Len(chain) /\ nextBlock <= rangeEnd
  /\ pc = "block" /\ live => nextBlock <= rangeEnd + 1
  /\ pc = "head" => live

(* What is finalized or checkpointed is Depth blocks below the head.        *)
Settled ==
  /\ \A t \in Txs : facts[t].status = Finalized => facts[t].block + Depth <= Len(chain)
  /\ checkpoint # NoBlock => checkpoint + Depth <= Len(chain)

(* While no block was replaced between two reads of it, what was read of    *)
(* the block in flight is what the chain has, all of it.                    *)
ReadsAgree ==
  ~torn =>
    /\ pc \in {"logs", "facts"} =>
         header = HashAt(chain, nextBlock) /\ \A log \in logs : log.hash = header
    /\ pc \in Called => OnChain(buffer[Len(buffer)])
    /\ EventTimeOfBlock

ReadsComplete ==
  ~torn =>
    /\ pc = "logs" =>
         \A t \in CanonicalAt(nextBlock) : FilterOf[t] < filter => \E log \in logs : log.tx = t
    /\ pc = "facts" =>
         \A t \in CanonicalAt(nextBlock) \ Undecodable :
           facts[t].status # Absent \/ \E log \in logs : log.tx = t
    /\ pc \in {"finality"} \cup Called => Kept(nextBlock)

ChainInv ==
  /\ HashesUnique /\ HeadersKnown /\ HeadersNumbered /\ Position /\ Settled
  /\ ReadsAgree /\ ReadsComplete

-----------------------------------------------------------------------------
(* What the store says of the chain in the first start of the process.  All *)
(* rows are of the block in flight or below it, of this block while the     *)
(* buffer is empty; and a canonical header of the buffer vouches for every  *)
(* row up to its number.                                                    *)
FirstStart == starts <= 1 /\ ~torn

RowsBehind ==
  \A t \in Txs : facts[t].status # Absent =>
    /\ facts[t].block <= nextBlock
    /\ pc \in {"head", "block", "logs"} => facts[t].block < nextBlock
    /\ buffer = <<>> => facts[t].block >= nextBlock
    /\ pc \in InBlock /\ facts[t].block = nextBlock =>
         facts[t].hash = HashAt(chain, nextBlock)

Vouches(h) ==
  \A t \in Txs : facts[t].status # Absent /\ facts[t].block <= h.number =>
    facts[t].hash = HashAt(chain, facts[t].block)

BufferVouches == \A i \in 1 .. Len(buffer) : Verified(i) /\ OnChain(buffer[i]) => Vouches(buffer[i])

StoreCanonical ==
  FirstStart =>
    /\ starts = 0 => pc = "down" /\ \A t \in Txs : facts[t].status = Absent
    /\ \A t \in Txs : facts[t].status = Finalized =>
         facts[t].hash = HashAt(chain, facts[t].block)
    /\ pc # "down" => RowsBehind
    /\ Depth >= 2 => BufferVouches

(* Without replays the process is always above the checkpoint, and what is  *)
(* about to be checkpointed is final.                                       *)
CheckpointBehind ==
  /\ CheckpointIsFinal
  /\ pc # "down" => checkpoint < nextBlock
  /\ pc = "checkpoint" =>
       \A t \in Txs : facts[t].status \in Advancing => facts[t].block + Depth > nextBlock

(* Without replays nothing from the first block to a canonical header is    *)
(* missing.  A process that was stopped in its range polls no more blocks.  *)
StoredUpTo(m) == \A n \in origin .. m : Kept(n)

BufferComplete ==
  \A i \in 1 .. Len(buffer) : Verified(i) /\ OnChain(buffer[i]) => StoredUpTo(buffer[i].number)

StoreComplete ==
  ~torn =>
    /\ StoredUpTo(checkpoint)
    /\ pc # "down" /\ buffer = <<>> /\ ~(pc = "head" /\ stop) =>
         nextBlock \in {origin, checkpoint + 1}
    /\ Depth >= 2 => BufferComplete

(* Without replays everything in the buffer was read after the checkpoint.  *)
AboveCheckpoint == buffer # <<>> => buffer[1].number > checkpoint

(* A header below a final fact stays on the chain; the last header a break  *)
(* was noticed at, or the window has stopped at, is not on it any more.     *)
BelowFinal(h) == \E t \in Txs : facts[t].status = Finalized /\ h.number < facts[t].block

FinalAbove == \A i \in 1 .. Len(buffer) : BelowFinal(buffer[i]) => OnChain(buffer[i])

BreakIsStale ==
  /\ pc = "orphan" => ~OnChain(buffer[Len(buffer) - 1])
  /\ pc \notin Called /\ buffer # <<>> /\ ~(pc = "head" /\ stop) =>
       buffer[Len(buffer)].number + 1 = nextBlock \/ ~OnChain(buffer[Len(buffer)])

FinalInv == FinalAbove /\ BreakIsStale

-----------------------------------------------------------------------------
(* The chain.                                                               *)

(* A step of the network keeps the blocks up to some height k, all but the  *)
(* MaxReorg last ones, and puts fresh hashes above it.  If it keeps not all *)
(* of them, it is a reorganisation, and recorded as one.                    *)
KeepsTo(k) ==
  /\ k <= Len(chain) /\ Len(chain) <= Len(chain') /\ Len(chain) <= k + MaxReorg
  /\ \A n \in 1 .. k : chain'[n] = chain[n]
  /\ \A n \in 1 .. Len(chain') : k < n => chain'[n].hash \in minted + 1 .. minted'
  /\ minted <= minted'
  /\ torn => torn'
  /\ k < Len(chain) => torn' \/ pc \in BetweenBlocks
  /\ UNCHANGED <<facts, checkpoint, pc, live, stop, nextBlock, rangeEnd, header, filter, logs,
                 buffer, starts, origin>>

LEMMA ConcatAt ==
  ASSUME NEW s \in Seq(Block), NEW u \in Seq(Block)
  PROVE  /\ Len(s \o u) = Len(s) + Len(u)
         /\ \A n \in 1 .. Len(s) : (s \o u)[n] = s[n]
         /\ \A n \in Len(s) + 1 .. Len(s) + Len(u) : (s \o u)[n] = u[n - Len(s)]
  OBVIOUS

LEMMA ReorgEffect ==
  ASSUME TypeOK, NEW d \in 1 .. MaxReorg, NEW txsOf \in [1 .. d -> SUBSET Txs], Reorg(d, txsOf),
         NEW k, k = Len(chain) - d
  PROVE  /\ d \in Nat /\ k \in Nat /\ minted' = minted + d
         /\ Len(chain') = Len(chain)
         /\ \A n \in 1 .. k : chain'[n] = chain[n]
         /\ \A n \in k + 1 .. Len(chain) : chain'[n].hash = minted + (n - k)
<1> DEFINE kept  == SubSeq(chain, 1, Len(chain) - d)
           fresh == [i \in 1 .. d |-> [hash |-> minted + i, txs |-> txsOf[i]]]
<1>1. /\ chain \in Seq(Block) /\ minted \in Nat /\ Len(chain) \in Nat
      /\ MaxReorg \in Nat
  BY IngestionAssumption DEF TypeOK
<1>2. /\ chain' = kept \o fresh
      /\ minted' = minted + d /\ d < Len(chain) /\ d \in Nat /\ k \in Nat
  BY <1>1 DEF Reorg
<1>3. /\ kept \in Seq(Block) /\ Len(kept) = k
      /\ \A n \in 1 .. k : kept[n] = chain[n]
  BY <1>1, <1>2
<1>4. fresh \in Seq(Block) /\ Len(fresh) = d
      /\ \A i \in 1 .. d : fresh[i].hash = minted + i
  <2>1. \A i \in 1 .. d : fresh[i] \in Block
    BY <1>1 DEF Block
  <2>2. QED BY <1>2, <2>1
<1> HIDE DEF kept, fresh
<1>5. /\ Len(chain') = k + d
      /\ \A n \in 1 .. k : chain'[n] = kept[n]
      /\ \A n \in k + 1 .. k + d : chain'[n] = fresh[n - k]
  <2>1. /\ Len(kept \o fresh) = Len(kept) + Len(fresh)
        /\ \A n \in 1 .. Len(kept) : (kept \o fresh)[n] = kept[n]
        /\ \A n \in Len(kept) + 1 .. Len(kept) + Len(fresh) :
             (kept \o fresh)[n] = fresh[n - Len(kept)]
    BY <1>3, <1>4, ConcatAt
  <2>2. QED BY <1>2, <1>3, <1>4, <2>1
<1>6. k + d = Len(chain)
  BY <1>1, <1>2
<1>7. ASSUME NEW n \in k + 1 .. Len(chain) PROVE chain'[n].hash = minted + (n - k)
  <2>1. n - k \in 1 .. d /\ n \in k + 1 .. k + d
    BY <1>1, <1>2, <1>6
  <2>2. QED BY <2>1, <1>4, <1>5
<1>8. QED BY <1>2, <1>3, <1>5, <1>6, <1>7

LEMMA NetworkEffect ==
  ASSUME IInv, HashesUnique, Network
  PROVE  HashesUnique' /\ \E k \in Nat : KeepsTo(k)
<1>1. /\ minted \in Nat /\ torn \in BOOLEAN /\ Len(chain) \in Nat /\ MaxReorg \in Nat
      /\ chain \in Seq(Block)
  BY IngestionAssumption DEF IInv, TypeOK
<1>2. ASSUME NEW txs \in SUBSET Txs, Mine(txs)
      PROVE  HashesUnique' /\ \E k \in Nat : KeepsTo(k)
  <2>1. /\ chain' = Append(chain, [hash |-> minted + 1, txs |-> txs])
        /\ minted' = minted + 1 /\ torn' = torn
    BY <1>2 DEF Mine
  <2>2. /\ Len(chain') = Len(chain) + 1
        /\ \A n \in 1 .. Len(chain) : chain'[n] = chain[n]
        /\ chain'[Len(chain) + 1].hash = minted + 1
    BY <1>1, <2>1
  <2>3. HashesUnique'
    BY <1>1, <2>1, <2>2 DEF HashesUnique
  <2>4. KeepsTo(Len(chain))
    BY <1>1, <1>2, <2>1, <2>2 DEF KeepsTo, Mine, store, memory, history
  <2>5. QED BY <1>1, <2>3, <2>4
<1>3. ASSUME NEW d \in 1 .. MaxReorg, NEW txsOf \in [1 .. d -> SUBSET Txs], Reorg(d, txsOf)
      PROVE  HashesUnique' /\ \E k \in Nat : KeepsTo(k)
  <2>1. PICK k : k = Len(chain) - d
    OBVIOUS
  <2>2. /\ d \in Nat /\ k \in Nat /\ minted' = minted + d
        /\ Len(chain') = Len(chain)
        /\ \A n \in 1 .. k : chain'[n] = chain[n]
        /\ \A n \in k + 1 .. Len(chain) : chain'[n].hash = minted + (n - k)
    BY <1>3, <2>1, ReorgEffect DEF IInv
  <2>3. k + d = Len(chain) /\ k < Len(chain) /\ d <= MaxReorg
    BY <1>1, <2>1, <2>2
  <2>4. \A n \in 1 .. Len(chain') : k < n => chain'[n].hash = minted + (n - k) /\ n - k \in 1 .. d
    <3>1. SUFFICES ASSUME NEW n \in 1 .. Len(chain'), k < n
                   PROVE  chain'[n].hash = minted + (n - k) /\ n - k \in 1 .. d
      OBVIOUS
    <3>2. n \in k + 1 .. Len(chain) /\ n - k \in 1 .. d
      BY <1>1, <2>2, <2>3, <3>1
    <3>3. QED BY <2>2, <3>2
  <2>5. \A n \in 1 .. Len(chain') : n <= k =>
          n \in 1 .. Len(chain) /\ chain'[n] = chain[n] /\ chain'[n].hash \in 1 .. minted
    BY <1>1, <2>2, <2>3 DEF HashesUnique
  <2>6. HashesUnique'
    <3>1. \A n \in 1 .. Len(chain') : chain'[n].hash \in 1 .. minted'
      BY <1>1, <2>2, <2>4, <2>5
    <3>2. ASSUME NEW m \in 1 .. Len(chain'), NEW n \in 1 .. Len(chain'),
                 chain'[m].hash = chain'[n].hash
          PROVE  m = n
      <4>1. CASE m <= k /\ n <= k
        BY <2>5, <3>2, <4>1 DEF HashesUnique
      <4>2. CASE k < m /\ k < n
        BY <1>1, <2>2, <2>4, <3>2, <4>2
      <4>3. CASE (m <= k /\ k < n) \/ (k < m /\ n <= k)
        BY <1>1, <2>2, <2>4, <2>5, <3>2, <4>3
      <4>4. m \in Nat /\ n \in Nat /\ k \in Nat
        BY <2>2
      <4>5. QED BY <4>1, <4>2, <4>3, <4>4
    <3>3. QED BY <3>1, <3>2 DEF HashesUnique
  <2>7. KeepsTo(k)
    <3>1. \A n \in 1 .. Len(chain') : k < n => chain'[n].hash \in minted + 1 .. minted'
      BY <1>1, <2>2, <2>4
    <3>2. UNCHANGED <<facts, checkpoint, pc, live, stop, nextBlock, rangeEnd, header, filter,
                      logs, buffer, starts, origin>>
      BY <1>3 DEF Reorg, store, memory, history
    <3>3. /\ torn => torn'
          /\ k < Len(chain) => torn' \/ pc \in BetweenBlocks
      BY <1>3 DEF Reorg
    <3>4. /\ k <= Len(chain) /\ Len(chain) <= Len(chain') /\ Len(chain) <= k + MaxReorg
          /\ minted <= minted'
      BY <1>1, <2>2, <2>3
    <3>5. QED BY <2>2, <3>1, <3>2, <3>3, <3>4 DEF KeepsTo
  <2>8. QED BY <2>2, <2>6, <2>7
<1>4. QED BY <1>2, <1>3 DEF Network

(* Below k nothing changes, and a hash that was known before is on the new  *)
(* chain only if it is below k.                                             *)
LEMMA KeptHashes ==
  ASSUME IInv, IInv', HashesUnique, NEW k \in Nat, KeepsTo(k)
  PROVE  /\ \A n \in Int : n <= k =>
              HashAt(chain', n) = HashAt(chain, n) /\ CanonicalAt(n)' = CanonicalAt(n)
         /\ \A n \in Int : \A h \in 1 .. minted : HashAt(chain', n) = h =>
              n <= k /\ n \in 1 .. Len(chain) /\ HashAt(chain, n) = h
<1>1. /\ minted \in Nat /\ Len(chain) \in Nat /\ Len(chain') \in Nat
      /\ k <= Len(chain) /\ Len(chain) <= Len(chain')
      /\ \A n \in 1 .. k : chain'[n] = chain[n]
      /\ \A n \in 1 .. Len(chain') : k < n => chain'[n].hash > minted
  BY DEF IInv, TypeOK, KeepsTo
<1>2. ASSUME NEW n \in Int, n <= k
      PROVE  HashAt(chain', n) = HashAt(chain, n) /\ CanonicalAt(n)' = CanonicalAt(n)
  BY <1>1, <1>2 DEF HashAt, CanonicalAt
<1>3. ASSUME NEW n \in Int, NEW h \in 1 .. minted, HashAt(chain', n) = h
      PROVE  n <= k /\ n \in 1 .. Len(chain) /\ HashAt(chain, n) = h
  <2>1. n \in 1 .. Len(chain') /\ chain'[n].hash = h
    BY <1>1, <1>3 DEF HashAt
  <2>2. n <= k
    BY <1>1, <2>1
  <2>3. QED BY <1>1, <1>2, <1>3, <2>1, <2>2
<1>4. QED BY <1>2, <1>3

-----------------------------------------------------------------------------
(* What a step does to a row: nothing to one that is absent, to a stored    *)
(* one nothing but to its status and count, and the handler may add one.    *)
LEMMA RowEffect ==
  ASSUME IInv, [Next]_vars, NEW t \in Txs
  PROVE  \/ facts[t].status = Absent /\ facts'[t] = facts[t]
         \/ /\ facts[t].status # Absent /\ facts'[t].status # Absent
            /\ facts'[t].block = facts[t].block
            /\ facts'[t].hash = facts[t].hash /\ facts'[t].time = facts[t].time
         \/ /\ facts[t].status = Absent /\ pc = "facts"
            /\ \E log \in logs : t = log.tx /\ facts'[t] = NewFact(nextBlock, log.hash, header)
<1>1. CASE facts' = facts
  BY <1>1
<1>2. CASE facts' # facts
  <2>1. KeepsHistory(facts[t], facts'[t])
    BY <1>2, HistoryStep
  <2>2. CASE facts[t].status # Absent
    BY <2>1, <2>2 DEF KeepsHistory
  <2>3. CASE facts[t].status = Absent
    <3>1. ASSUME NEW log \in logs, HandleLog(log)
          PROVE  \/ facts'[t] = facts[t]
                 \/ pc = "facts" /\ t = log.tx /\ facts'[t] = NewFact(nextBlock, log.hash, header)
      BY <3>1, HandleLogRows DEF HandleLog
    <3>2. CASE AdvanceLifecycle
      BY <2>3, <3>2, AdvanceRows DEF AdvanceRow, Advancing, Absent, Pending, Confirmed
    <3>3. CASE HandleReorg
      BY <2>3, <3>3, OrphanRows
         DEF OrphanRow, Advancing, Absent, Pending, Confirmed, Finalized
    <3>4. QED BY <1>2, <2>3, <3>1, <3>2, <3>3, TableSteps
  <2>4. QED BY <2>2, <2>3
<1>3. QED BY <1>1, <1>2

(* Confirmation counting writes the two columns of rows that still advance; *)
(* it finalizes those that are Depth blocks below the head.                 *)
LEMMA AdvanceEffect ==
  ASSUME IInv, AdvanceLifecycle, NEW t \in Txs
  PROVE  /\ facts'[t].block = facts[t].block /\ facts'[t].hash = facts[t].hash
         /\ facts'[t].time = facts[t].time
         /\ facts[t].status = Absent <=> facts'[t].status = Absent
         /\ facts'[t].status = Finalized =>
              facts[t].status = Finalized \/ facts[t].block + Depth <= nextBlock
         /\ facts'[t].status \in Advancing =>
              facts[t].status \in Advancing /\ facts[t].block + Depth > nextBlock
<1>1. facts[t] \in Row /\ facts[t].block \in Nat /\ nextBlock \in Nat /\ Depth \in Nat \ {0}
  BY RowsTyped, IngestionAssumption DEF IInv, TypeOK
<1>2. facts'[t] = AdvanceRow(facts[t], nextBlock, Depth)
  BY AdvanceRows
<1> USE DEF Advancing, Absent, Pending, Confirmed, Finalized
<1>3. CASE ~(facts[t].status \in Advancing /\ facts[t].block <= nextBlock)
  <2>1. facts'[t] = facts[t]
    BY <1>2, <1>3 DEF AdvanceRow
  <2>2. facts[t].status \in Advancing => facts[t].block + Depth > nextBlock
    BY <1>1, <1>3
  <2>3. QED BY <2>1, <2>2
<1>4. CASE facts[t].status \in Advancing /\ facts[t].block <= nextBlock
  <2>1. /\ facts'[t].block = facts[t].block /\ facts'[t].hash = facts[t].hash
        /\ facts'[t].time = facts[t].time
        /\ facts'[t].status = StatusAt(facts[t], nextBlock - facts[t].block, Depth)
    BY <1>1, <1>2, <1>4 DEF AdvanceRow, Row
  <2>2. CASE nextBlock - facts[t].block >= Depth
    BY <1>1, <1>4, <2>1, <2>2 DEF StatusAt
  <2>3. CASE ~(nextBlock - facts[t].block >= Depth)
    BY <1>1, <1>4, <2>1, <2>3 DEF StatusAt
  <2>4. QED BY <2>2, <2>3
<1>5. QED BY <1>3, <1>4

LEMMA OrphanEffect ==
  ASSUME IInv, HandleReorg, NEW t \in Txs
  PROVE  /\ facts'[t].block = facts[t].block /\ facts'[t].hash = facts[t].hash
         /\ facts'[t].time = facts[t].time
         /\ facts[t].status = Absent <=> facts'[t].status = Absent
         /\ facts'[t].status \in {Finalized} \cup Advancing =>
              /\ facts'[t] = facts[t]
              /\ facts[t].block <= buffer'[Len(buffer')].number \/ facts[t].block > nextBlock
<1>1. /\ facts[t] \in Row /\ facts[t].block \in Nat /\ nextBlock \in Nat
      /\ buffer'[Len(buffer')].number \in Nat
      /\ facts'[t] = OrphanRow(facts[t], buffer'[Len(buffer')].number + 1, nextBlock)
  BY RowsTyped, OrphanRows DEF IInv, TypeOK
<1> USE DEF Advancing, Absent, Pending, Confirmed, Finalized, Orphaned
<1>2. CASE facts'[t] = facts[t]
  BY <1>1, <1>2 DEF OrphanRow, Row
<1>3. CASE facts'[t] # facts[t]
  <2>1. facts'[t] = [facts[t] EXCEPT !.status = Orphaned, !.confs = 0]
        /\ facts[t].status \in Advancing \cup {Finalized}
    BY <1>1, <1>3 DEF OrphanRow
  <2>2. QED BY <1>1, <2>1 DEF Row
<1>4. QED BY <1>2, <1>3

-----------------------------------------------------------------------------
(* What on_new_block does to the buffer: the header read is on the chain,   *)
(* so it can extend only the header of the height below, which then is too. *)
LEMMA PushEffect ==
  ASSUME IInv, ChainInv, OnNewBlock
  PROVE  \E s \in {0, 1} :
           /\ Len(buffer') = Len(buffer) + 1 - s
           /\ Len(buffer') \in 1 .. Depth
           /\ \A i \in 1 .. Len(buffer') - 1 : buffer'[i] = buffer[i + s]
           /\ buffer'[Len(buffer')] = HeaderAt(nextBlock)
           /\ s = 1 => Len(buffer) = Depth
<1> DEFINE longer == Append(buffer, HeaderAt(nextBlock))
<1>1. /\ buffer \in Seq(Header) /\ HeaderAt(nextBlock) \in Header
      /\ Len(buffer) \in Nat /\ Len(buffer) <= Depth /\ Depth \in Nat \ {0}
  <2>1. TypeOK /\ buffer \in Seq(Header) /\ nextBlock \in Nat /\ Depth \in Nat \ {0}
    BY IngestionAssumption DEF IInv, TypeOK
  <2>2. Len(buffer) <= Depth
    BY DEF ChainInv, HeadersNumbered
  <2>3. HeaderAt(nextBlock) \in Header
    BY <2>1, HeaderAtType
  <2>4. QED BY <2>1, <2>2, <2>3
<1>2. /\ longer \in Seq(Header) /\ Len(longer) = Len(buffer) + 1
      /\ \A i \in 1 .. Len(buffer) : longer[i] = buffer[i]
      /\ longer[Len(longer)] = HeaderAt(nextBlock)
  <2>1. \A b \in Seq(Header), h \in Header :
          /\ Append(b, h) \in Seq(Header) /\ Len(Append(b, h)) = Len(b) + 1
          /\ \A i \in 1 .. Len(b) : Append(b, h)[i] = b[i]
          /\ Append(b, h)[Len(b) + 1] = h
    OBVIOUS
  <2>2. QED BY <1>1, <2>1
<1>3. buffer' = IF Len(longer) > Depth THEN Tail(longer) ELSE longer
  BY DEF OnNewBlock, Pushed
<1> HIDE DEF longer
<1>4. CASE Len(longer) > Depth
  <2>1. /\ Len(buffer') = Len(buffer)
        /\ \A i \in 1 .. Len(buffer) : buffer'[i] = longer[i + 1]
    BY <1>1, <1>2, <1>3, <1>4
  <2>2. Len(buffer) = Depth
    BY <1>1, <1>2, <1>4
  <2>3. \A i \in 1 .. Len(buffer') - 1 : buffer'[i] = buffer[i + 1]
    BY <1>1, <1>2, <2>1
  <2>4. QED BY <1>1, <1>2, <2>1, <2>2, <2>3
<1>5. CASE ~(Len(longer) > Depth)
  BY <1>1, <1>2, <1>3, <1>5
<1>6. QED BY <1>4, <1>5

(* Reorg handling takes the last header, and only it, out of the buffer.    *)
LEMMA PopEffect ==
  ASSUME IInv, HandleReorg
  PROVE  /\ Len(buffer') = Len(buffer) - 1 /\ Len(buffer) >= 2
         /\ \A i \in 1 .. Len(buffer) - 1 : buffer'[i] = buffer[i]
<1>1. buffer \in Seq(Header) /\ Len(buffer) >= 2 /\ Breaks(buffer) = {Len(buffer)}
  BY DEF HandleReorg, IInv, TypeOK, HeaderWindow
<1>2. ForkIndex(buffer) = Len(buffer)
  BY <1>1, PoppedHeaders
<1>3. buffer' = SubSeq(buffer, 1, Len(buffer) - 1)
  BY <1>2 DEF HandleReorg
<1>4. QED BY <1>1, <1>3, PoppedHeaders

LEMMA PushLinks ==
  ASSUME IInv, ChainInv, OnNewBlock
  PROVE  /\ pc' \in {"block", "advance", "orphan"}
         /\ pc' = "block" <=> Len(buffer') < 2
         /\ nextBlock' = IF pc' = "block" THEN nextBlock + 1 ELSE nextBlock
         /\ OnChain(HeaderAt(nextBlock))
         /\ HeaderAt(nextBlock).number = nextBlock
         /\ HeaderAt(nextBlock).hash \in 1 .. minted
         /\ pc' = "advance" =>
              /\ Len(buffer) >= 1
              /\ buffer[Len(buffer)].number = nextBlock - 1
              /\ OnChain(buffer[Len(buffer)])
<1>1. PICK s \in {0, 1} :
           /\ Len(buffer') = Len(buffer) + 1 - s
           /\ Len(buffer') \in 1 .. Depth
           /\ \A i \in 1 .. Len(buffer') - 1 : buffer'[i] = buffer[i + s]
           /\ buffer'[Len(buffer')] = HeaderAt(nextBlock)
  BY PushEffect
<1>2. Len(buffer) \in Nat /\ nextBlock \in 1 .. Len(chain) /\ Len(chain) \in Nat
  BY DEF IInv, TypeOK, ChainInv, Position, OnNewBlock, InBlock
<1>3. /\ HeaderAt(nextBlock).number = nextBlock
      /\ HeaderAt(nextBlock).hash = chain[nextBlock].hash
      /\ HeaderAt(nextBlock).parent = HashAt(chain, nextBlock - 1)
  BY <1>2 DEF HeaderAt, HashAt
<1>4. OnChain(HeaderAt(nextBlock)) /\ HeaderAt(nextBlock).hash \in 1 .. minted
  BY <1>2, <1>3 DEF OnChain, HashAt, ChainInv, HashesUnique
<1>5. /\ Len(buffer') < 2 => pc' = "block" /\ nextBlock' = nextBlock + 1
      /\ ~(Len(buffer') < 2) =>
           pc' = (IF Linked(buffer') THEN "advance" ELSE "orphan") /\ nextBlock' = nextBlock
  BY DEF OnNewBlock, NextBlock
<1>6. ASSUME pc' = "advance"
      PROVE  /\ Len(buffer) >= 1
             /\ buffer[Len(buffer)].number = nextBlock - 1
             /\ OnChain(buffer[Len(buffer)])
  <2>1. Len(buffer') >= 2 /\ Linked(buffer')
    BY <1>1, <1>5, <1>6
  <2>2. /\ Len(buffer) >= 1 /\ Len(buffer') - 1 + s = Len(buffer)
        /\ buffer'[Len(buffer') - 1] = buffer[Len(buffer)]
    BY <1>1, <1>2, <2>1
  <2>3. buffer'[Len(buffer')].parent = buffer'[Len(buffer') - 1].hash
    <3>1. Len(buffer') \in 2 .. Len(buffer')
      BY <1>1, <2>1, IngestionAssumption
    <3>2. QED BY <2>1, <3>1 DEF Linked, Breaks
  <2>4. HashAt(chain, nextBlock - 1) = buffer[Len(buffer)].hash
    <3>1. buffer'[Len(buffer')].parent = HashAt(chain, nextBlock - 1)
      BY <1>1, <1>3
    <3>2. QED BY <2>2, <2>3, <3>1
  <2>5. /\ buffer[Len(buffer)].hash \in 1 .. minted
        /\ \A n \in 1 .. Len(chain) :
             chain[n].hash = buffer[Len(buffer)].hash => n = buffer[Len(buffer)].number
    BY <1>2, <2>2 DEF ChainInv, HeadersKnown
  <2>6. nextBlock - 1 \in 1 .. Len(chain) /\ chain[nextBlock - 1].hash = buffer[Len(buffer)].hash
    BY <1>2, <2>4, <2>5 DEF HashAt
  <2>7. buffer[Len(buffer)].number = nextBlock - 1
    BY <2>5, <2>6
  <2>8. QED BY <2>2, <2>4, <2>7 DEF OnChain
<1>7. QED BY <1>3, <1>4, <1>5, <1>6

-----------------------------------------------------------------------------
(* ChainInv is inductive, for all constants.                                *)
LEMMA Typed ==
  ASSUME IInv
  PROVE  /\ Depth \in Nat \ {0} /\ MaxReorg \in Nat
         /\ Len(chain) \in Nat /\ minted \in Nat /\ torn \in BOOLEAN
         /\ nextBlock \in Nat /\ rangeEnd \in Nat /\ filter \in Nat /\ header \in Nat
         /\ live \in BOOLEAN /\ stop \in BOOLEAN /\ pc \in ControlPoints
         /\ checkpoint \in Int /\ checkpoint >= NoBlock
         /\ origin \in Nat /\ starts \in Nat
         /\ buffer \in Seq(Header) /\ Len(buffer) \in Nat
         /\ \A i \in 1 .. Len(buffer) : buffer[i].number \in Nat /\ buffer[i].hash \in Nat
         /\ \A t \in Txs : facts[t] \in Row /\ facts[t].block \in Nat
<1>1. \A i \in 1 .. Len(buffer) : buffer[i].number \in Nat /\ buffer[i].hash \in Nat
  <2>1. \A i \in 1 .. Len(buffer) : buffer[i] \in Header
    BY DEF IInv, TypeOK
  <2>2. QED BY <2>1 DEF Header
<1>2. \A t \in Txs : facts[t] \in Row /\ facts[t].block \in Nat
  BY RowsTyped
<1>3. Depth \in Nat \ {0} /\ MaxReorg \in Nat
  BY IngestionAssumption
<1>4. checkpoint \in Int /\ checkpoint >= NoBlock
  BY DEF IInv, TypeOK, NoBlock
<1>5. QED BY <1>1, <1>2, <1>3, <1>4 DEF IInv, TypeOK

LEMMA ChainInvInit == Init => ChainInv
<1> SUFFICES ASSUME Init PROVE ChainInv
  OBVIOUS
<1>1. Len(chain) = 1 /\ chain[1].hash = 1 /\ minted = 1 /\ buffer = <<>> /\ Len(buffer) = 0
  BY DEF Init
<1>2. Depth \in Nat
  BY IngestionAssumption
<1>3. HashesUnique /\ HeadersKnown /\ HeadersNumbered
  BY <1>1, <1>2 DEF HashesUnique, HeadersKnown, HeadersNumbered
<1>4. Position
  BY <1>1 DEF Init, Position, InBlock, Called
<1>5. Settled
  BY DEF Init, Settled, NoRow, Absent, Finalized, NoBlock
<1>6. ReadsAgree /\ ReadsComplete
  BY DEF Init, ReadsAgree, ReadsComplete, Called, EventTimeOfBlock, NoRow
<1>7. QED BY <1>3, <1>4, <1>5, <1>6 DEF ChainInv

LEMMA ChainInvNetwork ==
  ASSUME IInv, IInv', ChainInv, Network
  PROVE  ChainInv'
<1>1. HashesUnique /\ HashesUnique'
  BY NetworkEffect DEF ChainInv
<1>2. PICK k \in Nat : KeepsTo(k)
  BY <1>1, NetworkEffect
<1>3. /\ k <= Len(chain) /\ Len(chain) <= Len(chain') /\ minted <= minted'
      /\ torn => torn'
      /\ k < Len(chain) => torn' \/ pc \in BetweenBlocks
  BY <1>2 DEF KeepsTo
<1>4. UNCHANGED <<facts, checkpoint, pc, live, stop, nextBlock, rangeEnd, header, filter, logs,
                  buffer, starts, origin>>
  BY <1>2 DEF KeepsTo
<1>5. /\ \A n \in Int : n <= k =>
           HashAt(chain', n) = HashAt(chain, n) /\ CanonicalAt(n)' = CanonicalAt(n)
      /\ \A n \in Int : \A h \in 1 .. minted : HashAt(chain', n) = h =>
           n <= k /\ n \in 1 .. Len(chain) /\ HashAt(chain, n) = h
  BY <1>1, <1>2, KeptHashes
<1>6. Len(chain') \in Nat /\ minted' \in Nat
  BY DEF IInv, TypeOK
<1>7. HeadersKnown'
  <2>1. SUFFICES ASSUME NEW i \in 1 .. Len(buffer)
                 PROVE  /\ buffer[i].hash \in 1 .. minted'
                        /\ \A n \in 1 .. Len(chain') :
                             chain'[n].hash = buffer[i].hash => n = buffer[i].number
    BY <1>4 DEF HeadersKnown
  <2>2. /\ buffer[i].hash \in 1 .. minted
        /\ \A n \in 1 .. Len(chain) : chain[n].hash = buffer[i].hash => n = buffer[i].number
    BY DEF ChainInv, HeadersKnown
  <2>3. ASSUME NEW n \in 1 .. Len(chain'), chain'[n].hash = buffer[i].hash
        PROVE  n = buffer[i].number
    <3>1. HashAt(chain', n) = buffer[i].hash
      BY <1>6, <2>3 DEF HashAt
    <3>2. n \in 1 .. Len(chain) /\ HashAt(chain, n) = buffer[i].hash
      BY <1>5, <1>6, <2>2, <3>1
    <3>3. QED BY <2>2, <3>2 DEF HashAt
  <2>4. buffer[i].hash \in 1 .. minted'
    <3>1. minted \in Nat
      BY Typed
    <3>2. QED BY <1>3, <1>6, <2>2, <3>1
  <2>5. QED BY <2>3, <2>4
<1>8. HeadersNumbered' /\ Position' /\ Settled'
  <2>1. HeadersNumbered'
    BY <1>4 DEF ChainInv, HeadersNumbered, Verified
  <2>2. Position'
    BY <1>3, <1>4, <1>6, Typed DEF ChainInv, Position
  <2>3. Settled'
    <3>1. ASSUME NEW n \in Int, n + Depth <= Len(chain) PROVE n + Depth <= Len(chain')
      BY <1>3, <1>6, <3>1, Typed
    <3>2. QED BY <1>4, <3>1, Typed DEF ChainInv, Settled
  <2>4. QED BY <2>1, <2>2, <2>3
<1>9. ASSUME ~torn'
      PROVE  /\ EventTimeOfBlock'
             /\ pc \in InBlock => /\ HashAt(chain', nextBlock) = HashAt(chain, nextBlock)
                                /\ CanonicalAt(nextBlock)' = CanonicalAt(nextBlock)
  <2>1. EventTimeOfBlock'
    BY <1>3, <1>4, <1>9 DEF ChainInv, ReadsAgree, EventTimeOfBlock
  <2>2. pc \in InBlock => k = Len(chain) /\ nextBlock <= Len(chain)
    BY <1>3, <1>9, Typed DEF ChainInv, Position, InBlock, Called, BetweenBlocks
  <2>3. ASSUME pc \in InBlock
        PROVE  /\ HashAt(chain', nextBlock) = HashAt(chain, nextBlock)
               /\ CanonicalAt(nextBlock)' = CanonicalAt(nextBlock)
    <3>1. nextBlock \in Int /\ nextBlock <= k /\ nextBlock' = nextBlock
      BY <1>4, <2>2, <2>3, Typed
    <3>2. HashAt(chain', nextBlock) = HashAt(chain, nextBlock)
      BY <1>5, <3>1
    <3>3. CanonicalAt(nextBlock)' = CanonicalAt(nextBlock)
      BY <1>2, <1>3, <1>6, <3>1, Typed DEF CanonicalAt, KeepsTo
    <3>4. QED BY <3>2, <3>3
  <2>4. QED BY <2>1, <2>3
<1>10. ReadsAgree'
  <2>1. SUFFICES ASSUME ~torn' PROVE ReadsAgree'
    BY DEF ReadsAgree
  <2>2. ~torn /\ ReadsAgree
    BY <1>3, <2>1 DEF ChainInv
  <2>3. pc \in {"logs", "facts"} =>
          header' = HashAt(chain, nextBlock)' /\ \A log \in logs' : log.hash = header'
    <3>1. SUFFICES ASSUME pc \in {"logs", "facts"}
                   PROVE  header = HashAt(chain', nextBlock) /\ \A log \in logs : log.hash = header
      BY <1>4
    <3>2. header = HashAt(chain, nextBlock) /\ \A log \in logs : log.hash = header
      BY <2>2, <3>1 DEF ReadsAgree
    <3>3. HashAt(chain', nextBlock) = HashAt(chain, nextBlock)
      BY <1>9, <2>1, <3>1 DEF InBlock
    <3>4. QED BY <3>2, <3>3
  <2>4. pc \in Called => OnChain(buffer[Len(buffer)])'
    <3>1. SUFFICES ASSUME pc \in Called PROVE OnChain(buffer[Len(buffer)])'
      OBVIOUS
    <3>2. buffer[Len(buffer)].number = nextBlock
      BY <3>1 DEF Called, IInv, HeaderWindow
    <3>3. QED BY <1>4, <1>9, <2>1, <2>2, <3>1, <3>2 DEF ReadsAgree, InBlock, OnChain
  <2>5. QED BY <1>4, <1>9, <2>1, <2>3, <2>4 DEF ReadsAgree
<1>11. ReadsComplete'
  <2>1. SUFFICES ASSUME ~torn' PROVE ReadsComplete'
    BY DEF ReadsComplete
  <2>2. ~torn /\ ReadsComplete
    BY <1>3, <2>1 DEF ChainInv
  <2>3. QED BY <1>4, <1>9, <2>1, <2>2 DEF ReadsComplete, InBlock, Called, Kept
<1>12. QED BY <1>1, <1>7, <1>8, <1>10, <1>11 DEF ChainInv

LEMMA ChainInvOff ==
  ASSUME IInv, ChainInv, Off, UNCHANGED <<network, store, history>>
  PROVE  ChainInv'
<1> USE DEF network, store, history
<1>1. /\ UNCHANGED <<chain, minted, torn, facts, checkpoint>>
      /\ pc' = "down" /\ buffer' = <<>> /\ logs' = {} /\ Len(buffer') = 0
  BY DEF Off
<1>2. HashesUnique' /\ HeadersKnown' /\ HeadersNumbered'
  BY <1>1, Typed DEF ChainInv, HashesUnique, HeadersKnown, HeadersNumbered
<1>3. Position' /\ Settled'
  BY <1>1 DEF ChainInv, Position, Settled, InBlock, Called
<1>4. ReadsAgree' /\ ReadsComplete'
  BY <1>1 DEF ChainInv, ReadsAgree, ReadsComplete, Called, EventTimeOfBlock
<1>5. QED BY <1>2, <1>3, <1>4 DEF ChainInv

(* Steps that leave the chain, the store and the buffer as they are.        *)
LEMMA ChainInvQuiet ==
  ASSUME IInv, ChainInv,
         UNCHANGED <<chain, minted, torn, facts, checkpoint, buffer>>,
         HeadersNumbered', Position', ReadsComplete',
         ~torn => /\ pc' \in {"logs", "facts"} =>
                       header' = HashAt(chain, nextBlock') /\ \A log \in logs' : log.hash = header'
                  /\ pc' \in Called => OnChain(buffer[Len(buffer)])
  PROVE  ChainInv'
<1>1. HashesUnique' /\ HeadersKnown' /\ Settled'
  BY DEF ChainInv, HashesUnique, HeadersKnown, Settled
<1>2. ReadsAgree'
  BY DEF ChainInv, ReadsAgree, EventTimeOfBlock, OnChain
<1>3. QED BY <1>1, <1>2 DEF ChainInv

LEMMA ChainInvOperator ==
  ASSUME IInv, IInv', ChainInv, Operator
  PROVE  ChainInv'
<1> USE DEF network, store, history
<1>1. ASSUME NEW from \in StartArgs, NEW to \in EndArgs, Start(from, to) PROVE ChainInv'
  <2>1. /\ pc = "down" /\ buffer = <<>> /\ buffer' = <<>> /\ logs' = {} /\ Len(buffer') = 0
        /\ UNCHANGED <<chain, minted, torn, facts, checkpoint, buffer>>
    BY <1>1 DEF Start, ChainInv, Position
  <2>2. (pc' = "head" /\ live') \/ (pc' = "block" /\ ~live')
    <3> DEFINE begin == IF from # NoBlock THEN from
                        ELSE IF checkpoint # NoBlock THEN checkpoint + 1 ELSE NoBlock
    <3>1. CASE begin = NoBlock
      <4>1. pc' = "head" /\ live' = TRUE
        BY <1>1, <3>1 DEF Start
      <4>2. QED BY <4>1
    <3>2. CASE begin # NoBlock
      <4>1. pc' = "block" /\ live' = FALSE
        BY <1>1, <3>2 DEF Start
      <4>2. QED BY <4>1
    <3>3. QED BY <3>1, <3>2
  <2>3. HeadersNumbered'
    BY <2>1, Typed DEF HeadersNumbered
  <2>4. Position'
    BY <2>1, <2>2 DEF Position, InBlock, Called
  <2>5. ReadsComplete'
    BY <2>2 DEF ReadsComplete, Called
  <2>6. QED BY <2>1, <2>2, <2>3, <2>4, <2>5, ChainInvQuiet DEF Called
<1>2. CASE RequestStop
  <2>1. UNCHANGED <<chain, minted, torn, facts, checkpoint, buffer, pc, live, nextBlock, rangeEnd,
                    header, filter, logs>>
    BY <1>2 DEF RequestStop
  <2>2. QED BY <2>1 DEF ChainInv, HashesUnique, HeadersKnown, HeadersNumbered, Position, Settled,
                        ReadsAgree, ReadsComplete, EventTimeOfBlock, OnChain, Kept, CanonicalAt,
                        Verified
<1>3. QED BY <1>1, <1>2 DEF Operator

LEMMA ChainInvCollect ==
  ASSUME IInv, IInv', ChainInv, Collect
  PROVE  ChainInv'
<1> USE DEF network, store, history
<1>1. CASE StopPolling \/ MissingBlock \/ (EndRange /\ ~live)
  <2>1. Off /\ UNCHANGED <<network, store, history>>
    BY <1>1 DEF StopPolling, MissingBlock, EndRange
  <2>2. QED BY <2>1, ChainInvOff
<1>2. CASE PollHead
  <2>1. /\ UNCHANGED <<chain, minted, torn, facts, checkpoint, buffer, live, nextBlock, logs>>
        /\ pc = "head" /\ pc' = "block" /\ rangeEnd' = Len(chain) /\ nextBlock <= Len(chain)
    BY <1>2, Typed DEF PollHead
  <2>2. HeadersNumbered'
    BY <2>1 DEF ChainInv, HeadersNumbered, Verified, Called
  <2>3. Position'
    BY <2>1, Typed DEF ChainInv, Position, InBlock, Called
  <2>4. ReadsComplete'
    BY <2>1 DEF ReadsComplete, Called
  <2>5. QED BY <2>1, <2>2, <2>3, <2>4, ChainInvQuiet DEF Called
<1>3. CASE EndRange /\ live
  <2>1. /\ UNCHANGED <<chain, minted, torn, facts, checkpoint, buffer, live, logs, rangeEnd>>
        /\ pc = "block" /\ pc' = "head" /\ nextBlock' = rangeEnd + 1 /\ nextBlock <= rangeEnd + 1
    <3>1. pc = "block" /\ pc' = "head" /\ nextBlock' = rangeEnd + 1
      BY <1>3 DEF EndRange
    <3>2. nextBlock <= rangeEnd + 1
      BY <1>3, <3>1 DEF ChainInv, Position
    <3>3. QED BY <1>3, <3>1, <3>2 DEF EndRange
  <2>2. HeadersNumbered'
    <3>1. ASSUME NEW i \in 1 .. Len(buffer) PROVE buffer[i].number < rangeEnd + 1
      <4>1. buffer[i].number < nextBlock /\ buffer[i].number \in Nat
        BY <2>1, Typed DEF ChainInv, HeadersNumbered, Called
      <4>2. QED BY <2>1, <4>1, Typed
    <3>2. QED BY <2>1, <3>1 DEF ChainInv, HeadersNumbered, Verified, Called
  <2>3. Position'
    BY <1>3, <2>1 DEF ChainInv, Position, InBlock, Called
  <2>4. ReadsComplete'
    BY <2>1 DEF ReadsComplete, Called
  <2>5. QED BY <2>1, <2>2, <2>3, <2>4, ChainInvQuiet DEF Called
<1>4. CASE ReadHeader
  <2>1. /\ UNCHANGED <<chain, minted, torn, facts, checkpoint, buffer, live, logs, rangeEnd, nextBlock>>
        /\ pc = "block" /\ pc' = "logs" /\ filter' = 1 /\ header' = HashAt(chain, nextBlock)
        /\ nextBlock <= rangeEnd /\ nextBlock \in 1 .. Len(chain) /\ logs = {}
    BY <1>4 DEF ReadHeader, ChainInv, Position
  <2>2. HeadersNumbered'
    BY <2>1 DEF ChainInv, HeadersNumbered, Verified, Called
  <2>3. Position'
    BY <2>1 DEF ChainInv, Position, InBlock, Called
  <2>4. ReadsComplete'
    <3>1. ASSUME NEW t \in CanonicalAt(nextBlock) PROVE ~(FilterOf[t] < 1)
      <4>1. t \in Txs
        BY HeaderAtType, Typed DEF IInv
      <4>2. FilterOf[t] \in 1 .. NumFilters /\ NumFilters \in Nat
        BY <4>1, IngestionAssumption
      <4>3. QED BY <4>2
    <3>2. QED BY <2>1, <3>1 DEF ReadsComplete, Called, CanonicalAt
  <2>5. QED BY <2>1, <2>2, <2>3, <2>4, ChainInvQuiet DEF Called
<1>5. CASE ReadLogs
  <2> DEFINE read == {[tx |-> t, hash |-> HashAt(chain, nextBlock)] :
                        t \in {u \in CanonicalAt(nextBlock) : FilterOf[u] = filter}}
  <2>1. /\ UNCHANGED <<chain, minted, torn, facts, checkpoint, buffer, live, header, rangeEnd, nextBlock>>
        /\ pc = "logs" /\ pc' = (IF filter < NumFilters THEN "logs" ELSE "facts")
        /\ filter' = filter + 1 /\ logs' = logs \cup read
    BY <1>5 DEF ReadLogs
  <2>2. HeadersNumbered'
    BY <2>1 DEF ChainInv, HeadersNumbered, Verified, Called
  <2>3. Position'
    BY <2>1 DEF ChainInv, Position, InBlock, Called
  <2>4. ReadsComplete'
    <3>1. SUFFICES ASSUME ~torn, NEW t \in CanonicalAt(nextBlock),
                          FilterOf[t] < filter + 1 \/ ~(filter < NumFilters)
                   PROVE  \E log \in logs' : log.tx = t
      BY <2>1 DEF ReadsComplete, Called, CanonicalAt
    <3>2. FilterOf[t] \in 1 .. NumFilters /\ NumFilters \in Nat
      <4>1. t \in Txs
        BY HeaderAtType, Typed DEF IInv
      <4>2. QED BY <4>1, IngestionAssumption
    <3>3. CASE FilterOf[t] = filter
      <4>1. [tx |-> t, hash |-> HashAt(chain, nextBlock)] \in logs'
        BY <2>1, <3>3
      <4>2. QED BY <4>1
    <3>4. CASE FilterOf[t] < filter
      BY <2>1, <3>1, <3>4 DEF ChainInv, ReadsComplete
    <3>5. QED BY <3>1, <3>2, <3>3, <3>4, Typed
  <2>5. ASSUME ~torn
        PROVE  header' = HashAt(chain, nextBlock') /\ \A log \in logs' : log.hash = header'
    <3>1. header = HashAt(chain, nextBlock) /\ \A log \in logs : log.hash = header
      BY <2>1, <2>5 DEF ChainInv, ReadsAgree
    <3>2. \A log \in read : log.hash = HashAt(chain, nextBlock)
      OBVIOUS
    <3>3. QED BY <2>1, <3>1, <3>2
  <2>6. QED BY <2>1, <2>2, <2>3, <2>4, <2>5, ChainInvQuiet DEF Called
<1>6. ASSUME NEW log \in logs, HandleLog(log) PROVE ChainInv'
  <2>1. /\ UNCHANGED <<chain, minted, torn, checkpoint, buffer, live, header, rangeEnd, nextBlock, pc>>
        /\ pc = "facts" /\ logs' = logs \ {log}
        /\ ~Normalizes(log.tx) => facts' = facts
        /\ Normalizes(log.tx) => facts' = SaveFact(facts, log.tx, NewFact(nextBlock, log.hash, header))
    BY <1>6 DEF HandleLog
  <2>2. log.tx \in Txs
    BY DEF IInv, TypeOK, Log
  <2>3. \A t \in Txs : \/ facts'[t] = facts[t]
                      \/ facts'[t] = NewFact(nextBlock, log.hash, header)
    BY <1>6, HandleLogRows
  <2>4. HashesUnique' /\ HeadersKnown' /\ HeadersNumbered' /\ Position'
    BY <2>1 DEF ChainInv, HashesUnique, HeadersKnown, HeadersNumbered, Position, Verified, Called
  <2>5. Settled'
    BY <2>1, <2>3 DEF ChainInv, Settled, NewFact, Pending, Finalized
  <2>6. ReadsAgree'
    <3>1. ~torn => log.hash = header /\ EventTimeOfBlock
      BY <2>1 DEF ChainInv, ReadsAgree
    <3>2. ~torn => EventTimeOfBlock'
      BY <2>1, <2>3, <3>1 DEF EventTimeOfBlock, NewFact
    <3>3. QED BY <2>1, <3>2 DEF ChainInv, ReadsAgree, Called
  <2>7. ReadsComplete'
    <3>1. SUFFICES ASSUME ~torn, NEW t \in CanonicalAt(nextBlock) \ Undecodable
                   PROVE  facts'[t].status # Absent \/ \E l \in logs' : l.tx = t
      BY <2>1 DEF ReadsComplete, Called, CanonicalAt
    <3>2. t \in Txs
      BY HeaderAtType, Typed DEF IInv
    <3>3. facts[t].status # Absent \/ \E l \in logs : l.tx = t
      BY <2>1, <3>1 DEF ChainInv, ReadsComplete
    <3>4. CASE facts[t].status # Absent
      BY <2>3, <3>2, <3>4 DEF NewFact, Pending, Absent
    <3>5. CASE t = log.tx /\ facts[t].status = Absent
      <4>1. facts'[t] = NewFact(nextBlock, log.hash, header)
        BY <2>1, <2>2, <3>1, <3>5 DEF Normalizes, SaveFact, IInv, TypeOK
      <4>2. QED BY <4>1 DEF NewFact, Pending, Absent
    <3>6. CASE t # log.tx /\ \E l \in logs : l.tx = t
      BY <2>1, <3>6
    <3>7. QED BY <3>3, <3>4, <3>5, <3>6
  <2>8. QED BY <2>4, <2>5, <2>6, <2>7 DEF ChainInv
<1>7. CASE BlockStored
  <2>1. /\ UNCHANGED <<chain, minted, torn, facts, checkpoint, buffer, live, logs, rangeEnd, nextBlock>>
        /\ pc = "facts" /\ pc' = "finality" /\ logs = {}
    BY <1>7 DEF BlockStored, memory
  <2>2. HeadersNumbered'
    BY <2>1 DEF ChainInv, HeadersNumbered, Verified, Called
  <2>3. Position'
    BY <2>1 DEF ChainInv, Position, InBlock, Called
  <2>4. ReadsComplete'
    BY <2>1 DEF ChainInv, ReadsComplete, Called, Kept, CanonicalAt
  <2>5. QED BY <2>1, <2>2, <2>3, <2>4, ChainInvQuiet DEF Called
<1>8. QED BY <1>1, <1>2, <1>3, <1>4, <1>5, <1>6, <1>7 DEF Collect

LEMMA ChainInvOnNewBlock ==
  ASSUME IInv, IInv', ChainInv, OnNewBlock
  PROVE  ChainInv'
<1>1. PICK s \in {0, 1} :
           /\ Len(buffer') = Len(buffer) + 1 - s
           /\ Len(buffer') \in 1 .. Depth
           /\ \A i \in 1 .. Len(buffer') - 1 : buffer'[i] = buffer[i + s]
           /\ buffer'[Len(buffer')] = HeaderAt(nextBlock)
  BY PushEffect
<1>2. /\ pc' \in {"block", "advance", "orphan"}
      /\ pc' = "block" <=> Len(buffer') < 2
      /\ nextBlock' = IF pc' = "block" THEN nextBlock + 1 ELSE nextBlock
      /\ OnChain(HeaderAt(nextBlock))
      /\ HeaderAt(nextBlock).number = nextBlock
      /\ HeaderAt(nextBlock).hash \in 1 .. minted
      /\ pc' = "advance" =>
              /\ Len(buffer) >= 1
              /\ buffer[Len(buffer)].number = nextBlock - 1
              /\ OnChain(buffer[Len(buffer)])
  BY PushLinks
<1>3. /\ pc = "finality" /\ logs = {}
      /\ UNCHANGED <<chain, minted, torn, facts, checkpoint, live, rangeEnd, logs>>
      /\ nextBlock \in 1 .. Len(chain) /\ nextBlock <= rangeEnd
  BY DEF OnNewBlock, ChainInv, Position, InBlock, network, store
<1>4. Len(buffer) \in Nat /\ Len(chain) \in Nat /\ Depth \in Nat /\ Len(buffer') \in Nat
      /\ nextBlock \in Nat /\ rangeEnd \in Nat
  <2>1. Depth \in Nat /\ Len(buffer) \in Nat /\ Len(chain) \in Nat /\ nextBlock \in Nat /\ rangeEnd \in Nat
    BY Typed
  <2>2. QED BY <1>1, <2>1
<1>5. \A i \in 1 .. Len(buffer') :
        \/ i < Len(buffer') /\ i + s \in 1 .. Len(buffer) /\ buffer'[i] = buffer[i + s]
        \/ i = Len(buffer') /\ buffer'[i] = HeaderAt(nextBlock)
  BY <1>1, <1>4
<1>6. HeadersKnown'
  <2>1. \A n \in 1 .. Len(chain) : chain[n].hash = HeaderAt(nextBlock).hash => n = nextBlock
    BY <1>2, <1>3, <1>4 DEF ChainInv, HashesUnique, HeaderAt, HashAt
  <2>2. QED BY <1>2, <1>3, <1>5, <2>1 DEF ChainInv, HeadersKnown
<1>7. HeadersNumbered'
  <2>1. \A i \in 1 .. Len(buffer) :
          buffer[i].number = buffer[1].number + i - 1 /\ buffer[i].number < nextBlock
    BY <1>3 DEF ChainInv, HeadersNumbered, Verified, Called
  <2>2. \A i \in 1 .. Len(buffer) : buffer[i].number \in Nat
    BY Typed
  <2>3. ASSUME NEW i \in 1 .. Len(buffer'), ~(pc' = "orphan" /\ i = Len(buffer'))
        PROVE  buffer'[i].number = buffer'[1].number + i - 1
    <3>1. CASE i = 1
      <4>1. 1 \in 1 .. Len(buffer') /\ buffer'[1].number \in Nat
        BY <1>1, <1>2, <1>4, <1>5, <2>2
      <4>2. QED BY <3>1, <4>1
    <3>2. CASE i # 1 /\ i < Len(buffer')
      <4>1. /\ i \in Nat /\ i + s \in 1 .. Len(buffer) /\ 1 + s \in 1 .. Len(buffer)
            /\ buffer'[i] = buffer[i + s] /\ buffer'[1] = buffer[1 + s]
        BY <1>1, <1>4, <1>5, <3>2
      <4>2. /\ buffer[i + s].number = buffer[1].number + (i + s) - 1
            /\ buffer[1 + s].number = buffer[1].number + (1 + s) - 1
        BY <2>1, <4>1
      <4>3. 1 \in 1 .. Len(buffer)
        BY <1>4, <4>1
      <4>4. buffer[1].number \in Nat
        BY <2>2, <4>3
      <4>5. s \in Int
        BY <1>1
      <4>6. PICK b \in Int : b = buffer[1].number
        BY <4>4
      <4>7. buffer'[i].number = (b + (i + s)) - 1 /\ buffer'[1].number = (b + (1 + s)) - 1
        BY <4>1, <4>2, <4>6
      <4>8. (b + (i + s)) - 1 = ((b + (1 + s)) - 1) + i - 1
        BY <4>1, <4>5, <4>6
      <4>9. QED BY <4>7, <4>8
    <3>3. CASE i # 1 /\ i = Len(buffer')
      <4>1. Len(buffer') >= 2 /\ pc' = "advance"
        BY <1>1, <1>2, <1>4, <2>3, <3>3
      <4>2. /\ buffer[Len(buffer)].number = nextBlock - 1 /\ Len(buffer) \in 1 .. Len(buffer)
            /\ 1 \in 1 .. Len(buffer)
        BY <1>2, <1>4, <4>1
      <4>3. buffer[Len(buffer)].number = buffer[1].number + Len(buffer) - 1
        BY <2>1, <4>2
      <4>4. /\ 1 + s \in 1 .. Len(buffer) /\ buffer'[1] = buffer[1 + s]
            /\ Len(buffer') - 1 + s = Len(buffer)
        BY <1>1, <1>4, <1>5, <4>1
      <4>5. buffer[1 + s].number = buffer[1].number + (1 + s) - 1
        BY <2>1, <4>4
      <4>6. buffer'[i].number = nextBlock /\ buffer[1].number \in Nat
        BY <1>1, <1>2, <2>2, <3>3, <4>2
      <4>7. s \in Int
        BY <1>1
      <4>8. PICK b \in Int : b = buffer[1].number
        BY <4>6
      <4>9. /\ nextBlock - 1 = b + Len(buffer) - 1 /\ buffer'[1].number = (b + (1 + s)) - 1
            /\ i = Len(buffer) + 1 - s
        <5>1. i = Len(buffer) + 1 - s
          BY <1>1, <3>3
        <5>2. nextBlock - 1 = b + Len(buffer) - 1
          BY <4>2, <4>3, <4>8
        <5>3. buffer'[1].number = (b + (1 + s)) - 1
          BY <4>4, <4>5, <4>8
        <5>4. QED BY <5>1, <5>2, <5>3
      <4>10. nextBlock = ((b + (1 + s)) - 1) + i - 1
        <5>1. PICK l \in Int : l = Len(buffer)
          BY <1>4
        <5>2. nextBlock = b + l /\ (b + (1 + s)) - 1 = b + s /\ i = l + 1 - s
          <6>1. nextBlock = b + l
            <7>1. nextBlock - 1 = (b + l) - 1
              BY <4>9, <5>1
            <7>2. QED BY <1>4, <4>8, <5>1, <7>1
          <6>2. (b + (1 + s)) - 1 = b + s
            BY <4>7, <4>8
          <6>3. i = l + 1 - s
            BY <4>9, <5>1
          <6>4. QED BY <6>1, <6>2, <6>3
        <5>3. b + l = (b + s) + (l + 1 - s) - 1
          BY <4>7, <4>8, <5>1
        <5>4. QED BY <5>2, <5>3
      <4>11. QED BY <4>6, <4>9, <4>10
    <3>4. QED BY <1>4, <2>3, <3>1, <3>2, <3>3
  <2>4. ASSUME NEW i \in 1 .. Len(buffer'), ~(pc' \in Called /\ i = Len(buffer'))
        PROVE  buffer'[i].number < nextBlock'
    <3>1. CASE i < Len(buffer')
      <4>1. buffer'[i].number < nextBlock /\ buffer'[i].number \in Nat
        BY <1>4, <1>5, <2>1, <2>2, <3>1
      <4>2. QED BY <1>2, <1>4, <4>1
    <3>2. CASE i = Len(buffer')
      <4>1. pc' = "block" /\ buffer'[i].number = nextBlock
        BY <1>1, <1>2, <2>4, <3>2 DEF Called
      <4>2. QED BY <1>2, <1>4, <4>1
    <3>3. QED BY <1>4, <3>1, <3>2
  <2>5. Len(buffer') <= Depth
    BY <1>1, <1>4
  <2>6. QED BY <2>3, <2>4, <2>5 DEF HeadersNumbered, Verified
<1>8. Position'
  <2>1. pc' = "block" => nextBlock' <= rangeEnd + 1
    BY <1>2, <1>3, <1>4
  <2>2. QED BY <1>2, <1>3, <2>1 DEF Position, InBlock, Called
<1>9. HashesUnique' /\ Settled'
  BY <1>3 DEF ChainInv, HashesUnique, Settled
<1>10. ReadsAgree'
  BY <1>1, <1>2, <1>3 DEF ChainInv, ReadsAgree, EventTimeOfBlock, OnChain
<1>11. ReadsComplete'
  BY <1>2, <1>3 DEF ChainInv, ReadsComplete, Called, Kept, CanonicalAt
<1>12. QED BY <1>6, <1>7, <1>8, <1>9, <1>10, <1>11 DEF ChainInv

LEMMA ChainInvEngine ==
  ASSUME IInv, IInv', ChainInv, Engine
  PROVE  ChainInv'
<1> USE DEF network, store, memory, history
<1>1. CASE OnNewBlock
  BY <1>1, ChainInvOnNewBlock
<1>2. ASSUME pc \in Called,
             (pc' = "block" /\ nextBlock' = nextBlock + 1)
               \/ (pc' = "checkpoint" /\ nextBlock' = nextBlock),
             UNCHANGED <<chain, minted, torn, live, rangeEnd, logs>>
      PROVE  Position'
  BY <1>2, Typed DEF ChainInv, Position, InBlock, Called
<1>3. CASE AdvanceLifecycle
  <2>1. /\ UNCHANGED <<chain, minted, torn, checkpoint, buffer, live, rangeEnd, logs, nextBlock>>
        /\ pc = "advance" /\ pc' = "checkpoint"
    BY <1>3 DEF AdvanceLifecycle
  <2>2. HashesUnique' /\ HeadersKnown' /\ HeadersNumbered' /\ Position'
    BY <1>2, <2>1 DEF ChainInv, HashesUnique, HeadersKnown, HeadersNumbered, Verified, Called
  <2>3. ASSUME NEW t \in Txs
        PROVE  /\ facts'[t].block = facts[t].block /\ facts'[t].hash = facts[t].hash
               /\ facts'[t].time = facts[t].time
               /\ facts[t].status # Absent => facts'[t].status # Absent
               /\ facts'[t].status = Finalized =>
                    facts[t].status = Finalized \/ facts[t].block + Depth <= nextBlock
    BY <1>3, AdvanceEffect
  <2>4. Settled'
    <3>1. nextBlock <= Len(chain)
      BY <2>1, Typed DEF ChainInv, Position, InBlock, Called
    <3>2. ASSUME NEW t \in Txs, facts'[t].status = Finalized
          PROVE  facts'[t].block + Depth <= Len(chain)
      <4>1. /\ facts[t].block \in Nat /\ nextBlock \in Nat /\ Len(chain) \in Nat
            /\ Depth \in Nat
        BY Typed
      <4>2. facts[t].status = Finalized => facts[t].block + Depth <= Len(chain)
        BY DEF ChainInv, Settled
      <4>3. QED BY <2>3, <3>1, <3>2, <4>1, <4>2
    <3>3. QED BY <2>1, <3>2 DEF ChainInv, Settled
  <2>5. ReadsAgree'
    BY <2>1, <2>3 DEF ChainInv, ReadsAgree, EventTimeOfBlock, OnChain, Called
  <2>6. ReadsComplete'
    <3>1. CanonicalAt(nextBlock) \subseteq Txs
      BY HeaderAtType, Typed DEF IInv
    <3>2. QED BY <2>1, <2>3, <3>1 DEF ChainInv, ReadsComplete, Called, Kept, CanonicalAt
  <2>7. QED BY <2>2, <2>4, <2>5, <2>6 DEF ChainInv
<1>4. CASE SaveCheckpoint
  <2>1. /\ UNCHANGED <<chain, minted, torn, facts, buffer, live, rangeEnd, logs>>
        /\ pc = "checkpoint" /\ pc' = "block" /\ nextBlock' = nextBlock + 1
        /\ checkpoint' = checkpoint \/ checkpoint' = nextBlock - Depth
    BY <1>4 DEF SaveCheckpoint, NextBlock
  <2>2. nextBlock <= Len(chain) /\ buffer[Len(buffer)].number = nextBlock /\ Len(buffer) >= 2
    BY <2>1, Typed DEF ChainInv, Position, InBlock, Called, IInv, HeaderWindow
  <2>3. HashesUnique' /\ HeadersKnown' /\ Position'
    BY <1>2, <2>1 DEF ChainInv, HashesUnique, HeadersKnown, Called
  <2>4. HeadersNumbered'
    <3>1. ASSUME NEW i \in 1 .. Len(buffer) PROVE buffer[i].number < nextBlock + 1
      <4>1. CASE i = Len(buffer)
        BY <2>2, <4>1, Typed
      <4>2. CASE i # Len(buffer)
        <5>1. buffer[i].number < nextBlock /\ buffer[i].number \in Nat
          BY <2>1, <4>2, Typed DEF ChainInv, HeadersNumbered
        <5>2. QED BY <5>1, Typed
      <4>3. QED BY <4>1, <4>2
    <3>2. QED BY <2>1, <3>1 DEF ChainInv, HeadersNumbered, Verified, Called
  <2>5. Settled'
    <3>1. nextBlock - Depth + Depth <= Len(chain)
      BY <2>2, Typed
    <3>2. QED BY <2>1, <3>1 DEF ChainInv, Settled
  <2>6. ReadsAgree' /\ ReadsComplete'
    BY <2>1 DEF ChainInv, ReadsAgree, ReadsComplete, EventTimeOfBlock, Called
  <2>7. QED BY <2>3, <2>4, <2>5, <2>6 DEF ChainInv
<1>5. CASE HandleReorg
  <2>1. /\ UNCHANGED <<chain, minted, torn, checkpoint, live, rangeEnd, logs>>
        /\ pc = "orphan" /\ pc' = "block" /\ nextBlock' = nextBlock + 1
    BY <1>5 DEF HandleReorg, NextBlock
  <2>2. /\ Len(buffer') = Len(buffer) - 1 /\ Len(buffer) >= 2
        /\ \A i \in 1 .. Len(buffer) - 1 : buffer'[i] = buffer[i]
    BY <1>5, PopEffect
  <2>3. ASSUME NEW i \in 1 .. Len(buffer')
        PROVE  i \in 1 .. Len(buffer) /\ i # Len(buffer) /\ buffer'[i] = buffer[i]
               /\ buffer'[1] = buffer[1]
    BY <2>2, Typed
  <2>4. HashesUnique' /\ HeadersKnown' /\ Position'
    BY <1>2, <2>1, <2>3 DEF ChainInv, HashesUnique, HeadersKnown, Called
  <2>5. HeadersNumbered'
    <3>1. ASSUME NEW i \in 1 .. Len(buffer')
          PROVE  /\ buffer'[i].number = buffer'[1].number + i - 1
                 /\ buffer'[i].number < nextBlock + 1
      <4>1. /\ buffer[i].number = buffer[1].number + i - 1
            /\ buffer[i].number < nextBlock /\ buffer[i].number \in Nat
        BY <2>3, Typed DEF ChainInv, HeadersNumbered, Verified
      <4>2. nextBlock \in Nat
        BY Typed
      <4>3. buffer'[1].number = buffer[1].number /\ buffer'[i].number = buffer[i].number
        BY <2>3
      <4>4. QED BY <4>1, <4>2, <4>3
    <3>2. Len(buffer') <= Depth
      BY <2>2, Typed DEF ChainInv, HeadersNumbered
    <3>3. QED BY <2>1, <3>1, <3>2 DEF HeadersNumbered
  <2>6. ASSUME NEW t \in Txs
        PROVE  /\ facts'[t].block = facts[t].block /\ facts'[t].hash = facts[t].hash
               /\ facts'[t].time = facts[t].time
               /\ facts'[t].status = Finalized => facts[t].status = Finalized
    BY <1>5, OrphanEffect
  <2>7. Settled'
    BY <2>1, <2>6 DEF ChainInv, Settled
  <2>8. ReadsAgree' /\ ReadsComplete'
    BY <2>1, <2>6 DEF ChainInv, ReadsAgree, ReadsComplete, EventTimeOfBlock, Called
  <2>9. QED BY <2>4, <2>5, <2>7, <2>8 DEF ChainInv
<1>6. QED BY <1>1, <1>3, <1>4, <1>5 DEF Engine

LEMMA ChainInvStep == IInv /\ IInv' /\ ChainInv /\ [Next]_vars => ChainInv'
<1> SUFFICES ASSUME IInv, IInv', ChainInv, [Next]_vars PROVE ChainInv'
  OBVIOUS
<1>1. CASE Crash
  BY <1>1, ChainInvOff DEF Crash
<1>2. CASE UNCHANGED vars
  BY <1>2 DEF vars, network, store, memory, history, ChainInv, HashesUnique, HeadersKnown,
              HeadersNumbered, Position, Settled, ReadsAgree, ReadsComplete, EventTimeOfBlock,
              OnChain, Kept, CanonicalAt, Verified
<1>3. QED BY <1>1, <1>2, ChainInvNetwork, ChainInvOperator, ChainInvCollect, ChainInvEngine DEF Next

THEOREM ChainInvHolds == Spec => []ChainInv
BY InvariantHolds, ChainInvInit, ChainInvStep, PTL DEF Spec

(* While no block was replaced between two reads of it, every fact has the  *)
(* event time of the block its hash names, although header and logs are     *)
(* read by separate calls: for any depth, replays, crashes and further      *)
(* reorganisations.                                                         *)
THEOREM EventTimesAgree == Spec => []EventTimeOfBlock
<1>1. ChainInv => EventTimeOfBlock
  BY DEF ChainInv, ReadsAgree, EventTimeOfBlock
<1>2. QED BY ChainInvHolds, <1>1, PTL

-----------------------------------------------------------------------------
(* Finality.  The reorganisations the network makes are at most as deep as  *)
(* the confirmation depth the operator configured for it.                   *)
ShallowReorgs == MaxReorg <= Depth

(* Steps of the process that leave the store, the chain and the buffer.     *)
LEMMA CanonicalQuiet ==
  ASSUME IInv, ChainInv, StoreCanonical, FirstStart,
         UNCHANGED <<chain, torn, facts, buffer, starts>>,
         pc # "down", pc # "orphan", RowsBehind' \/ pc' = "down"
  PROVE  StoreCanonical'
<1>1. FirstStart /\ starts # 0
  BY DEF StoreCanonical
<1>2. BufferVouches => BufferVouches'
  BY DEF BufferVouches, Verified, OnChain, Vouches
<1>3. QED BY <1>1, <1>2 DEF StoreCanonical, FirstStart

LEMMA CanonicalNetwork ==
  ASSUME ShallowReorgs, IInv, IInv', ChainInv, StoreCanonical, FirstStart', Network
  PROVE  StoreCanonical'
<1>1. HashesUnique
  BY DEF ChainInv
<1>2. PICK k \in Nat : KeepsTo(k)
  BY <1>1, NetworkEffect
<1>3. UNCHANGED <<facts, checkpoint, pc, live, stop, nextBlock, rangeEnd, header, filter, logs,
                  buffer, starts, origin>>
  BY <1>2 DEF KeepsTo
<1>4. /\ \A n \in Int : n <= k => HashAt(chain', n) = HashAt(chain, n)
      /\ \A n \in Int : \A h \in 1 .. minted : HashAt(chain', n) = h =>
           n <= k /\ HashAt(chain, n) = h
  BY <1>1, <1>2, KeptHashes
<1>5. FirstStart /\ StoreCanonical /\ (pc \in InBlock => nextBlock <= k)
  <2>1. FirstStart
    BY <1>2, <1>3 DEF KeepsTo, FirstStart
  <2>2. pc \in InBlock => nextBlock <= Len(chain) /\ ~(k < Len(chain))
    <3>1. k < Len(chain) => torn' \/ pc \in BetweenBlocks
      BY <1>2 DEF KeepsTo
    <3>2. pc \in InBlock => nextBlock <= Len(chain) /\ pc \notin BetweenBlocks
      BY Typed DEF ChainInv, Position, InBlock, Called, BetweenBlocks
    <3>3. QED BY <3>1, <3>2 DEF FirstStart
  <2>3. Len(chain) \in Nat /\ nextBlock \in Nat /\ k \in Nat
    BY Typed
  <2>4. QED BY <2>1, <2>2, <2>3
<1>6. ASSUME NEW t \in Txs, facts[t].status = Finalized
      PROVE  facts[t].hash = HashAt(chain', facts[t].block)
  <2>1. facts[t].block + Depth <= Len(chain) /\ Len(chain) <= k + MaxReorg
    BY <1>2, <1>6 DEF ChainInv, Settled, KeepsTo
  <2>2. facts[t].block <= k
    <3>1. /\ facts[t].block \in Nat /\ Depth \in Nat /\ MaxReorg \in Nat /\ Len(chain) \in Nat
      BY Typed
    <3>2. QED BY <2>1, <3>1 DEF ShallowReorgs
  <2>3. facts[t].hash = HashAt(chain, facts[t].block)
    BY <1>5, <1>6 DEF StoreCanonical
  <2>4. QED BY <1>4, <2>2, <2>3, Typed
<1>7. RowsBehind => RowsBehind'
  <2>1. pc \in InBlock => HashAt(chain', nextBlock) = HashAt(chain, nextBlock)
    BY <1>4, <1>5, Typed
  <2>2. QED BY <1>3, <2>1 DEF RowsBehind
<1>8. BufferVouches => BufferVouches'
  <2>1. SUFFICES ASSUME BufferVouches, NEW i \in 1 .. Len(buffer), Verified(i),
                        buffer[i].hash = HashAt(chain', buffer[i].number)
                 PROVE  Vouches(buffer[i])'
    BY <1>3 DEF BufferVouches, Verified, OnChain
  <2>2. buffer[i].number \in Int /\ buffer[i].hash \in 1 .. minted
    BY Typed DEF ChainInv, HeadersKnown
  <2>3. buffer[i].number <= k /\ OnChain(buffer[i])
    <3>1. PICK n \in Int, h \in 1 .. minted : n = buffer[i].number /\ h = buffer[i].hash
      BY <2>2
    <3>2. HashAt(chain', n) = h
      BY <2>1, <3>1
    <3>3. n <= k /\ HashAt(chain, n) = h
      BY <1>4, <3>1, <3>2
    <3>4. QED BY <3>1, <3>3 DEF OnChain
  <2>4. Vouches(buffer[i])
    BY <2>1, <2>3 DEF BufferVouches
  <2>5. ASSUME NEW t \in Txs, facts[t].status # Absent, facts[t].block <= buffer[i].number
        PROVE  facts[t].hash = HashAt(chain', facts[t].block)
    <3>1. facts[t].hash = HashAt(chain, facts[t].block)
      BY <2>4, <2>5 DEF Vouches
    <3>2. facts[t].block \in Int /\ facts[t].block <= k
      <4>1. facts[t].block \in Int
        BY Typed
      <4>2. QED BY <2>2, <2>3, <2>5, <4>1
    <3>3. QED BY <1>4, <3>1, <3>2
  <2>6. QED BY <1>3, <2>5 DEF Vouches
<1>9. QED BY <1>3, <1>5, <1>6, <1>7, <1>8 DEF StoreCanonical

LEMMA CanonicalOff ==
  ASSUME StoreCanonical, FirstStart, pc # "down", pc' = "down", buffer' = <<>>,
         UNCHANGED <<chain, torn, facts, starts>>
  PROVE  StoreCanonical'
<1>1. BufferVouches'
  BY DEF BufferVouches
<1>2. QED BY <1>1 DEF StoreCanonical, FirstStart

LEMMA CanonicalCollect ==
  ASSUME IInv, IInv', ChainInv, StoreCanonical, FirstStart, Operator \/ Crash \/ Collect
  PROVE  FirstStart' => StoreCanonical'
<1> SUFFICES ASSUME FirstStart' PROVE StoreCanonical'
  OBVIOUS
<1> USE DEF network, store, history
<1>0. /\ nextBlock \in Nat /\ rangeEnd \in Nat /\ Len(chain) \in Nat
      /\ \A t \in Txs : facts[t].block \in Nat
      /\ pc # "down" => RowsBehind
  BY Typed DEF StoreCanonical
<1>1. ASSUME NEW from \in StartArgs, NEW to \in EndArgs, Start(from, to)
      PROVE  StoreCanonical'
  <2>1. starts = 0 /\ starts' = 1
    BY <1>1, Typed DEF Start, FirstStart
  <2>2. \A t \in Txs : facts'[t].status = Absent
    BY <1>1, <2>1 DEF Start, StoreCanonical
  <2>3. RowsBehind' /\ BufferVouches'
    BY <2>2 DEF RowsBehind, BufferVouches, Vouches
  <2>4. QED BY <2>1, <2>2, <2>3 DEF StoreCanonical, Absent, Finalized
<1>2. CASE RequestStop
  <2>1. UNCHANGED <<chain, torn, facts, buffer, starts, pc, nextBlock>> /\ pc # "down"
    BY <1>2 DEF RequestStop
  <2>2. RowsBehind' /\ (BufferVouches => BufferVouches')
    BY <1>0, <2>1 DEF RowsBehind, BufferVouches, Vouches, Verified, OnChain
  <2>3. QED BY <2>1, <2>2 DEF StoreCanonical, FirstStart
<1>3. CASE Crash \/ StopPolling \/ MissingBlock \/ (EndRange /\ ~live)
  <2>1. /\ pc # "down" /\ pc' = "down" /\ buffer' = <<>>
        /\ UNCHANGED <<chain, torn, facts, starts>>
    BY <1>3 DEF Crash, StopPolling, MissingBlock, EndRange, Off
  <2>2. QED BY <2>1, CanonicalOff
<1>4. CASE PollHead \/ (EndRange /\ live) \/ ReadHeader \/ ReadLogs \/ BlockStored
  <2>1. /\ UNCHANGED <<chain, torn, facts, buffer, starts>> /\ pc \notin {"down", "orphan"}
        /\ nextBlock' >= nextBlock
        /\ \/ pc \in {"head", "block"} /\ pc' \in {"head", "block", "logs"}
           \/ /\ pc \in {"logs", "facts"} /\ pc' \in {"logs", "facts", "finality"}
              /\ nextBlock' = nextBlock /\ (pc = "facts" => pc' # "logs")
    <3>1. CASE PollHead
      BY <1>0, <3>1 DEF PollHead
    <3>2. CASE EndRange /\ live
      <4>1. pc = "block" /\ pc' = "head" /\ nextBlock' = rangeEnd + 1
            /\ UNCHANGED <<chain, torn, facts, buffer, starts>>
        BY <3>2 DEF EndRange
      <4>2. nextBlock <= rangeEnd + 1
        BY <3>2, <4>1 DEF ChainInv, Position
      <4>3. QED BY <1>0, <4>1, <4>2
    <3>3. CASE ReadHeader
      BY <1>0, <3>3 DEF ReadHeader
    <3>4. CASE ReadLogs
      BY <1>0, <3>4 DEF ReadLogs
    <3>5. CASE BlockStored
      BY <1>0, <3>5 DEF BlockStored, memory
    <3>6. QED BY <1>4, <3>1, <3>2, <3>3, <3>4, <3>5
  <2>2. RowsBehind
    BY <1>0, <2>1
  <2>3. nextBlock' \in Nat
    BY DEF IInv, TypeOK
  <2>4. CASE pc \in {"head", "block"} /\ pc' \in {"head", "block", "logs"}
    <3>1. ASSUME NEW t \in Txs, facts[t].status # Absent
          PROVE  facts[t].block < nextBlock' /\ buffer # <<>> /\ facts[t].block # nextBlock'
      <4>1. facts[t].block < nextBlock /\ (buffer = <<>> => facts[t].block >= nextBlock)
        BY <2>2, <2>4, <3>1 DEF RowsBehind
      <4>2. QED BY <1>0, <2>1, <2>3, <4>1
    <3>2. RowsBehind'
      BY <1>0, <2>1, <2>3, <3>1 DEF RowsBehind
    <3>3. QED BY <2>1, <3>2, CanonicalQuiet
  <2>5. CASE pc \in {"logs", "facts"} /\ nextBlock' = nextBlock
    <3>1. RowsBehind'
      BY <1>0, <2>1, <2>2, <2>5 DEF RowsBehind, InBlock
    <3>2. QED BY <2>1, <3>1, CanonicalQuiet
  <2>6. QED BY <2>1, <2>4, <2>5
<1>5. ASSUME NEW log \in logs, HandleLog(log) PROVE StoreCanonical'
  <2>1. /\ UNCHANGED <<chain, torn, buffer, starts, pc, nextBlock>> /\ pc = "facts"
        /\ header = HashAt(chain, nextBlock) /\ log.hash = header
    BY <1>5 DEF HandleLog, ChainInv, ReadsAgree, FirstStart
  <2>2. \A t \in Txs :
          \/ facts'[t] = facts[t]
          \/ /\ facts'[t].block = nextBlock /\ facts'[t].hash = HashAt(chain, nextBlock)
             /\ facts'[t].status = Pending
    <3>1. \A t \in Txs : \/ facts'[t] = facts[t]
                        \/ facts'[t] = NewFact(nextBlock, log.hash, header)
      BY <1>5, HandleLogRows
    <3>2. QED BY <2>1, <3>1 DEF NewFact
  <2>3. RowsBehind'
    BY <1>0, <2>1, <2>2 DEF RowsBehind
  <2>4. BufferVouches => BufferVouches'
    <3>1. \A i \in 1 .. Len(buffer) : buffer[i].number < nextBlock /\ buffer[i].number \in Nat
      BY <2>1, Typed DEF ChainInv, HeadersNumbered, Called
    <3>2. SUFFICES ASSUME BufferVouches, NEW i \in 1 .. Len(buffer), OnChain(buffer[i])
                   PROVE  Vouches(buffer[i])'
      BY <2>1 DEF BufferVouches, OnChain
    <3>3. Vouches(buffer[i])
      BY <2>1, <3>2 DEF BufferVouches, Verified
    <3>4. ASSUME NEW t \in Txs, facts'[t].status # Absent, facts'[t].block <= buffer[i].number
          PROVE  facts'[t].hash = HashAt(chain, facts'[t].block)
      <4>1. facts'[t].block # nextBlock
        BY <1>0, <3>1, <3>4
      <4>2. facts'[t] = facts[t]
        BY <2>2, <4>1
      <4>3. QED BY <3>3, <3>4, <4>2 DEF Vouches
    <3>5. QED BY <2>1, <3>4 DEF Vouches
  <2>5. \A t \in Txs : facts'[t].status = Finalized =>
          facts'[t].hash = HashAt(chain, facts'[t].block)
    BY <2>2 DEF StoreCanonical, Pending, Finalized
  <2>6. QED BY <2>1, <2>3, <2>4, <2>5 DEF StoreCanonical, FirstStart
<1>6. QED BY <1>1, <1>2, <1>3, <1>4, <1>5 DEF Operator, Collect

LEMMA CanonicalOnNewBlock ==
  ASSUME IInv, IInv', ChainInv, StoreCanonical, FirstStart, OnNewBlock
  PROVE  StoreCanonical'
<1>1. PICK s \in {0, 1} :
           /\ Len(buffer') = Len(buffer) + 1 - s
           /\ Len(buffer') \in 1 .. Depth
           /\ \A i \in 1 .. Len(buffer') - 1 : buffer'[i] = buffer[i + s]
           /\ buffer'[Len(buffer')] = HeaderAt(nextBlock)
           /\ s = 1 => Len(buffer) = Depth
  BY PushEffect
<1>2. /\ pc' \in {"block", "advance", "orphan"}
      /\ pc' = "block" <=> Len(buffer') < 2
      /\ nextBlock' = IF pc' = "block" THEN nextBlock + 1 ELSE nextBlock
      /\ HeaderAt(nextBlock).number = nextBlock
      /\ pc' = "advance" =>
              /\ Len(buffer) >= 1
              /\ buffer[Len(buffer)].number = nextBlock - 1
              /\ OnChain(buffer[Len(buffer)])
  BY PushLinks
<1>3. /\ pc = "finality" /\ UNCHANGED <<chain, torn, facts, starts>>
  BY DEF OnNewBlock, network, store, history
<1>4. /\ Len(buffer) \in Nat /\ nextBlock \in Nat /\ Depth \in Nat
      /\ \A t \in Txs : facts[t].block \in Nat
  BY Typed
<1>5. starts # 0 /\ RowsBehind /\ (Depth >= 2 => BufferVouches)
      /\ \A t \in Txs : facts[t].status = Finalized =>
           facts[t].hash = HashAt(chain, facts[t].block)
  BY <1>3 DEF StoreCanonical
<1>6. buffer' # <<>>
  <2>1. Len(<<>>) = 0 /\ Len(buffer') # 0
    BY <1>1, <1>4
  <2>2. QED BY <2>1
<1>7. RowsBehind'
  <2>1. SUFFICES ASSUME NEW t \in Txs, facts[t].status # Absent
                 PROVE  /\ facts[t].block <= nextBlock'
                        /\ pc' = "block" => facts[t].block < nextBlock'
                        /\ pc' # "block" /\ facts[t].block = nextBlock' =>
                             facts[t].hash = HashAt(chain, nextBlock')
    BY <1>2, <1>3, <1>6 DEF RowsBehind, InBlock, Called
  <2>2. facts[t].block <= nextBlock
        /\ (facts[t].block = nextBlock => facts[t].hash = HashAt(chain, nextBlock))
    BY <1>3, <1>5, <2>1 DEF RowsBehind, InBlock
  <2>3. CASE pc' = "block"
    BY <1>2, <1>4, <2>2, <2>3
  <2>4. CASE pc' # "block"
    BY <1>2, <1>4, <2>2, <2>4
  <2>5. QED BY <2>3, <2>4
<1>8. ASSUME Depth >= 2 PROVE BufferVouches'
  <2>1. SUFFICES ASSUME NEW i \in 1 .. Len(buffer'), ~(pc' = "orphan" /\ i = Len(buffer')),
                        OnChain(buffer'[i])
                 PROVE  Vouches(buffer'[i])
    BY <1>3 DEF BufferVouches, Verified, OnChain, Vouches
  <2>2. CASE i # Len(buffer')
    <3>1. i + s \in 1 .. Len(buffer) /\ buffer'[i] = buffer[i + s]
      BY <1>1, <1>4, <2>2
    <3>2. Verified(i + s)
      BY <1>3 DEF Verified
    <3>3. QED BY <1>5, <1>8, <2>1, <3>1, <3>2 DEF BufferVouches
  <2>3. CASE i = Len(buffer')
    <3>1. buffer'[i].number = nextBlock
      BY <1>1, <1>2, <2>3
    <3>2. SUFFICES ASSUME NEW t \in Txs, facts[t].status # Absent, facts[t].block <= nextBlock
                   PROVE  facts[t].hash = HashAt(chain, facts[t].block)
      BY <3>1 DEF Vouches
    <3>3. CASE facts[t].block = nextBlock
      BY <1>3, <1>5, <3>2, <3>3 DEF RowsBehind, InBlock
    <3>4. CASE facts[t].block # nextBlock
      <4>1. facts[t].block < nextBlock /\ facts[t].block <= nextBlock - 1
        BY <1>4, <3>2, <3>4
      <4>2. buffer # <<>>
        BY <1>4, <1>5, <3>2, <4>1 DEF RowsBehind
      <4>3. pc' = "advance"
        <5>1. Len(buffer) # 0
          BY <4>2, Typed
        <5>2. ~(Len(buffer') < 2)
          BY <1>1, <1>4, <1>8, <5>1
        <5>3. QED BY <1>2, <2>1, <2>3, <5>2
      <4>4. /\ Len(buffer) \in 1 .. Len(buffer) /\ Verified(Len(buffer))
            /\ OnChain(buffer[Len(buffer)]) /\ buffer[Len(buffer)].number = nextBlock - 1
        BY <1>2, <1>3, <1>4, <4>3 DEF Verified
      <4>5. Vouches(buffer[Len(buffer)])
        BY <1>5, <1>8, <4>4 DEF BufferVouches
      <4>6. QED BY <3>2, <4>1, <4>4, <4>5 DEF Vouches
    <3>5. QED BY <3>3, <3>4
  <2>4. QED BY <2>2, <2>3
<1>9. QED BY <1>3, <1>5, <1>7, <1>8 DEF StoreCanonical, FirstStart

LEMMA CanonicalEngine ==
  ASSUME IInv, IInv', ChainInv, StoreCanonical, FirstStart, Engine
  PROVE  StoreCanonical'
<1> USE DEF network, store, memory, history
<1>0. /\ nextBlock \in Nat /\ Len(buffer) \in Nat /\ Depth \in Nat
      /\ \A t \in Txs : facts[t].block \in Nat
  BY Typed
<1>1. ASSUME pc \in Called,
             \A t \in Txs : /\ facts'[t].block = facts[t].block
                            /\ facts'[t].hash = facts[t].hash
                            /\ facts'[t].status # Absent => facts[t].status # Absent
                            /\ facts'[t].status = Finalized =>
                                 facts[t].hash = HashAt(chain, facts[t].block),
             UNCHANGED <<chain, torn, starts>>,
             (pc' = "block" /\ nextBlock' = nextBlock + 1)
               \/ (pc' = "checkpoint" /\ nextBlock' = nextBlock),
             buffer' # <<>>,
             \A i \in 1 .. Len(buffer') :
               i \in 1 .. Len(buffer) /\ buffer'[i] = buffer[i] /\ Verified(i)
      PROVE  StoreCanonical'
  <2>1. starts # 0 /\ RowsBehind /\ (Depth >= 2 => BufferVouches)
    BY <1>1 DEF StoreCanonical, Called
  <2>2. RowsBehind'
    <3>1. SUFFICES ASSUME NEW t \in Txs, facts'[t].status # Absent
                   PROVE  /\ facts[t].block <= nextBlock'
                          /\ pc' = "block" => facts[t].block < nextBlock'
                          /\ pc' # "block" /\ facts[t].block = nextBlock' =>
                               facts[t].hash = HashAt(chain, nextBlock')
      BY <1>1 DEF RowsBehind, InBlock, Called
    <3>2. facts[t].block <= nextBlock
          /\ (facts[t].block = nextBlock => facts[t].hash = HashAt(chain, nextBlock))
      BY <1>1, <2>1, <3>1 DEF RowsBehind, InBlock
    <3>3. QED BY <1>0, <1>1, <3>2
  <2>3. BufferVouches => BufferVouches'
    <3>1. SUFFICES ASSUME BufferVouches, NEW i \in 1 .. Len(buffer'), OnChain(buffer'[i])
                   PROVE  Vouches(buffer[i])'
      BY <1>1 DEF BufferVouches, OnChain, Vouches
    <3>2. Vouches(buffer[i]) /\ buffer'[i] = buffer[i]
      BY <1>1, <3>1 DEF BufferVouches
    <3>3. QED BY <1>1, <3>2 DEF Vouches
  <2>4. QED BY <1>1, <2>1, <2>2, <2>3 DEF StoreCanonical, FirstStart
<1>2. CASE OnNewBlock
  BY <1>2, CanonicalOnNewBlock
<1>3. ASSUME NEW t \in Txs, facts[t].status = Finalized
      PROVE  facts[t].hash = HashAt(chain, facts[t].block)
  BY <1>3 DEF StoreCanonical
<1>4. ASSUME pc \in Called
      PROVE  /\ Len(buffer) \in 1 .. Len(buffer) /\ buffer # <<>> /\ Depth >= 2
             /\ buffer[Len(buffer)].number = nextBlock
             /\ OnChain(buffer[Len(buffer)])
  <2>1. Len(buffer) >= 2 /\ buffer[Len(buffer)].number = nextBlock
    BY <1>4 DEF IInv, HeaderWindow, Called
  <2>2. Len(buffer) <= Depth /\ OnChain(buffer[Len(buffer)])
    BY <1>4 DEF ChainInv, HeadersNumbered, ReadsAgree, FirstStart
  <2>3. Len(<<>>) = 0
    OBVIOUS
  <2>4. QED BY <1>0, <2>1, <2>2, <2>3
<1>5. CASE AdvanceLifecycle
  <2>1. /\ UNCHANGED <<chain, torn, starts, buffer>> /\ nextBlock' = nextBlock
        /\ pc = "advance" /\ pc' = "checkpoint"
    BY <1>5 DEF AdvanceLifecycle
  <2>2. Vouches(buffer[Len(buffer)])
    BY <1>4, <2>1 DEF StoreCanonical, BufferVouches, Verified, Called
  <2>3. ASSUME NEW t \in Txs
        PROVE  /\ facts'[t].block = facts[t].block
               /\ facts'[t].hash = facts[t].hash
               /\ facts'[t].status # Absent => facts[t].status # Absent
               /\ facts'[t].status = Finalized =>
                    facts[t].status = Finalized \/ facts[t].block + Depth <= nextBlock
    BY <1>5, AdvanceEffect
  <2>4. ASSUME NEW t \in Txs, facts'[t].status = Finalized
        PROVE  facts[t].hash = HashAt(chain, facts[t].block)
    <3>1. CASE facts[t].status = Finalized
      BY <1>3, <3>1
    <3>2. CASE facts[t].block + Depth <= nextBlock
      <4>1. facts[t].block <= nextBlock /\ facts[t].status # Absent
        BY <1>0, <2>3, <2>4, <3>2 DEF Finalized, Absent
      <4>2. QED BY <1>4, <2>1, <2>2, <4>1 DEF Vouches, Called
    <3>3. QED BY <2>3, <2>4, <3>1, <3>2
  <2>5. \A i \in 1 .. Len(buffer') : Verified(i) /\ buffer'[i] = buffer[i] /\ i \in 1 .. Len(buffer)
    BY <2>1 DEF Verified
  <2>6. QED BY <1>1, <1>4, <2>1, <2>3, <2>4, <2>5 DEF Called
<1>6. CASE SaveCheckpoint
  <2>1. /\ UNCHANGED <<chain, torn, starts, facts, buffer>> /\ nextBlock' = nextBlock + 1
        /\ pc = "checkpoint" /\ pc' = "block"
    BY <1>6 DEF SaveCheckpoint, NextBlock
  <2>2. \A i \in 1 .. Len(buffer') : Verified(i) /\ buffer'[i] = buffer[i] /\ i \in 1 .. Len(buffer)
    BY <2>1 DEF Verified
  <2>3. QED BY <1>1, <1>3, <1>4, <2>1, <2>2 DEF Called
<1>7. CASE HandleReorg
  <2>1. /\ UNCHANGED <<chain, torn, starts>> /\ nextBlock' = nextBlock + 1
        /\ pc = "orphan" /\ pc' = "block"
    BY <1>7 DEF HandleReorg, NextBlock
  <2>2. /\ Len(buffer') = Len(buffer) - 1 /\ Len(buffer) >= 2
        /\ \A i \in 1 .. Len(buffer) - 1 : buffer'[i] = buffer[i]
    BY <1>7, PopEffect
  <2>3. \A i \in 1 .. Len(buffer') : Verified(i) /\ buffer'[i] = buffer[i] /\ i \in 1 .. Len(buffer)
    BY <1>0, <2>2 DEF Verified
  <2>4. buffer' # <<>>
    <3>1. Len(<<>>) = 0 /\ Len(buffer') # 0
      BY <1>0, <2>2
    <3>2. QED BY <3>1
  <2>5. ASSUME NEW t \in Txs
        PROVE  /\ facts'[t].block = facts[t].block
               /\ facts'[t].hash = facts[t].hash
               /\ facts'[t].status # Absent => facts[t].status # Absent
               /\ facts'[t].status = Finalized => facts[t].status = Finalized
    BY <1>7, OrphanEffect
  <2>6. QED BY <1>1, <1>3, <2>1, <2>3, <2>4, <2>5 DEF Called
<1>8. QED BY <1>2, <1>5, <1>6, <1>7 DEF Engine

LEMMA CanonicalInit == Init => StoreCanonical
BY DEF Init, StoreCanonical, BufferVouches, NoRow, Absent, Finalized

LEMMA CanonicalStep ==
  ShallowReorgs /\ IInv /\ IInv' /\ ChainInv /\ StoreCanonical /\ [Next]_vars => StoreCanonical'
<1> SUFFICES ASSUME ShallowReorgs, IInv, IInv', ChainInv, StoreCanonical, [Next]_vars, FirstStart'
             PROVE  StoreCanonical'
  BY DEF StoreCanonical
<1>1. CASE Network
  BY <1>1, CanonicalNetwork
<1>2. CASE ~Network
  <2>1. FirstStart
    <3>1. torn' = torn /\ (starts' = starts \/ starts' = starts + 1)
      BY <1>2 DEF Next, Operator, Start, RequestStop, Crash, Collect, PollHead, StopPolling, EndRange,
         ReadHeader, MissingBlock, ReadLogs, HandleLog, BlockStored, Engine, OnNewBlock,
         AdvanceLifecycle, SaveCheckpoint, HandleReorg, vars, network, history
    <3>2. starts \in Nat
      BY Typed
    <3>3. QED BY <3>1, <3>2 DEF FirstStart
  <2>2. CASE UNCHANGED vars
    BY <2>2 DEF StoreCanonical, FirstStart, RowsBehind, BufferVouches, Vouches, Verified, OnChain,
                vars, network, store, memory, history
  <2>3. QED BY <1>2, <2>1, <2>2, CanonicalCollect, CanonicalEngine DEF Next
<1>3. QED BY <1>1, <1>2

(* In the first start of the process, and while no block is replaced        *)
(* between two reads of it, a FINALIZED fact is in a block of the canonical *)
(* chain - provided reorganisations are no deeper than the confirmation     *)
(* depth, which is what the depth is for.                                   *)
THEOREM FinalizedAreCanonical ==
  ASSUME ShallowReorgs
  PROVE  Spec => []FinalizedIsCanonical
<1>1. IInv /\ IInv' /\ ChainInv /\ StoreCanonical /\ [Next]_vars => StoreCanonical'
  BY CanonicalStep
<1>2. StoreCanonical => FinalizedIsCanonical
  BY DEF StoreCanonical, FirstStart, FinalizedIsCanonical
<1>3. QED BY InvariantHolds, ChainInvHolds, CanonicalInit, <1>1, <1>2, PTL DEF Spec

-----------------------------------------------------------------------------
(* The checkpoint, when the operator replays no range: every start goes on  *)
(* from the checkpoint, or at the head of the chain before there is one.    *)
NoReplay == StartArgs = {NoBlock}

(* A process that is up never goes back, except that it ends.               *)
LEMMA NeverBack ==
  ASSUME IInv, ChainInv, [Next]_vars, pc # "down", pc' # "down"
  PROVE  nextBlock' >= nextBlock
<1> USE DEF network, store, memory, history
<1>1. nextBlock \in Nat /\ rangeEnd \in Nat
  BY DEF IInv, TypeOK
<1>2. CASE EndRange
  <2>1. nextBlock' = rangeEnd + 1 /\ pc = "block" /\ live
    BY <1>2 DEF EndRange, Off
  <2>2. nextBlock <= rangeEnd + 1
    BY <2>1 DEF ChainInv, Position
  <2>3. QED BY <1>1, <2>1, <2>2
<1>3. CASE nextBlock' = nextBlock + 1 \/ nextBlock' = nextBlock
  BY <1>1, <1>3
<1>4. ~EndRange => nextBlock' = nextBlock + 1 \/ nextBlock' = nextBlock
  BY DEF Next, Network, Mine, Reorg, Operator, Start, RequestStop, Crash, Off, Collect, PollHead,
         StopPolling, ReadHeader, MissingBlock, ReadLogs, HandleLog, BlockStored, Engine,
         OnNewBlock, NextBlock, AdvanceLifecycle, SaveCheckpoint, HandleReorg, vars
<1>5. QED BY <1>2, <1>3, <1>4

(* Only its own save writes the checkpoint.                                 *)
LEMMA CheckpointSteps ==
  ASSUME [Next]_vars
  PROVE  \/ checkpoint' = checkpoint
         \/ /\ SaveCheckpoint /\ pc = "checkpoint" /\ facts' = facts
            /\ nextBlock' = nextBlock + 1 /\ pc' = "block"
            /\ nextBlock - Depth >= 0 /\ checkpoint' = nextBlock - Depth
<1> USE DEF network, store, memory, history
<1>1. CASE SaveCheckpoint
  BY <1>1 DEF SaveCheckpoint, NextBlock
<1>2. CASE ~SaveCheckpoint
  BY <1>2 DEF Next, Network, Mine, Reorg, Operator, Start, RequestStop, Crash, Collect, PollHead,
         StopPolling, EndRange, ReadHeader, MissingBlock, ReadLogs, HandleLog, BlockStored, Engine,
         OnNewBlock, AdvanceLifecycle, HandleReorg, vars
<1>3. QED BY <1>1, <1>2

(* Where a start without a range begins.                                    *)
LEMMA StartEffect ==
  ASSUME NoReplay, IInv, [Next]_vars, pc = "down", pc' # "down"
  PROVE  /\ UNCHANGED <<chain, torn, facts, checkpoint, buffer>>
         /\ starts' = starts + 1
         /\ \/ /\ checkpoint = NoBlock
               /\ pc' = "head" /\ live' = TRUE /\ nextBlock' = Len(chain) /\ origin' = Len(chain)
            \/ /\ checkpoint # NoBlock
               /\ pc' = "block" /\ live' = FALSE /\ nextBlock' = checkpoint + 1
               /\ \E to \in EndArgs : rangeEnd' = IF to # NoBlock THEN to ELSE checkpoint + 1
               /\ origin' = origin
<1> USE DEF network, store, memory, history
<1>1. PICK from \in StartArgs, to \in EndArgs : Start(from, to)
  BY DEF Next, Network, Mine, Reorg, Operator, RequestStop, Crash, Collect, PollHead, StopPolling,
         EndRange, ReadHeader, MissingBlock, ReadLogs, HandleLog, BlockStored, Engine, OnNewBlock,
         AdvanceLifecycle, SaveCheckpoint, HandleReorg, vars
<1>2. from = NoBlock
  BY DEF NoReplay
<1>3. UNCHANGED <<chain, torn, facts, checkpoint, buffer>> /\ starts' = starts + 1
  BY <1>1 DEF Start
<1>4. CASE checkpoint = NoBlock
  BY <1>1, <1>2, <1>3, <1>4 DEF Start
<1>5. CASE checkpoint # NoBlock
  <2> DEFINE begin == IF from # NoBlock THEN from
                      ELSE IF checkpoint # NoBlock THEN checkpoint + 1 ELSE NoBlock
  <2>1. begin = checkpoint + 1
    BY <1>2, <1>5
  <2>2. begin # NoBlock
    BY <1>5, <2>1 DEF NoBlock, IInv, TypeOK
  <2>3. QED BY <1>1, <1>3, <1>5, <2>1, <2>2 DEF Start
<1>6. QED BY <1>4, <1>5

LEMMA BehindStep ==
  ASSUME NoReplay, IInv, ChainInv, CheckpointBehind, [Next]_vars
  PROVE  CheckpointBehind'
<1> USE DEF network, store, memory, history
<1>0. /\ nextBlock \in Nat /\ Depth \in Nat \ {0} /\ Len(chain) \in Nat
      /\ checkpoint \in Int /\ checkpoint >= -1
      /\ \A t \in Txs : facts[t].block \in Nat
  BY Typed DEF NoBlock
<1>1. pc' # "down" => checkpoint' < nextBlock'
  <2>1. SUFFICES ASSUME pc' # "down" PROVE checkpoint' < nextBlock'
    OBVIOUS
  <2>2. nextBlock' \in Nat
    BY IInvStep DEF IInv, TypeOK
  <2>3. CASE pc = "down"
    <3>1. /\ checkpoint' = checkpoint
          /\ (nextBlock' = Len(chain) /\ checkpoint = NoBlock) \/ nextBlock' = checkpoint + 1
      BY <2>1, <2>3, StartEffect
    <3>2. QED BY <1>0, <3>1 DEF NoBlock
  <2>4. CASE pc # "down"
    <3>1. checkpoint < nextBlock /\ nextBlock' >= nextBlock
      BY <2>1, <2>4, NeverBack DEF CheckpointBehind
    <3>2. CASE checkpoint' = checkpoint
      BY <1>0, <2>2, <3>1, <3>2
    <3>3. CASE nextBlock' = nextBlock + 1 /\ checkpoint' = nextBlock - Depth
      BY <1>0, <3>3
    <3>4. QED BY <3>2, <3>3, CheckpointSteps
  <2>5. QED BY <2>3, <2>4
<1>2. SUFFICES ASSUME NEW t \in Txs, facts'[t].status \in Advancing
      PROVE  /\ facts'[t].block > checkpoint'
             /\ pc' = "checkpoint" => facts'[t].block + Depth > nextBlock'
  <2>1. checkpoint' \in Int /\ \A u \in Txs : facts'[u].block \in Nat
    BY IInvStep DEF IInv, TypeOK, Row, NoBlock
  <2>2. QED BY <1>1, <2>1 DEF CheckpointBehind, CheckpointIsFinal
<1>3. facts[t].status \in Advancing => facts[t].block > checkpoint
  BY <1>0 DEF CheckpointBehind, CheckpointIsFinal
<1>4. CASE SaveCheckpoint
  <2>1. pc = "checkpoint" /\ pc' = "block" /\ facts' = facts
        /\ (checkpoint' = checkpoint \/ checkpoint' = nextBlock - Depth)
    BY <1>4 DEF SaveCheckpoint, NextBlock
  <2>2. facts[t].block + Depth > nextBlock
    BY <1>2, <2>1 DEF CheckpointBehind
  <2>3. QED BY <1>0, <1>2, <1>3, <2>1, <2>2
<1>5. CASE AdvanceLifecycle
  <2>1. checkpoint' = checkpoint /\ nextBlock' = nextBlock
    BY <1>5 DEF AdvanceLifecycle
  <2>2. QED BY <1>2, <1>3, <1>5, <2>1, AdvanceEffect
<1>6. CASE HandleReorg
  <2>1. checkpoint' = checkpoint /\ pc' = "block"
    BY <1>6 DEF HandleReorg, NextBlock
  <2>2. facts'[t] = facts[t]
    BY <1>2, <1>6, OrphanEffect
  <2>3. QED BY <1>2, <1>3, <2>1, <2>2
<1>7. ASSUME NEW log \in logs, HandleLog(log)
      PROVE  facts'[t].block > checkpoint' /\ pc' # "checkpoint"
  <2>1. checkpoint' = checkpoint /\ pc = "facts" /\ pc' = "facts"
    BY <1>7 DEF HandleLog
  <2>2. facts'[t] = facts[t] \/ facts'[t] = NewFact(nextBlock, log.hash, header)
    BY <1>7, HandleLogRows
  <2>3. checkpoint < nextBlock
    BY <2>1 DEF CheckpointBehind
  <2>4. QED BY <1>0, <1>2, <1>3, <2>1, <2>2, <2>3 DEF NewFact
<1>8. CASE facts' = facts /\ ~SaveCheckpoint /\ ~AdvanceLifecycle
  <2>1. checkpoint' = checkpoint
    BY <1>8, CheckpointSteps
  <2>2. pc' = "checkpoint" => pc = "checkpoint" /\ nextBlock' = nextBlock
    BY <1>8 DEF Next, Network, Mine, Reorg, Operator, Start, RequestStop, Crash, Off, Collect,
         PollHead, StopPolling, EndRange, ReadHeader, MissingBlock, ReadLogs, HandleLog,
         BlockStored, Engine, OnNewBlock, NextBlock, HandleReorg, vars
  <2>3. QED BY <1>2, <1>3, <1>8, <2>1, <2>2 DEF CheckpointBehind
<1>9. QED BY <1>4, <1>5, <1>6, <1>7, <1>8, TableSteps

(* Nothing at or below the checkpoint still waits for confirmations, so a   *)
(* start that goes on above it leaves no fact PENDING for ever.  A replayed *)
(* range below the checkpoint stores facts that do.                         *)
THEOREM CheckpointFinal ==
  ASSUME NoReplay
  PROVE  Spec => []CheckpointIsFinal
<1>1. Init => CheckpointBehind
  BY DEF Init, CheckpointBehind, CheckpointIsFinal, NoRow, Absent, Advancing, Pending, Confirmed
<1>2. IInv /\ ChainInv /\ CheckpointBehind /\ [Next]_vars => CheckpointBehind'
  BY BehindStep
<1>3. CheckpointBehind => CheckpointIsFinal
  BY DEF CheckpointBehind
<1>4. QED BY InvariantHolds, ChainInvHolds, <1>1, <1>2, <1>3, PTL DEF Spec

-----------------------------------------------------------------------------
(* In the window, what is Depth blocks below the head is below the buffer.  *)
LEMMA WindowSpan ==
  ASSUME IInv, ChainInv, pc \in {"advance", "checkpoint"}, NEW n \in Nat, n + Depth <= nextBlock
  PROVE  n < buffer[1].number /\ buffer # <<>>
<1>1. /\ Len(buffer) >= 2 /\ buffer[Len(buffer)].number = nextBlock /\ Len(buffer) \in Nat
      /\ nextBlock \in Nat
  BY DEF IInv, TypeOK, HeaderWindow
<1>2. 1 \in 1 .. Len(buffer) /\ Len(buffer) \in 1 .. Len(buffer) /\ Depth \in Nat
  BY <1>1, IngestionAssumption
<1>3. buffer[1].number \in Nat /\ buffer # <<>>
  BY <1>2, Typed
<1>4. Len(buffer) <= Depth /\ nextBlock = buffer[1].number + Len(buffer) - 1
  BY <1>1, <1>2 DEF ChainInv, HeadersNumbered, Verified
<1>5. QED BY <1>1, <1>2, <1>3, <1>4

(* The checkpoint of a resumed process: its buffer begins above it, so the  *)
(* window reaches down to it again before it is full.                       *)
LEMMA AboveStep ==
  ASSUME NoReplay, IInv, IInv', ChainInv, CheckpointBehind, AboveCheckpoint, [Next]_vars
  PROVE  AboveCheckpoint'
<1> USE DEF network, store, memory, history
<1>0. /\ nextBlock \in Nat /\ Depth \in Nat \ {0} /\ checkpoint \in Int /\ Len(buffer) \in Nat
      /\ \A i \in 1 .. Len(buffer) : buffer[i].number \in Nat
      /\ buffer = <<>> <=> Len(buffer) = 0
  BY Typed
<1>1. CASE OnNewBlock
  <2>1. PICK s \in {0, 1} :
             /\ Len(buffer') = Len(buffer) + 1 - s
             /\ Len(buffer') \in 1 .. Depth
             /\ \A i \in 1 .. Len(buffer') - 1 : buffer'[i] = buffer[i + s]
             /\ buffer'[Len(buffer')] = HeaderAt(nextBlock)
    BY <1>1, PushEffect
  <2>2. /\ HeaderAt(nextBlock).number = nextBlock /\ checkpoint' = checkpoint
        /\ checkpoint < nextBlock /\ pc = "finality"
    BY <1>1, PushLinks DEF OnNewBlock, CheckpointBehind
  <2>3. CASE Len(buffer') = 1
    BY <2>1, <2>2, <2>3 DEF AboveCheckpoint
  <2>4. CASE Len(buffer') # 1
    <3>1. 1 \in 1 .. Len(buffer) /\ 1 + s \in 1 .. Len(buffer) /\ buffer'[1] = buffer[1 + s]
      BY <1>0, <2>1, <2>4
    <3>2. buffer[1 + s].number = buffer[1].number + (1 + s) - 1
      BY <2>2, <3>1 DEF ChainInv, HeadersNumbered, Verified
    <3>3. buffer[1].number > checkpoint /\ buffer[1].number \in Nat
      BY <1>0, <3>1 DEF AboveCheckpoint
    <3>4. buffer'[1].number > checkpoint
      BY <1>0, <3>1, <3>2, <3>3
    <3>5. QED BY <2>2, <3>4 DEF AboveCheckpoint
  <2>5. QED BY <2>3, <2>4
<1>2. CASE SaveCheckpoint
  <2>1. /\ pc = "checkpoint" /\ buffer' = buffer
        /\ checkpoint' = checkpoint \/ (nextBlock - Depth >= 0 /\ checkpoint' = nextBlock - Depth)
    BY <1>2 DEF SaveCheckpoint
  <2>2. nextBlock - Depth >= 0 => nextBlock - Depth < buffer[1].number
    <3>1. SUFFICES ASSUME nextBlock - Depth >= 0 PROVE nextBlock - Depth < buffer[1].number
      OBVIOUS
    <3>2. nextBlock - Depth \in Nat /\ (nextBlock - Depth) + Depth <= nextBlock
      BY <1>0, <3>1
    <3>3. QED BY <2>1, <3>2, WindowSpan
  <2>3. CASE checkpoint' = checkpoint
    BY <2>1, <2>3 DEF AboveCheckpoint
  <2>4. CASE nextBlock - Depth >= 0 /\ checkpoint' = nextBlock - Depth
    <3>1. checkpoint' < buffer[1].number /\ checkpoint' \in Int
      BY <1>0, <2>2, <2>4
    <3>2. buffer # <<>> => buffer[1].number \in Nat
      BY <1>0
    <3>3. QED BY <2>1, <3>1, <3>2 DEF AboveCheckpoint
  <2>5. QED BY <2>1, <2>3, <2>4
<1>3. CASE HandleReorg
  <2>1. checkpoint' = checkpoint
    BY <1>3 DEF HandleReorg
  <2>2. /\ Len(buffer') = Len(buffer) - 1 /\ Len(buffer) >= 2
        /\ \A i \in 1 .. Len(buffer) - 1 : buffer'[i] = buffer[i]
    BY <1>3, PopEffect
  <2>3. buffer'[1] = buffer[1] /\ buffer # <<>>
    BY <1>0, <2>2
  <2>4. QED BY <2>1, <2>3 DEF AboveCheckpoint
<1>4. CASE ~OnNewBlock /\ ~SaveCheckpoint /\ ~HandleReorg
  <2>1. checkpoint' = checkpoint
    BY <1>4, CheckpointSteps
  <2>2. buffer' = buffer \/ buffer' = <<>>
    BY <1>4 DEF Next, Network, Mine, Reorg, Operator, Start, RequestStop, Crash, Off, Collect,
         PollHead, StopPolling, EndRange, ReadHeader, MissingBlock, ReadLogs, HandleLog,
         BlockStored, Engine, AdvanceLifecycle, vars
  <2>3. QED BY <2>1, <2>2 DEF AboveCheckpoint
<1>5. QED BY <1>1, <1>2, <1>3, <1>4

(* Over any crashes, resumed ranges and reorganisations, for every depth:   *)
(* the checkpoint falls back only while a resumed process refills its       *)
(* window, and by less than the depth.  A replay below the checkpoint may   *)
(* take it further back.                                                    *)
THEOREM RecoveryKeepsTheCheckpoint ==
  ASSUME NoReplay
  PROVE  Spec => RecoveryKeepsCheckpoint
<1>1. Init => CheckpointBehind /\ AboveCheckpoint
  BY DEF Init, CheckpointBehind, CheckpointIsFinal, AboveCheckpoint, NoRow, Absent, Advancing,
         Pending, Confirmed
<1>2. IInv /\ ChainInv /\ CheckpointBehind /\ [Next]_vars => CheckpointBehind'
  BY BehindStep
<1>3. IInv /\ IInv' /\ ChainInv /\ CheckpointBehind /\ AboveCheckpoint /\ [Next]_vars
        => AboveCheckpoint'
  BY AboveStep
<1>4. IInv /\ ChainInv /\ AboveCheckpoint /\ [Next]_vars =>
        [checkpoint' < checkpoint =>
           Len(buffer) < Depth /\ checkpoint' + Depth >= checkpoint + 2]_checkpoint
  <2>1. SUFFICES ASSUME IInv, ChainInv, AboveCheckpoint, [Next]_vars, checkpoint' < checkpoint,
                        checkpoint' # checkpoint
                 PROVE  Len(buffer) < Depth /\ checkpoint' + Depth >= checkpoint + 2
    OBVIOUS
  <2>2. pc = "checkpoint" /\ checkpoint' = nextBlock - Depth
    BY <2>1, CheckpointSteps
  <2>3. /\ Len(buffer) >= 2 /\ buffer[Len(buffer)].number = nextBlock
        /\ Len(buffer) \in Nat /\ nextBlock \in Nat /\ Depth \in Nat /\ checkpoint \in Int
    BY <2>1, <2>2, Typed DEF IInv, HeaderWindow
  <2>4. 1 \in 1 .. Len(buffer) /\ Len(buffer) \in 1 .. Len(buffer) /\ buffer # <<>>
    <3>1. Len(<<>>) = 0
      OBVIOUS
    <3>2. QED BY <2>3, <3>1
  <2>5. nextBlock = buffer[1].number + Len(buffer) - 1 /\ buffer[1].number \in Nat
    BY <2>1, <2>2, <2>3, <2>4, Typed DEF ChainInv, HeadersNumbered, Verified
  <2>6. buffer[1].number > checkpoint
    BY <2>1, <2>4 DEF AboveCheckpoint
  <2>7. QED BY <2>1, <2>2, <2>3, <2>5, <2>6
<1>5. QED BY InvariantHolds, ChainInvHolds, <1>1, <1>2, <1>3, <1>4, PTL
          DEF Spec, RecoveryKeepsCheckpoint

-----------------------------------------------------------------------------
(* What is finalized stays so, whatever the operator replays.               *)
LEMMA FinalNetwork ==
  ASSUME ShallowReorgs, IInv, IInv', ChainInv, FinalInv, Network
  PROVE  FinalInv'
<1>1. HashesUnique /\ HashesUnique'
  BY NetworkEffect DEF ChainInv
<1>2. PICK k \in Nat : KeepsTo(k)
  BY <1>1, NetworkEffect
<1>3. UNCHANGED <<facts, checkpoint, pc, live, stop, nextBlock, rangeEnd, header, filter, logs,
                  buffer, starts, origin>>
  BY <1>2 DEF KeepsTo
<1>4. /\ \A n \in Int : n <= k => HashAt(chain', n) = HashAt(chain, n)
      /\ \A n \in Int : \A h \in 1 .. minted : HashAt(chain', n) = h =>
           n <= k /\ HashAt(chain, n) = h
  BY <1>1, <1>2, KeptHashes
<1>5. /\ Depth \in Nat /\ MaxReorg \in Nat /\ Len(chain) \in Nat
      /\ \A i \in 1 .. Len(buffer) : buffer[i].number \in Nat /\ buffer[i].hash \in 1 .. minted
      /\ \A t \in Txs : facts[t].block \in Nat
  BY Typed DEF ChainInv, HeadersKnown
<1>6. ASSUME NEW i \in 1 .. Len(buffer), NEW t \in Txs,
             facts[t].status = Finalized, buffer[i].number < facts[t].block
      PROVE  buffer[i].hash = HashAt(chain', buffer[i].number)
  <2>1. facts[t].block + Depth <= Len(chain) /\ Len(chain) <= k + MaxReorg
    BY <1>2, <1>6 DEF ChainInv, Settled, KeepsTo
  <2>2. buffer[i].number <= k /\ buffer[i].number \in Int
    BY <1>5, <1>6, <2>1 DEF ShallowReorgs
  <2>3. OnChain(buffer[i])
    BY <1>6 DEF FinalInv, FinalAbove, BelowFinal
  <2>4. QED BY <1>4, <2>2, <2>3 DEF OnChain
<1>7. ASSUME NEW i \in 1 .. Len(buffer), ~OnChain(buffer[i])
      PROVE  buffer[i].hash # HashAt(chain', buffer[i].number)
  <2>1. PICK n \in Int, h \in 1 .. minted : n = buffer[i].number /\ h = buffer[i].hash
    BY <1>5
  <2>2. HashAt(chain', n) # h
    BY <1>4, <1>7, <2>1 DEF OnChain
  <2>3. QED BY <2>1, <2>2
<1>8. FinalAbove'
  BY <1>3, <1>6 DEF FinalAbove, BelowFinal, OnChain
<1>9. BreakIsStale'
  <2>1. Len(buffer) \in Nat /\ (buffer = <<>> <=> Len(buffer) = 0)
    BY Typed
  <2>2. pc = "orphan" => Len(buffer) >= 2
    BY DEF IInv, HeaderWindow
  <2>3. pc = "orphan" => Len(buffer) - 1 \in 1 .. Len(buffer)
    BY <2>1, <2>2
  <2>4. buffer # <<>> => Len(buffer) \in 1 .. Len(buffer)
    BY <2>1
  <2>5. QED BY <1>3, <1>7, <2>3, <2>4 DEF FinalInv, BreakIsStale, OnChain
<1>10. QED BY <1>8, <1>9 DEF FinalInv

LEMMA FinalOnNewBlock ==
  ASSUME IInv, IInv', ChainInv, FinalInv, OnNewBlock
  PROVE  FinalInv'
<1>1. PICK s \in {0, 1} :
           /\ Len(buffer') = Len(buffer) + 1 - s
           /\ Len(buffer') \in 1 .. Depth
           /\ \A j \in 1 .. Len(buffer') - 1 : buffer'[j] = buffer[j + s]
           /\ buffer'[Len(buffer')] = HeaderAt(nextBlock)
  BY PushEffect
<1>2. /\ pc' \in {"block", "advance", "orphan"}
      /\ pc' = "block" <=> Len(buffer') < 2
      /\ nextBlock' = IF pc' = "block" THEN nextBlock + 1 ELSE nextBlock
      /\ OnChain(HeaderAt(nextBlock)) /\ HeaderAt(nextBlock).number = nextBlock
      /\ HeaderAt(nextBlock).parent = HashAt(chain, nextBlock - 1)
  BY PushLinks DEF HeaderAt
<1>3. /\ pc = "finality" /\ chain' = chain /\ facts' = facts
      /\ Len(buffer) \in Nat /\ nextBlock \in Nat /\ Depth \in Nat
      /\ buffer = <<>> <=> Len(buffer) = 0
  BY Typed DEF OnNewBlock, network, store
<1>4. FinalAbove'
  <2>1. SUFFICES ASSUME NEW i \in 1 .. Len(buffer'), BelowFinal(buffer'[i])
                 PROVE  OnChain(buffer'[i])
    BY <1>3 DEF FinalAbove, BelowFinal, OnChain
  <2>2. CASE i = Len(buffer')
    BY <1>1, <1>2, <2>2
  <2>3. CASE i # Len(buffer')
    <3>1. i + s \in 1 .. Len(buffer) /\ buffer'[i] = buffer[i + s]
      BY <1>1, <1>3, <2>3
    <3>2. QED BY <2>1, <3>1 DEF FinalInv, FinalAbove
  <2>4. QED BY <2>2, <2>3
<1>5. ASSUME pc' = "orphan" PROVE ~OnChain(buffer'[Len(buffer') - 1])
  <2>1. Len(buffer') >= 2 /\ Breaks(buffer') = {Len(buffer')}
    BY <1>1, <1>2, <1>3, <1>5 DEF IInv, HeaderWindow
  <2>2. Len(buffer) \in 1 .. Len(buffer) /\ buffer'[Len(buffer') - 1] = buffer[Len(buffer)]
        /\ buffer # <<>>
    BY <1>1, <1>3, <2>1
  <2>3. HashAt(chain, nextBlock - 1) # buffer[Len(buffer)].hash
    <3>1. Len(buffer') \in Breaks(buffer')
      BY <2>1
    <3>2. buffer'[Len(buffer')].parent # buffer'[Len(buffer') - 1].hash
      BY <3>1 DEF Breaks
    <3>3. QED BY <1>1, <1>2, <2>2, <3>2
  <2>4. CASE buffer[Len(buffer)].number + 1 = nextBlock
    <3>1. buffer[Len(buffer)].number \in Nat
      BY <2>2, Typed
    <3>2. buffer[Len(buffer)].number = nextBlock - 1
      BY <1>3, <2>4, <3>1
    <3>3. QED BY <2>2, <2>3, <3>2 DEF OnChain
  <2>5. CASE buffer[Len(buffer)].number + 1 # nextBlock
    BY <1>3, <2>2, <2>5 DEF FinalInv, BreakIsStale, Called
  <2>6. QED BY <2>4, <2>5
<1>6. BreakIsStale'
  <2>1. pc' = "block" => buffer'[Len(buffer')].number + 1 = nextBlock'
    BY <1>1, <1>2
  <2>2. \A h : OnChain(h)' <=> OnChain(h)
    BY <1>3 DEF OnChain
  <2>3. CASE pc' = "block"
    BY <2>1, <2>3 DEF BreakIsStale, Called
  <2>4. CASE pc' = "advance"
    BY <2>4 DEF BreakIsStale, Called
  <2>5. CASE pc' = "orphan"
    BY <1>3, <1>5, <2>5 DEF BreakIsStale, Called, OnChain
  <2>6. QED BY <1>2, <2>3, <2>4, <2>5
<1>7. QED BY <1>4, <1>6 DEF FinalInv

LEMMA FinalEngine ==
  ASSUME IInv, IInv', ChainInv, FinalInv, AdvanceLifecycle \/ SaveCheckpoint \/ HandleReorg
  PROVE  FinalInv'
<1> USE DEF network, store, memory, history
<1>0. /\ nextBlock \in Nat /\ Depth \in Nat \ {0} /\ Len(buffer) \in Nat
      /\ \A t \in Txs : facts[t].block \in Nat
      /\ \A i \in 1 .. Len(buffer) : buffer[i].number \in Nat
  BY Typed
<1>1. CASE AdvanceLifecycle
  <2>1. UNCHANGED <<chain, buffer>> /\ pc = "advance" /\ pc' = "checkpoint"
    BY <1>1 DEF AdvanceLifecycle
  <2>2. ASSUME NEW i \in 1 .. Len(buffer), NEW t \in Txs,
               facts'[t].status = Finalized, buffer[i].number < facts'[t].block
        PROVE  OnChain(buffer[i])
    <3>1. /\ facts'[t].block = facts[t].block
          /\ facts[t].status = Finalized \/ facts[t].block + Depth <= nextBlock
      BY <1>1, <2>2, AdvanceEffect
    <3>2. CASE facts[t].status = Finalized
      BY <2>2, <3>1, <3>2 DEF FinalInv, FinalAbove, BelowFinal
    <3>3. CASE facts[t].block + Depth <= nextBlock
      <4>1. facts[t].block < buffer[1].number
        BY <1>0, <2>1, <3>3, WindowSpan
      <4>2. 1 \in 1 .. Len(buffer)
        BY <1>0, <2>2
      <4>3. buffer[i].number = buffer[1].number + i - 1
        BY <2>1, <2>2 DEF ChainInv, HeadersNumbered, Verified
      <4>4. QED BY <1>0, <2>2, <3>1, <4>1, <4>2, <4>3
    <3>4. QED BY <3>1, <3>2, <3>3
  <2>3. QED BY <2>1, <2>2 DEF FinalInv, FinalAbove, BelowFinal, BreakIsStale, OnChain, Called
<1>2. CASE SaveCheckpoint
  <2>1. /\ UNCHANGED <<chain, facts, buffer>> /\ pc = "checkpoint" /\ pc' = "block"
        /\ nextBlock' = nextBlock + 1
    BY <1>2 DEF SaveCheckpoint, NextBlock
  <2>2. buffer[Len(buffer)].number = nextBlock
    BY <2>1 DEF IInv, HeaderWindow
  <2>3. QED BY <2>1, <2>2 DEF FinalInv, FinalAbove, BelowFinal, BreakIsStale, OnChain, Called
<1>3. CASE HandleReorg
  <2>1. chain' = chain /\ pc = "orphan" /\ pc' = "block"
    BY <1>3 DEF HandleReorg, NextBlock
  <2>2. /\ Len(buffer') = Len(buffer) - 1 /\ Len(buffer) >= 2
        /\ \A i \in 1 .. Len(buffer) - 1 : buffer'[i] = buffer[i]
    BY <1>3, PopEffect
  <2>3. ASSUME NEW t \in Txs, facts'[t].status = Finalized PROVE facts'[t] = facts[t]
    BY <1>3, <2>3, OrphanEffect
  <2>4. \A i \in 1 .. Len(buffer') : i \in 1 .. Len(buffer) /\ buffer'[i] = buffer[i]
    BY <1>0, <2>2
  <2>5. FinalAbove'
    BY <2>1, <2>3, <2>4 DEF FinalInv, FinalAbove, BelowFinal, OnChain
  <2>6. ~OnChain(buffer[Len(buffer) - 1]) /\ buffer'[Len(buffer')] = buffer[Len(buffer) - 1]
    BY <1>0, <2>1, <2>2 DEF FinalInv, BreakIsStale
  <2>7. QED BY <2>1, <2>5, <2>6 DEF FinalInv, BreakIsStale, OnChain, Called
<1>4. QED BY <1>1, <1>2, <1>3

(* The other steps finalize nothing, and leave the buffer and the block in  *)
(* flight alone unless the process ends, starts, or was stopped.            *)
LEMMA FinalQuiet ==
  ASSUME IInv, IInv', ChainInv, FinalInv, Operator \/ Crash \/ Collect \/ UNCHANGED vars
  PROVE  FinalInv'
<1> USE DEF network, store, memory, history
<1>1. chain' = chain /\ (buffer' = buffer \/ buffer' = <<>>)
  BY DEF Operator, Start, RequestStop, Crash, Off, Collect, PollHead, StopPolling, EndRange,
         ReadHeader, MissingBlock, ReadLogs, HandleLog, BlockStored, vars
<1>2. ASSUME NEW t \in Txs, facts'[t].status = Finalized PROVE facts'[t] = facts[t]
  <2>1. CASE facts' = facts
    BY <2>1
  <2>2. ASSUME NEW log \in logs, HandleLog(log) PROVE facts'[t] = facts[t]
    <3>1. facts'[t] = facts[t] \/ facts'[t] = NewFact(nextBlock, log.hash, header)
      BY <2>2, HandleLogRows
    <3>2. QED BY <1>2, <3>1 DEF NewFact, Pending, Finalized
  <2>3. facts' # facts => \E log \in logs : HandleLog(log)
    BY DEF Operator, Start, RequestStop, Crash, Collect, PollHead, StopPolling, EndRange,
         ReadHeader, MissingBlock, ReadLogs, BlockStored, vars
  <2>4. QED BY <2>1, <2>2, <2>3
<1>3. FinalAbove'
  <2>1. CASE buffer' = <<>>
    BY <2>1 DEF FinalAbove
  <2>2. CASE buffer' = buffer
    BY <1>1, <1>2, <2>2 DEF FinalInv, FinalAbove, BelowFinal, OnChain
  <2>3. QED BY <1>1, <2>1, <2>2
<1>4. pc = "down" => buffer = <<>>
  BY DEF ChainInv, Position
<1>5. buffer # <<>> /\ buffer' # <<>> =>
        /\ pc' \in Called <=> pc \in Called
        /\ pc' = "orphan" <=> pc = "orphan"
  <2>1. SUFFICES ASSUME buffer # <<>>, buffer' # <<>>
                 PROVE  /\ pc' \in Called <=> pc \in Called
                        /\ pc' = "orphan" <=> pc = "orphan"
    OBVIOUS
  <2>2. pc # "down"
    BY <1>4, <2>1
  <2>3. QED BY <2>1, <2>2 DEF Operator, Start, RequestStop, Crash, Off, Collect, PollHead,
         StopPolling, EndRange, ReadHeader, MissingBlock, ReadLogs, HandleLog, BlockStored, vars,
         Called
<1>6. ASSUME buffer # <<>>, buffer' # <<>>
      PROVE  \/ nextBlock' = nextBlock /\ ~(pc = "head" /\ stop /\ ~(pc' = "head" /\ stop'))
             \/ pc' = "head" /\ stop'
  <2>1. pc # "down"
    BY <1>4, <1>6
  <2>2. CASE EndRange
    <3>1. /\ pc = "block" /\ pc' = "head" /\ live /\ nextBlock' = rangeEnd + 1
          /\ stop' = stop /\ (stop \/ nextBlock > rangeEnd)
      BY <1>6, <2>2 DEF EndRange, Off
    <3>2. nextBlock <= rangeEnd + 1 /\ rangeEnd \in Nat /\ nextBlock \in Nat
      BY <3>1 DEF ChainInv, Position, IInv, TypeOK
    <3>3. QED BY <3>1, <3>2
  <2>3. CASE ~EndRange
    BY <1>6, <2>1, <2>3 DEF Operator, Start, RequestStop, Crash, Off, Collect, PollHead,
         StopPolling, ReadHeader, MissingBlock, ReadLogs, HandleLog, BlockStored, vars
  <2>4. QED BY <2>2, <2>3
<1>7. BreakIsStale'
  <2>1. CASE buffer' = <<>>
    <3>1. pc' # "orphan"
      <4>1. Len(<<>>) = 0 /\ (pc' = "orphan" => Len(buffer') >= 2)
        BY DEF IInv, HeaderWindow
      <4>2. QED BY <2>1, <4>1
    <3>2. QED BY <2>1, <3>1 DEF BreakIsStale
  <2>2. CASE buffer' # <<>>
    <3>1. buffer' = buffer /\ buffer # <<>>
      BY <1>1, <2>2
    <3>2. \A h : OnChain(h)' <=> OnChain(h)
      BY <1>1 DEF OnChain
    <3>3. pc' = "orphan" => ~OnChain(buffer[Len(buffer) - 1])'
      BY <1>1, <1>5, <3>1 DEF FinalInv, BreakIsStale, OnChain
    <3>4. ASSUME pc' \notin Called, ~(pc' = "head" /\ stop')
          PROVE  buffer[Len(buffer)].number + 1 = nextBlock' \/ ~OnChain(buffer[Len(buffer)])
      <4>1. pc \notin Called /\ nextBlock' = nextBlock /\ ~(pc = "head" /\ stop)
        BY <1>5, <1>6, <2>2, <3>1, <3>4
      <4>2. QED BY <3>1, <4>1 DEF FinalInv, BreakIsStale
    <3>5. QED BY <1>1, <3>1, <3>3, <3>4 DEF BreakIsStale, OnChain
  <2>3. QED BY <2>1, <2>2
<1>8. QED BY <1>3, <1>7 DEF FinalInv

LEMMA FinalStep ==
  ASSUME ShallowReorgs, IInv, IInv', ChainInv, FinalInv, [Next]_vars
  PROVE  FinalInv'
<1>1. CASE Network
  BY <1>1, FinalNetwork
<1>2. CASE Engine
  BY <1>2, FinalOnNewBlock, FinalEngine DEF Engine
<1>3. CASE Operator \/ Crash \/ Collect \/ UNCHANGED vars
  BY <1>3, FinalQuiet
<1>4. QED BY <1>1, <1>2, <1>3 DEF Next

(* Nothing the engine has finalized is ever changed again, whatever ranges  *)
(* are replayed and however often the process restarts - provided           *)
(* reorganisations are no deeper than the confirmation depth.  Then a       *)
(* reorganisation never replaces a block below a final fact, and a break is *)
(* noticed only at a header that is not on the chain: so all that is        *)
(* orphaned lies above the final facts.                                     *)
THEOREM FinalForever ==
  ASSUME ShallowReorgs
  PROVE  Spec => FinalizedForever
<1>1. Init => FinalInv
  BY DEF Init, FinalInv, FinalAbove, BreakIsStale, Called
<1>2. IInv /\ IInv' /\ ChainInv /\ FinalInv /\ [Next]_vars => FinalInv'
  BY FinalStep
<1>3. IInv /\ ChainInv /\ FinalInv /\ [Next]_vars =>
        [\A t \in Txs : facts[t].status = Finalized => facts'[t] = facts[t]]_facts
  <2>1. SUFFICES ASSUME IInv, ChainInv, FinalInv, [Next]_vars, facts' # facts,
                        NEW t \in Txs, facts[t].status = Finalized
                 PROVE  facts'[t] = facts[t]
    OBVIOUS
  <2>2. ASSUME NEW log \in logs, HandleLog(log)
        PROVE  facts'[t] = facts[t]
    BY <2>1, <2>2, HandleLogRows DEF Finalized, Absent
  <2>3. CASE AdvanceLifecycle
    BY <2>1, <2>3, AdvanceRows DEF AdvanceRow, Advancing, Finalized, Pending, Confirmed
  <2>4. CASE HandleReorg
    <3>1. /\ facts'[t] = OrphanRow(facts[t], buffer'[Len(buffer')].number + 1, nextBlock)
          /\ buffer'[Len(buffer')].number \in Nat /\ facts[t].block \in Nat
      BY <2>1, <2>4, OrphanRows, RowsTyped
    <3>2. /\ Len(buffer') = Len(buffer) - 1 /\ Len(buffer) >= 2 /\ Len(buffer) \in Nat
          /\ \A i \in 1 .. Len(buffer) - 1 : buffer'[i] = buffer[i]
      BY <2>1, <2>4, PopEffect DEF IInv, TypeOK
    <3>3. /\ Len(buffer) - 1 \in 1 .. Len(buffer)
          /\ buffer'[Len(buffer')] = buffer[Len(buffer) - 1]
      BY <3>2
    <3>4. ~OnChain(buffer[Len(buffer) - 1])
      BY <2>1, <2>4 DEF HandleReorg, FinalInv, BreakIsStale
    <3>5. ~(buffer'[Len(buffer')].number < facts[t].block)
      BY <2>1, <3>3, <3>4 DEF FinalInv, FinalAbove, BelowFinal
    <3>6. ~(buffer'[Len(buffer')].number + 1 <= facts[t].block)
      BY <3>1, <3>5
    <3>7. QED BY <3>1, <3>6 DEF OrphanRow
  <2>5. QED BY <2>1, <2>2, <2>3, <2>4, TableSteps
<1>4. QED BY InvariantHolds, ChainInvHolds, <1>1, <1>2, <1>3, PTL DEF Spec, FinalizedForever

-----------------------------------------------------------------------------
(* What is below the checkpoint is in the store.                            *)

(* A step of the process takes no fact out of the store.                    *)
LEMMA KeptStays ==
  ASSUME IInv, [Next]_vars, NEW n \in Nat, Kept(n), CanonicalAt(n)' = CanonicalAt(n)
  PROVE  Kept(n)'
<1>1. CanonicalAt(n) \subseteq Txs
  BY HeaderAtType DEF IInv
<1>2. ASSUME NEW t \in Txs, facts[t].status # Absent PROVE facts'[t].status # Absent
  BY <1>2, RowEffect
<1>3. QED BY <1>1, <1>2 DEF Kept

LEMMA CompleteNetwork ==
  ASSUME ShallowReorgs, IInv, IInv', ChainInv, StoreComplete, Network
  PROVE  StoreComplete'
<1>1. HashesUnique /\ [Next]_vars
  BY DEF ChainInv, Next
<1>2. PICK k \in Nat : KeepsTo(k)
  BY <1>1, NetworkEffect
<1>3. UNCHANGED <<facts, checkpoint, pc, live, stop, nextBlock, rangeEnd, header, filter, logs,
                  buffer, starts, origin>>
  BY <1>2 DEF KeepsTo
<1>4. /\ \A n \in Int : n <= k => CanonicalAt(n)' = CanonicalAt(n)
      /\ \A n \in Int : \A h \in 1 .. minted : HashAt(chain', n) = h =>
           n <= k /\ HashAt(chain, n) = h
  BY <1>1, <1>2, KeptHashes
<1>5. SUFFICES ASSUME ~torn' PROVE StoreComplete'
  BY DEF StoreComplete
<1>6. ~torn /\ StoredUpTo(checkpoint) /\ (Depth >= 2 => BufferComplete)
  BY <1>2, <1>5 DEF KeepsTo, StoreComplete
<1>7. origin \in Nat /\ k \in Nat /\ checkpoint \in Int
  BY Typed
<1>8. ASSUME NEW m \in Int, m <= k, StoredUpTo(m) PROVE StoredUpTo(m)'
  <2>1. SUFFICES ASSUME NEW n \in origin .. m PROVE Kept(n)'
    BY <1>3 DEF StoredUpTo
  <2>2. n \in Nat /\ n <= k /\ Kept(n)
    BY <1>7, <1>8 DEF StoredUpTo
  <2>3. CanonicalAt(n)' = CanonicalAt(n)
    BY <1>4, <2>2
  <2>4. QED BY <1>1, <2>2, <2>3, KeptStays
<1>9. StoredUpTo(checkpoint)'
  <2>1. CASE checkpoint = NoBlock
    BY <1>3, <1>7, <2>1 DEF StoredUpTo, NoBlock
  <2>2. CASE checkpoint # NoBlock
    <3>1. checkpoint + Depth <= Len(chain) /\ Len(chain) <= k + MaxReorg
      BY <1>2, <2>2 DEF ChainInv, Settled, KeepsTo
    <3>2. Depth \in Nat /\ MaxReorg \in Nat /\ Len(chain) \in Nat
      BY Typed
    <3>3. checkpoint <= k
      BY <1>7, <3>1, <3>2 DEF ShallowReorgs
    <3>4. QED BY <1>3, <1>6, <1>7, <1>8, <3>3
  <2>3. QED BY <2>1, <2>2
<1>10. BufferComplete => BufferComplete'
  <2>1. SUFFICES ASSUME BufferComplete, NEW i \in 1 .. Len(buffer), Verified(i),
                        buffer[i].hash = HashAt(chain', buffer[i].number)
                 PROVE  StoredUpTo(buffer[i].number)'
    BY <1>3 DEF BufferComplete, Verified, OnChain
  <2>2. buffer[i].number \in Int /\ buffer[i].hash \in 1 .. minted
    BY Typed DEF ChainInv, HeadersKnown
  <2>3. buffer[i].number <= k /\ OnChain(buffer[i])
    <3>1. PICK n \in Int, h \in 1 .. minted : n = buffer[i].number /\ h = buffer[i].hash
      BY <2>2
    <3>2. HashAt(chain', n) = h
      BY <2>1, <3>1
    <3>3. n <= k /\ HashAt(chain, n) = h
      BY <1>4, <3>1, <3>2
    <3>4. QED BY <3>1, <3>3 DEF OnChain
  <2>4. StoredUpTo(buffer[i].number)
    BY <2>1, <2>3 DEF BufferComplete
  <2>5. QED BY <1>3, <1>8, <2>2, <2>3, <2>4
<1>11. QED BY <1>3, <1>6, <1>9, <1>10 DEF StoreComplete

LEMMA CompleteOnNewBlock ==
  ASSUME IInv, IInv', ChainInv, StoreComplete, OnNewBlock, Depth >= 2, ~torn,
         NEW i \in 1 .. Len(buffer'), ~(pc' = "orphan" /\ i = Len(buffer')),
         buffer'[i].hash = HashAt(chain, buffer'[i].number)
  PROVE  StoredUpTo(buffer'[i].number)
<1>1. PICK s \in {0, 1} :
           /\ Len(buffer') = Len(buffer) + 1 - s
           /\ Len(buffer') \in 1 .. Depth
           /\ \A j \in 1 .. Len(buffer') - 1 : buffer'[j] = buffer[j + s]
           /\ buffer'[Len(buffer')] = HeaderAt(nextBlock)
           /\ s = 1 => Len(buffer) = Depth
  BY PushEffect
<1>2. /\ pc' \in {"block", "advance", "orphan"}
      /\ pc' = "block" <=> Len(buffer') < 2
      /\ HeaderAt(nextBlock).number = nextBlock
      /\ pc' = "advance" =>
              /\ Len(buffer) >= 1
              /\ buffer[Len(buffer)].number = nextBlock - 1
              /\ OnChain(buffer[Len(buffer)])
  BY PushLinks
<1>3. /\ pc = "finality" /\ BufferComplete /\ StoredUpTo(checkpoint) /\ Kept(nextBlock)
      /\ buffer = <<>> => nextBlock \in {origin, checkpoint + 1}
  BY DEF OnNewBlock, StoreComplete, ChainInv, ReadsComplete
<1>4. /\ Len(buffer) \in Nat /\ nextBlock \in Nat /\ Depth \in Nat /\ origin \in Nat
      /\ checkpoint \in Int /\ (buffer = <<>> <=> Len(buffer) = 0)
  BY Typed
<1>5. CASE i # Len(buffer')
  <2>1. i + s \in 1 .. Len(buffer) /\ buffer'[i] = buffer[i + s] /\ Verified(i + s)
    BY <1>1, <1>3, <1>4, <1>5 DEF Verified
  <2>2. QED BY <1>3, <2>1 DEF BufferComplete, OnChain
<1>6. CASE i = Len(buffer')
  <2>1. buffer'[i].number = nextBlock
    BY <1>1, <1>2, <1>6
  <2>2. SUFFICES ASSUME NEW n \in origin .. nextBlock, n # nextBlock PROVE Kept(n)
    BY <1>3, <2>1 DEF StoredUpTo
  <2>3. n \in origin .. nextBlock - 1
    BY <1>4, <2>2
  <2>4. CASE buffer = <<>>
    <3>1. n \in origin .. checkpoint
      BY <1>3, <1>4, <2>3, <2>4
    <3>2. QED BY <1>3, <3>1 DEF StoredUpTo
  <2>5. CASE buffer # <<>>
    <3>1. pc' = "advance"
      <4>1. ~(Len(buffer') < 2)
        BY <1>1, <1>4, <2>5
      <4>2. QED BY <1>2, <1>6, <4>1
    <3>2. /\ Len(buffer) \in 1 .. Len(buffer) /\ Verified(Len(buffer))
          /\ OnChain(buffer[Len(buffer)]) /\ buffer[Len(buffer)].number = nextBlock - 1
      BY <1>2, <1>3, <1>4, <3>1 DEF Verified
    <3>3. StoredUpTo(nextBlock - 1)
      BY <1>3, <3>2 DEF BufferComplete
    <3>4. QED BY <2>3, <3>3 DEF StoredUpTo
  <2>6. QED BY <2>4, <2>5
<1>7. QED BY <1>5, <1>6

LEMMA CompleteStep ==
  ASSUME NoReplay, ShallowReorgs, IInv, IInv', ChainInv, ChainInv', StoreComplete, [Next]_vars
  PROVE  StoreComplete'
<1> USE DEF network, store, memory, history
<1>1. CASE Network
  BY <1>1, CompleteNetwork
<1>2. ASSUME ~Network, ~torn' PROVE StoreComplete'
  <2>1. chain' = chain /\ torn' = torn
    BY <1>2 DEF Next, Operator, Start, RequestStop, Crash, Collect, PollHead, StopPolling, EndRange,
         ReadHeader, MissingBlock, ReadLogs, HandleLog, BlockStored, Engine, OnNewBlock,
         AdvanceLifecycle, SaveCheckpoint, HandleReorg, vars
  <2>2. /\ StoredUpTo(checkpoint) /\ (Depth >= 2 => BufferComplete)
        /\ pc # "down" /\ buffer = <<>> /\ ~(pc = "head" /\ stop) =>
             nextBlock \in {origin, checkpoint + 1}
    BY <1>2, <2>1 DEF StoreComplete
  <2>3. /\ origin \in Nat /\ nextBlock \in Nat /\ checkpoint \in Int /\ checkpoint >= NoBlock
        /\ Len(buffer) \in Nat /\ Len(chain) \in Nat /\ Depth \in Nat
        /\ \A i \in 1 .. Len(buffer) : buffer[i].number \in Nat
    BY Typed
  <2>4. ASSUME NEW m \in Int, StoredUpTo(m), origin' = origin PROVE StoredUpTo(m)'
    <3>1. SUFFICES ASSUME NEW n \in origin .. m PROVE Kept(n)'
      BY <2>4 DEF StoredUpTo
    <3>2. n \in Nat /\ Kept(n) /\ CanonicalAt(n)' = CanonicalAt(n)
      BY <2>1, <2>3, <2>4 DEF StoredUpTo, CanonicalAt
    <3>3. QED BY <3>2, KeptStays
  <2>5. ASSUME BufferComplete, origin' = origin,
               \A i \in 1 .. Len(buffer') :
                 /\ i \in 1 .. Len(buffer) /\ buffer'[i] = buffer[i]
                 /\ Verified(i)' => Verified(i)
        PROVE  BufferComplete'
    <3>1. SUFFICES ASSUME NEW i \in 1 .. Len(buffer'), Verified(i)', OnChain(buffer[i])'
                   PROVE  StoredUpTo(buffer[i].number)'
      BY <2>5 DEF BufferComplete, OnChain
    <3>2. i \in 1 .. Len(buffer) /\ Verified(i) /\ OnChain(buffer[i])
      BY <2>1, <2>5, <3>1 DEF OnChain
    <3>3. StoredUpTo(buffer[i].number) /\ buffer[i].number \in Int
      BY <2>3, <2>5, <3>2 DEF BufferComplete
    <3>4. QED BY <2>4, <2>5, <3>3
  <2>6. CASE pc' = "down"
    <3>1. buffer' = <<>> /\ origin' = origin /\ checkpoint' = checkpoint
      <4>1. origin' = origin
        BY <1>2, <2>6 DEF Next, Operator, Start, RequestStop, Crash, Collect, PollHead, StopPolling,
           EndRange, ReadHeader, MissingBlock, ReadLogs, HandleLog, BlockStored, Engine, OnNewBlock,
           AdvanceLifecycle, SaveCheckpoint, HandleReorg, vars
      <4>2. QED BY <2>6, <4>1, CheckpointSteps DEF ChainInv, Position
    <3>2. QED BY <2>2, <2>3, <2>4, <2>6, <3>1 DEF StoreComplete, BufferComplete
  <2>7. CASE pc = "down" /\ pc' # "down"
    <3>1. /\ checkpoint' = checkpoint /\ buffer' = <<>>
          /\ \/ checkpoint = NoBlock /\ nextBlock' = Len(chain) /\ origin' = Len(chain)
             \/ nextBlock' = checkpoint + 1 /\ origin' = origin
      BY <2>7, StartEffect DEF ChainInv, Position
    <3>2. StoredUpTo(checkpoint)'
      <4>1. CASE checkpoint = NoBlock /\ origin' = Len(chain)
        BY <2>3, <3>1, <4>1 DEF StoredUpTo, NoBlock
      <4>2. CASE origin' = origin
        BY <2>2, <2>3, <2>4, <3>1, <4>2
      <4>3. QED BY <3>1, <4>1, <4>2
    <3>3. BufferComplete'
      BY <3>1 DEF BufferComplete
    <3>4. nextBlock' \in {origin', checkpoint' + 1}
      BY <3>1
    <3>5. QED BY <3>2, <3>3, <3>4 DEF StoreComplete
  <2>8. CASE OnNewBlock
    <3>1. UNCHANGED <<facts, checkpoint, origin>> /\ buffer' # <<>>
      <4>1. Len(<<>>) = 0 /\ Len(buffer') # 0
        BY <2>8, PushEffect
      <4>2. QED BY <2>8, <4>1 DEF OnNewBlock
    <3>2. ASSUME Depth >= 2 PROVE BufferComplete'
      <4>1. SUFFICES ASSUME NEW i \in 1 .. Len(buffer'), ~(pc' = "orphan" /\ i = Len(buffer')),
                            buffer'[i].hash = HashAt(chain, buffer'[i].number)
                     PROVE  StoredUpTo(buffer'[i].number)
        BY <2>1, <3>1 DEF BufferComplete, Verified, OnChain, StoredUpTo, Kept, CanonicalAt
      <4>2. QED BY <1>2, <2>1, <2>8, <3>2, <4>1, CompleteOnNewBlock
    <3>3. StoredUpTo(checkpoint)'
      BY <2>2, <2>3, <2>4, <3>1
    <3>4. QED BY <3>1, <3>2, <3>3 DEF StoreComplete
  <2>9. CASE SaveCheckpoint
    <3>1. /\ pc = "checkpoint" /\ pc' = "block" /\ UNCHANGED <<facts, buffer, origin>>
          /\ checkpoint' = checkpoint \/ checkpoint' = nextBlock - Depth
      BY <2>9 DEF SaveCheckpoint, NextBlock
    <3>2. /\ Len(buffer) >= 2 /\ buffer[Len(buffer)].number = nextBlock
          /\ Len(buffer) <= Depth /\ OnChain(buffer[Len(buffer)])
      BY <1>2, <2>1, <3>1 DEF IInv, HeaderWindow, ChainInv, HeadersNumbered, ReadsAgree, Called
    <3>3. Depth >= 2 /\ buffer # <<>> /\ Len(buffer) \in 1 .. Len(buffer)
      <4>1. Len(<<>>) = 0
        OBVIOUS
      <4>2. QED BY <2>3, <3>2, <4>1
    <3>4. StoredUpTo(nextBlock)
      BY <2>2, <3>1, <3>2, <3>3 DEF BufferComplete, Verified
    <3>5. StoredUpTo(nextBlock - Depth)
      BY <2>3, <3>4 DEF StoredUpTo
    <3>6. StoredUpTo(checkpoint)'
      BY <2>2, <2>3, <2>4, <3>1, <3>5
    <3>7. BufferComplete'
      BY <2>2, <2>5, <3>1, <3>3 DEF Verified
    <3>8. QED BY <3>1, <3>3, <3>6, <3>7 DEF StoreComplete
  <2>10. CASE HandleReorg
    <3>1. /\ pc = "orphan" /\ pc' = "block" /\ UNCHANGED <<checkpoint, origin>>
      BY <2>10 DEF HandleReorg, NextBlock
    <3>2. /\ Len(buffer') = Len(buffer) - 1 /\ Len(buffer) >= 2
          /\ \A i \in 1 .. Len(buffer) - 1 : buffer'[i] = buffer[i]
      BY <2>10, PopEffect
    <3>3. \A i \in 1 .. Len(buffer') :
            i \in 1 .. Len(buffer) /\ buffer'[i] = buffer[i] /\ Verified(i)
      BY <2>3, <3>2 DEF Verified
    <3>4. buffer' # <<>>
      <4>1. Len(<<>>) = 0 /\ Len(buffer') # 0
        BY <2>3, <3>2
      <4>2. QED BY <4>1
    <3>5. StoredUpTo(checkpoint)' /\ (BufferComplete => BufferComplete')
      BY <2>2, <2>3, <2>4, <2>5, <3>1, <3>3
    <3>6. QED BY <2>2, <3>4, <3>5 DEF StoreComplete
  <2>11. CASE /\ pc # "down" /\ pc' # "down"
              /\ ~OnNewBlock /\ ~SaveCheckpoint /\ ~HandleReorg
    <3>1. UNCHANGED <<checkpoint, buffer, origin>>
      BY <1>2, <2>11 DEF Next, Operator, Start, RequestStop, Crash, Off, Collect, PollHead,
           StopPolling, EndRange, ReadHeader, MissingBlock, ReadLogs, HandleLog, BlockStored,
           Engine, AdvanceLifecycle, vars
    <3>2. pc = "orphan" => pc' = "orphan"
      BY <1>2, <2>11 DEF Next, Operator, Start, RequestStop, Crash, Off, Collect, PollHead,
           StopPolling, EndRange, ReadHeader, MissingBlock, ReadLogs, HandleLog, BlockStored,
           Engine, AdvanceLifecycle, vars
    <3>3. \/ nextBlock' = nextBlock /\ ~(pc = "head" /\ stop)
          \/ pc' = "head" /\ stop'
      <4>1. CASE EndRange
        <5>1. /\ pc = "block" /\ pc' = "head" /\ live /\ nextBlock' = rangeEnd + 1
              /\ stop' = stop /\ (stop \/ nextBlock > rangeEnd)
          BY <2>11, <4>1 DEF EndRange, Off
        <5>2. nextBlock <= rangeEnd + 1 /\ rangeEnd \in Nat
          BY <5>1 DEF ChainInv, Position, IInv, TypeOK
        <5>3. QED BY <2>3, <5>1, <5>2
      <4>2. CASE ~EndRange
        BY <1>2, <2>11, <4>2 DEF Next, Operator, Start, RequestStop, Crash, Off, Collect, PollHead,
           StopPolling, ReadHeader, MissingBlock, ReadLogs, HandleLog, BlockStored, Engine,
           AdvanceLifecycle, vars
      <4>3. QED BY <4>1, <4>2
    <3>4. BufferComplete => BufferComplete'
      BY <2>5, <3>1, <3>2 DEF Verified
    <3>5. StoredUpTo(checkpoint)'
      BY <2>2, <2>3, <2>4, <3>1
    <3>6. QED BY <2>2, <2>11, <3>1, <3>3, <3>4, <3>5 DEF StoreComplete
  <2>12. QED BY <2>6, <2>7, <2>8, <2>9, <2>10, <2>11
<1>3. QED BY <1>1, <1>2 DEF StoreComplete

(* Between the block the collection began at and the checkpoint no fact is  *)
(* missing, over any number of crashes and resumed starts: the checkpoint   *)
(* is saved only when the headers in memory are linked to the chain's, and  *)
(* each of them stands for a block that was stored before it was appended.  *)
THEOREM CompleteBelowCheckpoint ==
  ASSUME NoReplay, ShallowReorgs
  PROVE  Spec => []CheckpointComplete
<1>1. Init => StoreComplete
  BY DEF Init, StoreComplete, StoredUpTo, BufferComplete, NoBlock
<1>2. IInv /\ IInv' /\ ChainInv /\ ChainInv' /\ StoreComplete /\ [Next]_vars => StoreComplete'
  BY CompleteStep
<1>3. StoreComplete => CheckpointComplete
  BY DEF StoreComplete, StoredUpTo, Kept, CheckpointComplete
<1>4. QED BY InvariantHolds, ChainInvHolds, <1>1, <1>2, <1>3, PTL DEF Spec
==============================================================================
