------------------------------ MODULE Ingestion ------------------------------
(***************************************************************************)
(* The ingestion process of one chain: main._run_live starts a Collector,  *)
(* which reads blocks from an RPC provider, hands every decodable log to   *)
(* the fact store, and after each block calls FinalityEngine.on_new_block. *)
(* The process runs against a chain that grows and reorganises while it    *)
(* reads, may crash between any two awaits, and may be started again.      *)
(*                                                                         *)
(* One action is one run of the event loop between two awaits, so every    *)
(* RPC call and every commit is a point where the chain may move or the    *)
(* process may die.  The database survives a crash, the header buffer and  *)
(* the block in flight do not.                                             *)
(***************************************************************************)
EXTENDS FactStore, FiniteSets, Sequences

CONSTANTS
  Txs,          \* the logs a chain may contain; a fact_id is a log's transaction and index
  Undecodable,  \* the logs the normalizer rejects with DomainValidationError
  NumFilters,   \* length of the collector's filter list
  FilterOf,     \* which filter matches a log
  Depth,        \* the chain's confirmation depth, and the header buffer's maxlen
  StartArgs,    \* values of --start-block an operator may pass, NoBlock when omitted
  EndArgs,      \* values of --end-block, NoBlock when omitted
  ReorgPoints,  \* the control points at which the chain may reorganise
  MaxReorg,     \* bound: the deepest reorganisation the network makes
  MaxReorgs,    \* bound: how many reorganisations it makes
  MaxHeight,    \* bound: the chain stops growing here
  MaxStarts     \* bound: how many times the process is started

NoBlock == -1

ControlPoints ==
  {"down", "head", "block", "logs", "facts", "finality", "advance", "checkpoint", "orphan"}
BetweenBlocks == {"down", "head", "block"}

ASSUME IngestionAssumption ==
  /\ Undecodable \subseteq Txs
  /\ NumFilters \in Nat \ {0}
  /\ FilterOf \in [Txs -> 1 .. NumFilters]
  /\ Depth \in Nat \ {0}
  /\ StartArgs \subseteq Nat \cup {NoBlock}
  /\ EndArgs \subseteq Nat \cup {NoBlock}
  /\ ReorgPoints \subseteq ControlPoints
  /\ {MaxReorg, MaxReorgs, MaxHeight, MaxStarts} \subseteq Nat

VARIABLES
  (* the network *)
  chain,       \* canonical chain: block n is chain[n], a hash and the logs in it
  minted,      \* how many block hashes exist
  reorgs,      \* how many reorganisations have happened
  torn,        \* one of them fell between two reads of one block
  (* PostgreSQL *)
  facts,       \* blockchain_facts
  checkpoint,  \* checkpoint.last_finalized_block, NoBlock before the first save
  (* the process *)
  pc,          \* where the process is suspended
  live,        \* TRUE in run_from, FALSE in a bounded process_range
  stop,        \* Collector._stop_requested
  nextBlock,   \* the block being processed, or the next one
  rangeEnd,    \* to_block of the current process_range
  header,      \* hash of the header _process_block read
  filter,      \* the next filter to query
  logs,        \* collected logs not handed to the handler yet
  buffer,      \* FinalityEngine._buffer
  (* history *)
  starts,      \* how many times the process was started
  origin       \* where the last start without argument or checkpoint began

network == <<chain, minted, reorgs, torn>>
store   == <<facts, checkpoint>>
memory  == <<live, stop, nextBlock, rangeEnd, header, filter, logs, buffer>>
history == <<starts, origin>>
vars    == <<network, store, pc, memory, history>>

Block  == [hash : Nat, txs : SUBSET Txs]
Header == [number : Nat, hash : Nat, parent : Nat]
Log    == [tx : Txs, hash : Nat]

TypeOK ==
  /\ chain \in Seq(Block) /\ minted \in Nat /\ reorgs \in Nat /\ torn \in BOOLEAN
  /\ facts \in [Txs -> Row]
  /\ checkpoint \in Nat \cup {NoBlock}
  /\ pc \in ControlPoints
  /\ live \in BOOLEAN /\ stop \in BOOLEAN
  /\ nextBlock \in Nat /\ rangeEnd \in Nat
  /\ header \in Nat /\ filter \in Nat
  /\ logs \subseteq Log
  /\ buffer \in Seq(Header)
  /\ starts \in Nat /\ origin \in Nat

-----------------------------------------------------------------------------
(* The network, as the provider shows it: a block's number is its height,   *)
(* its parent is the block below it, a log is in at most one block.         *)

HashAt(c, n)   == IF n \in 1 .. Len(c) THEN c[n].hash ELSE 0
HeaderAt(n)    == [number |-> n, hash |-> HashAt(chain, n), parent |-> HashAt(chain, n - 1)]
LogsIn(c)      == UNION {c[n].txs : n \in 1 .. Len(c)}
CanonicalAt(n) == IF n \in 1 .. Len(chain) THEN chain[n].txs ELSE {}

Mine(txs) ==
  /\ Len(chain) < MaxHeight
  /\ txs \cap LogsIn(chain) = {}
  /\ chain'  = Append(chain, [hash |-> minted + 1, txs |-> txs])
  /\ minted' = minted + 1
  /\ UNCHANGED <<reorgs, torn, store, pc, memory, history>>

(* The last d blocks are replaced by d others; logs of the abandoned blocks *)
(* may be mined again, at any of the new heights, or never.                 *)
Reorg(d, txsOf) ==
  /\ pc \in ReorgPoints
  /\ reorgs < MaxReorgs
  /\ d < Len(chain)
  /\ LET kept == SubSeq(chain, 1, Len(chain) - d)
     IN  /\ \A i \in 1 .. d : txsOf[i] \cap LogsIn(kept) = {}
         /\ \A i, j \in 1 .. d : i # j => txsOf[i] \cap txsOf[j] = {}
         /\ chain' = kept \o [i \in 1 .. d |-> [hash |-> minted + i, txs |-> txsOf[i]]]
  /\ minted' = minted + d
  /\ reorgs' = reorgs + 1
  /\ torn'   = (torn \/ pc \notin BetweenBlocks)
  /\ UNCHANGED <<store, pc, memory, history>>

-----------------------------------------------------------------------------
(* The process.  Off clears everything a process loses when it ends; stop   *)
(* keeps its value, for the properties, until the next start clears it.     *)

Off ==
  /\ pc' = "down"
  /\ live' = FALSE
  /\ UNCHANGED stop
  /\ nextBlock' = 0 /\ rangeEnd' = 0 /\ header' = 0 /\ filter' = 0
  /\ logs' = {} /\ buffer' = <<>>

(* Not the code: a restart that takes the checkpoint for the next block.    *)
StartAtCheckpoint(from, to) ==
  /\ pc = "down"
  /\ starts < MaxStarts
  /\ starts' = starts + 1
  /\ stop' = FALSE
  /\ LET begin == IF from # NoBlock THEN from ELSE checkpoint
     IN  IF begin = NoBlock
         THEN /\ live' = TRUE
              /\ nextBlock' = Len(chain)
              /\ rangeEnd' = 0
              /\ pc' = "head"
              /\ origin' = Len(chain)
         ELSE /\ live' = FALSE
              /\ nextBlock' = begin
              /\ rangeEnd' = IF to # NoBlock THEN to ELSE begin
              /\ pc' = "block"
              /\ UNCHANGED origin
  /\ UNCHANGED <<network, store, header, filter, logs, buffer>>

(* _run_live up to the collector's first step: load the checkpoint and      *)
(* choose where to begin.  With a start block - the operator's, or the one  *)
(* after the checkpoint - it runs one bounded process_range; only without   *)
(* both does it tail the chain from its head.                               *)
Start(from, to) ==
  /\ pc = "down"
  /\ starts < MaxStarts
  /\ starts' = starts + 1
  /\ stop' = FALSE
  /\ LET begin == IF from # NoBlock THEN from
                  ELSE IF checkpoint # NoBlock THEN checkpoint + 1 ELSE NoBlock
     IN  IF begin = NoBlock
         THEN /\ live' = TRUE
              /\ nextBlock' = Len(chain)
              /\ rangeEnd' = 0
              /\ pc' = "head"
              /\ origin' = Len(chain)
         ELSE /\ live' = FALSE
              /\ nextBlock' = begin
              /\ rangeEnd' = IF to # NoBlock THEN to ELSE begin
              /\ pc' = "block"
              /\ UNCHANGED origin
  /\ UNCHANGED <<network, store, header, filter, logs, buffer>>

(* SIGTERM and SIGINT. *)
RequestStop ==
  /\ pc # "down"
  /\ ~stop
  /\ stop' = TRUE
  /\ UNCHANGED <<network, store, pc, live, nextBlock, rangeEnd, header, filter, logs, buffer,
                 history>>

(* A kill, or any exception that reaches main: RPC or database failure.     *)
(* Without a later start nothing changes the store any more.                *)
Crash ==
  /\ pc # "down"
  /\ starts < MaxStarts
  /\ Off
  /\ UNCHANGED <<network, store, history>>

(* run_from: read the head; the sleep when there is nothing new changes     *)
(* nothing.                                                                 *)
PollHead ==
  /\ pc = "head"
  /\ ~stop
  /\ Len(chain) >= nextBlock
  /\ rangeEnd' = Len(chain)
  /\ pc' = "block"
  /\ UNCHANGED <<network, store, live, stop, nextBlock, header, filter, logs, buffer, history>>

StopPolling ==
  /\ pc = "head"
  /\ stop
  /\ Off
  /\ UNCHANGED <<network, store, history>>

(* The loop of process_range ends at its last block or at a stop request;   *)
(* run_from then continues after the head it had read, a bounded run exits. *)
EndRange ==
  /\ pc = "block"
  /\ stop \/ nextBlock > rangeEnd
  /\ IF live
     THEN /\ pc' = "head"
          /\ nextBlock' = rangeEnd + 1
          /\ UNCHANGED <<live, stop, rangeEnd, header, filter, logs, buffer>>
     ELSE Off
  /\ UNCHANGED <<network, store, history>>

(* Not the code: the head's header instead of the block's.                  *)
ReadHeaderOfHead ==
  /\ pc = "block"
  /\ ~stop
  /\ nextBlock <= rangeEnd
  /\ nextBlock \in 1 .. Len(chain)
  /\ header' = HashAt(chain, Len(chain))
  /\ filter' = 1
  /\ pc' = "logs"
  /\ UNCHANGED <<network, store, live, stop, nextBlock, rangeEnd, logs, buffer, history>>

(* _process_block: the header first, ... *)
ReadHeader ==
  /\ pc = "block"
  /\ ~stop
  /\ nextBlock <= rangeEnd
  /\ nextBlock \in 1 .. Len(chain)
  /\ header' = HashAt(chain, nextBlock)
  /\ filter' = 1
  /\ pc' = "logs"
  /\ UNCHANGED <<network, store, live, stop, nextBlock, rangeEnd, logs, buffer, history>>

(* ... where a block the chain does not have is an AcquisitionError, ...    *)
MissingBlock ==
  /\ pc = "block"
  /\ ~stop
  /\ nextBlock <= rangeEnd
  /\ nextBlock \notin 1 .. Len(chain)
  /\ Off
  /\ UNCHANGED <<network, store, history>>

(* ... then the logs of each filter, by block number, ...                   *)
ReadLogs ==
  /\ pc = "logs"
  /\ logs' = logs \cup {[tx |-> t, hash |-> HashAt(chain, nextBlock)] :
                          t \in {u \in CanonicalAt(nextBlock) : FilterOf[u] = filter}}
  /\ filter' = filter + 1
  /\ pc' = IF filter < NumFilters THEN "logs" ELSE "facts"
  /\ UNCHANGED <<network, store, live, stop, nextBlock, rangeEnd, header, buffer, history>>

(* The normalizer: topic counts, signatures and field widths are checked,   *)
(* and a log that fails one of the checks is a DomainValidationError.       *)
Normalizes(tx) == tx \notin Undecodable

(* Not the code: a log that cannot be decoded ends its block.               *)
HandleLogOrGiveUp(log) ==
  /\ pc = "facts"
  /\ log \in logs
  /\ IF Normalizes(log.tx)
     THEN /\ facts' = SaveFact(facts, log.tx, NewFact(nextBlock, log.hash, header))
          /\ logs' = logs \ {log}
     ELSE logs' = {} /\ UNCHANGED facts
  /\ UNCHANGED <<network, checkpoint, pc, live, stop, nextBlock, rangeEnd, header, filter, buffer,
                 history>>

(* ... then the handler for every log, which skips those it cannot decode.  *)
(* The code hands them over by log index; the rows do not depend on it.     *)
HandleLog(log) ==
  /\ pc = "facts"
  /\ log \in logs
  /\ facts' = IF Normalizes(log.tx)
              THEN SaveFact(facts, log.tx, NewFact(nextBlock, log.hash, header))
              ELSE facts
  /\ logs' = logs \ {log}
  /\ UNCHANGED <<network, checkpoint, pc, live, stop, nextBlock, rangeEnd, header, filter, buffer,
                 history>>

BlockStored ==
  /\ pc = "facts"
  /\ logs = {}
  /\ pc' = "finality"
  /\ UNCHANGED <<network, store, memory, history>>

-----------------------------------------------------------------------------
(* FinalityEngine. *)

(* Not the code: a window one header short.                                 *)
PushedShort(buf, h) ==
  LET longer == Append(buf, h) IN IF Len(longer) > Depth - 1 THEN Tail(longer) ELSE longer

(* deque(maxlen=Depth).append *)
Pushed(buf, h) ==
  LET longer == Append(buf, h) IN IF Len(longer) > Depth THEN Tail(longer) ELSE longer

Breaks(buf) == {i \in 2 .. Len(buf) : buf[i].parent # buf[i - 1].hash}
Linked(buf) == Breaks(buf) = {}

(* The position of the first block that does not extend the one before it.  *)
ForkIndex(buf) == CHOOSE i \in Breaks(buf) : \A j \in Breaks(buf) : i <= j

NextBlock ==
  /\ nextBlock' = nextBlock + 1
  /\ pc' = "block"

(* Not the code: continuity is never verified.                              *)
OnNewBlockUnverified ==
  /\ pc = "finality"
  /\ buffer' = Pushed(buffer, HeaderAt(nextBlock))
  /\ IF Len(buffer') < 2 THEN NextBlock ELSE pc' = "advance" /\ UNCHANGED nextBlock
  /\ UNCHANGED <<network, store, live, stop, rangeEnd, header, filter, logs, history>>

(* on_new_block reads the header again, by number.                          *)
OnNewBlock ==
  /\ pc = "finality"
  /\ buffer' = Pushed(buffer, HeaderAt(nextBlock))
  /\ IF Len(buffer') < 2
     THEN NextBlock
     ELSE /\ pc' = IF Linked(buffer') THEN "advance" ELSE "orphan"
          /\ UNCHANGED nextBlock
  /\ UNCHANGED <<network, store, live, stop, rangeEnd, header, filter, logs, history>>

(* _advance_lifecycle commits the counts and the checkpoint separately.     *)
AdvanceLifecycle ==
  /\ pc = "advance"
  /\ facts' = AdvanceConfirmationCounts(facts, nextBlock, Depth)
  /\ pc' = "checkpoint"
  /\ UNCHANGED <<network, checkpoint, memory, history>>

(* Not the code: a checkpoint one block above the last finalized one.       *)
SaveCheckpointEarly ==
  /\ pc = "checkpoint"
  /\ checkpoint' = IF nextBlock - Depth >= 0 THEN nextBlock - Depth + 1 ELSE checkpoint
  /\ NextBlock
  /\ UNCHANGED <<network, facts, live, stop, rangeEnd, header, filter, logs, buffer, history>>

(* Not the code: the head itself is checkpointed.                           *)
SaveCheckpointOfHead ==
  /\ pc = "checkpoint"
  /\ checkpoint' = IF nextBlock - Depth >= 0 THEN nextBlock ELSE checkpoint
  /\ NextBlock
  /\ UNCHANGED <<network, facts, live, stop, rangeEnd, header, filter, logs, buffer, history>>

SaveCheckpoint ==
  /\ pc = "checkpoint"
  /\ checkpoint' = IF nextBlock - Depth >= 0 THEN nextBlock - Depth ELSE checkpoint
  /\ NextBlock
  /\ UNCHANGED <<network, facts, live, stop, rangeEnd, header, filter, logs, buffer, history>>

(* Not the code: the fork block itself is orphaned as well.                 *)
HandleReorgFromFork ==
  /\ pc = "orphan"
  /\ LET fork == ForkIndex(buffer)
     IN  /\ facts' = MarkFactsOrphaned(facts, buffer[fork - 1].number,
                                       buffer[Len(buffer)].number)
         /\ buffer' = SubSeq(buffer, 1, fork - 1)
  /\ NextBlock
  /\ UNCHANGED <<network, checkpoint, live, stop, rangeEnd, header, filter, logs, history>>

(* _handle_reorg: everything above the last linked header, up to the block  *)
(* just read, is orphaned and leaves the buffer.                            *)
HandleReorg ==
  /\ pc = "orphan"
  /\ LET fork == ForkIndex(buffer)
     IN  /\ facts' = MarkFactsOrphaned(facts, buffer[fork - 1].number + 1,
                                       buffer[Len(buffer)].number)
         /\ buffer' = SubSeq(buffer, 1, fork - 1)
  /\ NextBlock
  /\ UNCHANGED <<network, checkpoint, live, stop, rangeEnd, header, filter, logs, history>>

-----------------------------------------------------------------------------
Init ==
  /\ chain = <<[hash |-> 1, txs |-> {}]>> /\ minted = 1 /\ reorgs = 0 /\ torn = FALSE
  /\ facts = [t \in Txs |-> NoRow]
  /\ checkpoint = NoBlock
  /\ pc = "down"
  /\ live = FALSE /\ stop = FALSE
  /\ nextBlock = 0 /\ rangeEnd = 0 /\ header = 0 /\ filter = 0
  /\ logs = {} /\ buffer = <<>>
  /\ starts = 0 /\ origin = 0

Network ==
  \/ \E txs \in SUBSET Txs : Mine(txs)
  \/ \E d \in 1 .. MaxReorg : \E txsOf \in [1 .. d -> SUBSET Txs] : Reorg(d, txsOf)

Engine == OnNewBlock \/ AdvanceLifecycle \/ SaveCheckpoint \/ HandleReorg

Collect ==
  \/ PollHead \/ StopPolling \/ EndRange
  \/ ReadHeader \/ MissingBlock \/ ReadLogs
  \/ \E log \in logs : HandleLog(log)
  \/ BlockStored

Operator ==
  \/ \E from \in StartArgs, to \in EndArgs : Start(from, to)
  \/ RequestStop

Next == Network \/ Operator \/ Crash \/ Collect \/ Engine

Spec == Init /\ [][Next]_vars

(* A process that is up keeps running, and the chain keeps growing.         *)
Fairness ==
  /\ WF_vars(Collect \/ Engine)
  /\ WF_vars(\E txs \in SUBSET Txs : Mine(txs))

FairSpec == Spec /\ Fairness
-----------------------------------------------------------------------------
(* Properties.                                                              *)

(* save_fact never overwrites and facts are never deleted: a stored fact    *)
(* keeps its block, hash and event time.  FINALIZED changes only to         *)
(* ORPHANED, and an ORPHANED row is never touched again (the rule stated by *)
(* advance_confirmation_counts and mark_facts_orphaned).                    *)
KeepsHistory(old, new) ==
  /\ old.status # Absent =>
       /\ new.status # Absent
       /\ new.block = old.block /\ new.hash = old.hash /\ new.time = old.time
  /\ old.status = Finalized => new = old \/ new.status = Orphaned
  /\ old.status = Orphaned  => new = old

FactHistory == [][\A t \in Txs : KeepsHistory(facts[t], facts'[t])]_facts

(* A row's status and its confirmation count never disagree: FINALIZED      *)
(* needs Depth confirmations, anything below has fewer, and the CHECK       *)
(* constraint (confirmations >= 0) is never hit.                            *)
CountFits(row) ==
  /\ row.confs >= 0
  /\ row.status = Finalized => row.confs >= Depth
  /\ row.status = Confirmed => row.confs < Depth
  /\ row.status \in {Absent, Pending, Orphaned} => row.confs = 0

StatusMatchesCount == \A t \in Txs : CountFits(facts[t])

(* The window of headers: between two calls of on_new_block it is linked,   *)
(* and inside a call the only break there can be is at the block just       *)
(* appended - the scan of the whole window never finds an older one.        *)
HeaderWindow ==
  /\ pc \notin {"advance", "checkpoint", "orphan"} => Linked(buffer)
  /\ pc \in {"advance", "checkpoint", "orphan"} =>
       Len(buffer) >= 2 /\ buffer[Len(buffer)].number = nextBlock
  /\ pc \in {"advance", "checkpoint"} => Linked(buffer)
  /\ pc = "orphan" => Breaks(buffer) = {Len(buffer)}

(* A fact is finalized only while the headers in the buffer are linked up   *)
(* to the head the counts are taken from, and Depth blocks below that head. *)
BecomesFinalized(t) == facts[t].status # Finalized /\ facts'[t].status = Finalized
CoveredByWindow(t) ==
  /\ Len(buffer) >= 2 /\ Linked(buffer)
  /\ buffer[Len(buffer)].number = nextBlock
  /\ facts[t].block + Depth <= nextBlock

FinalizedOnLinkedHeaders ==
  [][\A t \in Txs : BecomesFinalized(t) => CoveredByWindow(t)]_facts

(* Reorg handling orphans no fact of a block that it leaves in the buffer   *)
(* as canonical, and after it the buffer is linked again.                   *)
BecomesOrphaned(t) == facts[t].status # Orphaned /\ facts'[t].status = Orphaned
AboveWindow(t) ==
  /\ buffer # <<>> /\ Linked(buffer)
  /\ facts[t].block > buffer[Len(buffer)].number

OrphanedAboveFork ==
  [][\A t \in Txs : BecomesOrphaned(t) => AboveWindow(t)']_facts

(* Only finalized blocks are checkpointed: no fact at or below the          *)
(* checkpoint is still waiting for confirmations.                           *)
CheckpointIsFinal ==
  \A t \in Txs : facts[t].block <= checkpoint => facts[t].status \notin Advancing

(* Recovery: a process that resumes from the checkpoint saves the next one   *)
(* from a window of few headers.  The checkpoint may fall back then, but    *)
(* only while the window refills, and by at most Depth - 2 blocks.          *)
RecoveryKeepsCheckpoint ==
  [][checkpoint' < checkpoint =>
       Len(buffer) < Depth /\ checkpoint' + Depth >= checkpoint + 2]_checkpoint

(* A FINALIZED fact stays so: what the engine later orphans, on whatever    *)
(* header left in the window a break is noticed, lies above all final facts.*)
FinalizedForever ==
  [][\A t \in Txs : facts[t].status = Finalized => facts'[t] = facts[t]]_facts

(* Finality: the block of a FINALIZED fact is on the canonical chain.  It   *)
(* holds while the first process is up and no block is replaced between two *)
(* of the reads made of it; the window is lost in a restart.                *)
FinalizedIsCanonical ==
  starts <= 1 /\ ~torn =>
    \A t \in Txs : facts[t].status = Finalized => facts[t].hash = HashAt(chain, facts[t].block)

(* Recovery: nothing between the block ingestion began at and the           *)
(* checkpoint is missing from the store, as long as no block was replaced   *)
(* between the queries of its logs.                                         *)
CheckpointComplete ==
  ~torn =>
    \A n \in origin .. checkpoint :
      \A t \in CanonicalAt(n) \ Undecodable : facts[t].status # Absent

(* event_time is the time of the block that block_hash names, although the  *)
(* two are read by separate calls (DOC-012).                                *)
EventTimeOfBlock == ~torn => \A t \in Txs : facts[t].time = facts[t].hash

(* The confirmation lifecycle of ADR-006 is implemented.                    *)
Lifecycle == INSTANCE ConfirmationLifecycle
               WITH Facts <- Txs, status <- [t \in Txs |-> facts[t].status]
ImplementsLifecycle == Lifecycle!Spec

(* A fact whose block gets Depth blocks on top of it is finalized, when     *)
(* nothing reorganises and the process that stored it does not end first.   *)
JustStored(t) == pc = "finality" /\ facts[t].status = Pending /\ facts[t].block = nextBlock

EventuallyFinalized ==
  \A t \in Txs :
    (JustStored(t) /\ nextBlock + Depth <= MaxHeight)
      ~> (facts[t].status = Finalized \/ pc = "down")

(* Recovery: a process resumed up to block n, wherever the one before it    *)
(* stopped or crashed, leaves every log FINALIZED that a process never      *)
(* interrupted would have by then.                                          *)
Recovering(n) ==
  starts = MaxStarts /\ pc = "block" /\ ~live /\ rangeEnd = n /\ n <= Len(chain)
FinalUpTo(m) ==
  \A k \in origin .. m : \A t \in CanonicalAt(k) \ Undecodable : facts[t].status = Finalized

RecoveryCompletes ==
  \A n \in 1 .. MaxHeight : Recovering(n) ~> (stop \/ FinalUpTo(n - Depth))

(* What documents and comments say of this code and it does not do.         *)

(* ADR-006: after a reorganisation all affected facts are orphaned.  Judged *)
(* when the live loop has processed the whole chain, for blocks that have   *)
(* left the confirmation window.                                            *)
AffectedFactsOrphaned ==
  pc = "head" /\ ~stop /\ nextBlock > Len(chain) =>
    \A t \in Txs :
      /\ facts[t].status # Absent
      /\ facts[t].block + Depth <= Len(chain)
      /\ facts[t].hash # HashAt(chain, facts[t].block)
      => facts[t].status = Orphaned

(* finality_engine.py: the on_new_block after a reorganisation rebuilds the *)
(* buffer, so between blocks it lacks at most the divergent block.          *)
BufferRebuilt ==
  pc = "head" /\ ~stop /\ buffer # <<>> => buffer[Len(buffer)].number >= nextBlock - 2
==============================================================================
