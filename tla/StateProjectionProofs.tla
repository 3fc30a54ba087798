------------------------ MODULE StateProjectionProofs ------------------------
(***************************************************************************)
(* Theorems about the projection of a pool: while nothing reorganises, it  *)
(* is a replay of the facts that were read, whatever crashed between the   *)
(* commits of the handler, and a finished block has resolved its pair.     *)
(***************************************************************************)
EXTENDS StateProjection, FinalityProofs, FiniteSetTheorems, WellFoundedInduction

-----------------------------------------------------------------------------
(* Replays of sets of facts, in the order of block and log index.           *)

(* The facts S have an order: there are finitely many, with their blocks.   *)
Ordered(table, S) == IsFiniteSet(S) /\ S \subseteq Txs /\ \A t \in S : table[t].block \in Nat

(* The last of some facts in that order.                                    *)
IsLast(table, S, t) == t \in S /\ \A u \in S \ {t} : InChainOrder(table, u, t)

(* The least set of a family of finite sets.                                *)
LEMMA LeastSet ==
  ASSUME NEW U, IsFiniteSet(U), NEW F, F \subseteq SUBSET U, F # {}
  PROVE  \E S \in F : \A T \in F : T \subseteq S => T = S
<1>1. F \subseteq FiniteSubsetsOf(U)
  BY FS_Subset DEF FiniteSubsetsOf
<1>2. PICK S \in F : \A T \in F : ~(<<T, S>> \in StrictSubsetOrdering(U))
  BY <1>1, FS_StrictSubsetOrderingWellFounded, WFMin
<1>3. QED BY <1>2 DEF StrictSubsetOrdering

(* Subsets have the order, too.                                             *)
LEMMA OrderedSubset ==
  ASSUME NEW table, NEW S, Ordered(table, S), NEW T \in SUBSET S
  PROVE  Ordered(table, T)
  BY FS_Subset DEF Ordered

(* The order is one: of two facts one is later, and not both.               *)
LEMMA ChainOrder ==
  ASSUME NEW table, NEW S, Ordered(table, S)
  PROVE  /\ \A t, u \in S : t = u \/ InChainOrder(table, t, u) \/ InChainOrder(table, u, t)
         /\ \A t, u \in S : ~(InChainOrder(table, t, u) /\ InChainOrder(table, u, t))
         /\ \A t, u, v \in S :
              InChainOrder(table, t, u) /\ InChainOrder(table, u, v) => InChainOrder(table, t, v)
<1>1. \A t \in S : t \in Txs /\ table[t].block \in Nat /\ LogIndex[t] \in Nat
  BY ProjectionAssumption DEF Ordered
<1>2. \A t, u \in S : LogIndex[t] = LogIndex[u] => t = u
  BY ProjectionAssumption DEF Ordered
<1>3. QED BY <1>1, <1>2 DEF InChainOrder

(* So any facts have a last one ...                                         *)
LEMMA LastExists ==
  ASSUME NEW table, NEW S, Ordered(table, S)
  PROVE  \A T \in SUBSET S : T # {} => IsLast(table, T, LastOf(table, T))
<1> DEFINE Bad == {T \in SUBSET S : T # {} /\ \A t \in T : ~IsLast(table, T, t)}
<1>1. Bad = {}
  <2>1. SUFFICES ASSUME Bad # {} PROVE FALSE
    OBVIOUS
  <2>2. PICK T \in Bad : \A R \in Bad : R \subseteq T => R = T
    <3>1. Bad \subseteq SUBSET S /\ IsFiniteSet(S)
      BY DEF Ordered
    <3> HIDE DEF Bad
    <3>2. QED BY <2>1, <3>1, LeastSet
  <2>3. T \in SUBSET S /\ T # {} /\ \A t \in T : ~IsLast(table, T, t)
    OBVIOUS
  <2>4. PICK x \in T : TRUE
    BY <2>3
  <2>5. T \ {x} # {}
    BY <2>3, <2>4 DEF IsLast
  <2>6. PICK y \in T \ {x} : IsLast(table, T \ {x}, y)
    BY <2>2, <2>3, <2>4, <2>5
  <2>7. CASE InChainOrder(table, x, y)
    <3>1. IsLast(table, T, y)
      BY <2>6, <2>7 DEF IsLast
    <3>2. QED BY <2>3, <2>6, <3>1
  <2>8. CASE ~InChainOrder(table, x, y)
    <3>0. x \in S /\ y \in S /\ x # y
      BY <2>3, <2>4, <2>6
    <3>1. InChainOrder(table, y, x)
      BY <2>8, <3>0, ChainOrder
    <3>2. ASSUME NEW u \in T \ {x} PROVE InChainOrder(table, u, x)
      <4>1. CASE u = y
        BY <3>1, <4>1
      <4>2. CASE u # y
        <5>1. InChainOrder(table, u, y) /\ u \in S
          BY <2>3, <2>6, <3>2, <4>2 DEF IsLast
        <5>2. QED BY <3>0, <3>1, <5>1, ChainOrder
      <4>3. QED BY <4>1, <4>2
    <3>3. QED BY <2>3, <2>4, <3>2 DEF IsLast
  <2>9. QED BY <2>7, <2>8
<1>2. ASSUME NEW T \in SUBSET S, T # {}
      PROVE  IsLast(table, T, LastOf(table, T))
  <2>1. PICK t \in T : IsLast(table, T, t)
    BY <1>1, <1>2
  <2>2. \E x \in T : \A u \in T \ {x} : InChainOrder(table, u, x)
    BY <2>1 DEF IsLast
  <2>3. QED BY <2>2 DEF IsLast, LastOf
<1>3. QED BY <1>2

(* ... and only one.                                                        *)
LEMMA OneLast ==
  ASSUME NEW table, NEW S, Ordered(table, S), NEW t, IsLast(table, S, t)
  PROVE  LastOf(table, S) = t
<1>1. IsLast(table, S, LastOf(table, S))
  BY LastExists DEF IsLast
<1>2. QED BY <1>1, ChainOrder DEF IsLast

(* Replay is a recursive function; g is one as far as the subset T of the   *)
(* facts goes.                                                              *)
ReplayedAt(g, table, T) ==
  g[T] = IF T = {} THEN NoProjection
         ELSE Applied(g[T \ {LastOf(table, T)}], LastOf(table, T))

Replayed(g, table, S) == \A T \in SUBSET S : ReplayedAt(g, table, T)

(* Every finite set of facts has one: the least set without it has a last   *)
(* fact, and what is applied before that fact has one.                      *)
LEMMA ReplayedExists ==
  ASSUME NEW table, NEW U, Ordered(table, U)
  PROVE  \A S \in SUBSET U : \E g : Replayed(g, table, S)
<1> DEFINE Bad == {S \in SUBSET U : ~\E g : Replayed(g, table, S)}
<1>1. SUFFICES ASSUME Bad # {} PROVE FALSE
  OBVIOUS
<1>2. PICK S \in Bad : \A R \in Bad : R \subseteq S => R = S
  <2>1. Bad \subseteq SUBSET U /\ IsFiniteSet(U)
    BY DEF Ordered
  <2> HIDE DEF Bad
  <2>2. QED BY <1>1, <2>1, LeastSet
<1>3. S \in SUBSET U /\ ~\E g : Replayed(g, table, S)
  OBVIOUS
<1>4. CASE S = {}
  <2> DEFINE g == [T \in SUBSET S |-> NoProjection]
  <2>1. Replayed(g, table, S)
    BY <1>4 DEF Replayed, ReplayedAt
  <2> HIDE DEF g
  <2>2. QED BY <1>3, <2>1
<1>5. CASE S # {}
  <2>1. PICK l : l = LastOf(table, S)
    OBVIOUS
  <2>2. IsLast(table, S, l)
    BY <1>3, <1>5, <2>1, LastExists
  <2>3. PICK g : Replayed(g, table, S \ {l})
    <3>1. l \in S /\ S \ {l} \in SUBSET U
      BY <1>3, <2>2 DEF IsLast
    <3>2. S \ {l} \notin Bad
      BY <1>2, <3>1
    <3>3. QED BY <3>1, <3>2
  <2> DEFINE h == [T \in SUBSET S |-> IF l \in T THEN Applied(g[T \ {l}], l) ELSE g[T]]
  <2>4. ASSUME NEW T \in SUBSET S PROVE ReplayedAt(h, table, T)
    <3>1. CASE l \in T
      <4>1. IsLast(table, T, l)
        BY <2>2, <3>1 DEF IsLast
      <4>2. Ordered(table, T)
        BY <1>3, OrderedSubset
      <4>3. LastOf(table, T) = l
        BY <4>1, <4>2, OneLast
      <4>4. h[T] = Applied(g[T \ {l}], l) /\ h[T \ {l}] = g[T \ {l}]
        BY <3>1
      <4> HIDE DEF h
      <4>5. QED BY <3>1, <4>3, <4>4 DEF ReplayedAt
    <3>2. CASE l \notin T
      <4>1. T \in SUBSET (S \ {l})
        BY <3>2
      <4>2. h[T] = g[T] /\ \A x : h[T \ {x}] = g[T \ {x}]
        BY <3>2
      <4>3. ReplayedAt(g, table, T)
        BY <2>3, <4>1 DEF Replayed
      <4> HIDE DEF h
      <4>4. QED BY <4>2, <4>3 DEF ReplayedAt
    <3>3. QED BY <3>1, <3>2
  <2> HIDE DEF h
  <2>5. Replayed(h, table, S)
    BY <2>4 DEF Replayed
  <2>6. QED BY <1>3, <2>5
<1>6. QED BY <1>4, <1>5

(* What it says of a set does not depend on the facts around it, and of     *)
(* the rows only on their blocks.                                           *)
LEMMA ReplayedAgree ==
  ASSUME NEW table, NEW other, NEW S, Ordered(table, S), Ordered(other, S),
         \A t \in S : table[t].block = other[t].block,
         NEW g, NEW h, Replayed(g, table, S), Replayed(h, other, S)
  PROVE  g[S] = h[S]
<1> DEFINE Bad == {T \in SUBSET S : g[T] # h[T]}
<1>1. Bad = {}
  <2>1. SUFFICES ASSUME Bad # {} PROVE FALSE
    OBVIOUS
  <2>2. PICK T \in Bad : \A R \in Bad : R \subseteq T => R = T
    <3>1. Bad \subseteq SUBSET S /\ IsFiniteSet(S)
      BY DEF Ordered
    <3> HIDE DEF Bad
    <3>2. QED BY <2>1, <3>1, LeastSet
  <2>3. T \in SUBSET S /\ g[T] # h[T] /\ ReplayedAt(g, table, T) /\ ReplayedAt(h, other, T)
    BY DEF Replayed
  <2>4. T # {}
    BY <2>3 DEF ReplayedAt
  <2>5. PICK l : l = LastOf(table, T)
    OBVIOUS
  <2>6. IsLast(table, T, l)
    BY <2>3, <2>4, <2>5, LastExists
  <2>7. l = LastOf(other, T)
    <3>1. IsLast(other, T, l)
      BY <2>3, <2>6 DEF IsLast, InChainOrder
    <3>2. Ordered(other, T)
      BY <2>3, OrderedSubset
    <3>3. QED BY <3>1, <3>2, OneLast
  <2>8. g[T] = Applied(g[T \ {l}], l) /\ h[T] = Applied(h[T \ {l}], l)
    BY <2>3, <2>4, <2>5, <2>7 DEF ReplayedAt
  <2>9. l \in T /\ T \ {l} \in SUBSET S /\ T \ {l} # T
    BY <2>3, <2>6 DEF IsLast
  <2>10. g[T \ {l}] = h[T \ {l}]
    BY <2>2, <2>9
  <2>11. QED BY <2>3, <2>8, <2>10
<1>2. QED BY <1>1

(* Replay is such a function.                                               *)
LEMMA ReplayIsReplayed ==
  ASSUME NEW table, NEW S, Ordered(table, S)
  PROVE  \E g : Replay(table, S) = g[S] /\ Replayed(g, table, S)
<1> DEFINE It == CHOOSE g : g = [T \in SUBSET S |->
                   IF T = {} THEN NoProjection
                   ELSE Applied(g[T \ {LastOf(table, T)}], LastOf(table, T))]
<1>1. Replay(table, S) = It[S]
  BY Zenon DEF Replay
<1>2. \E g : g = [T \in SUBSET S |->
                   IF T = {} THEN NoProjection
                   ELSE Applied(g[T \ {LastOf(table, T)}], LastOf(table, T))]
  <2>1. PICK g : Replayed(g, table, S)
    BY ReplayedExists
  <2> DEFINE h == [T \in SUBSET S |-> g[T]]
  <2>2. ASSUME NEW T \in SUBSET S
        PROVE  h[T] = IF T = {} THEN NoProjection
                      ELSE Applied(h[T \ {LastOf(table, T)}], LastOf(table, T))
    <3>1. h[T] = g[T] /\ \A x : h[T \ {x}] = g[T \ {x}]
      OBVIOUS
    <3>2. ReplayedAt(g, table, T)
      BY <2>1 DEF Replayed
    <3> HIDE DEF h
    <3>3. QED BY <3>1, <3>2 DEF ReplayedAt
  <2>3. h = [T \in SUBSET S |-> h[T]]
    OBVIOUS
  <2>4. h = [T \in SUBSET S |-> IF T = {} THEN NoProjection
                                ELSE Applied(h[T \ {LastOf(table, T)}], LastOf(table, T))]
    <3> HIDE DEF h
    <3>1. QED BY <2>2, <2>3
  <2> HIDE DEF h
  <2>5. QED BY <2>4
<1>3. It = [T \in SUBSET S |-> IF T = {} THEN NoProjection
                               ELSE Applied(It[T \ {LastOf(table, T)}], LastOf(table, T))]
  BY <1>2
<1>4. Replayed(It, table, S)
  <2> HIDE DEF It
  <2>1. QED BY <1>3 DEF Replayed, ReplayedAt
<1> HIDE DEF It
<1>5. QED BY <1>1, <1>4

(* A replay depends on the blocks of the facts only.                        *)
LEMMA ReplayAgrees ==
  ASSUME NEW table, NEW other, NEW S, Ordered(table, S),
         \A t \in S : table[t].block = other[t].block
  PROVE  Replay(table, S) = Replay(other, S)
<1>1. Ordered(other, S)
  BY DEF Ordered
<1>2. PICK g : Replay(table, S) = g[S] /\ Replayed(g, table, S)
  BY ReplayIsReplayed
<1>3. PICK h : Replay(other, S) = h[S] /\ Replayed(h, other, S)
  BY <1>1, ReplayIsReplayed
<1>4. g[S] = h[S]
  BY <1>1, <1>2, <1>3, ReplayedAgree
<1>5. QED BY <1>2, <1>3, <1>4

(* A fact later than the others is applied to their replay.                 *)
LEMMA ReplayLater ==
  ASSUME NEW table, NEW S, NEW t, t \notin S, Ordered(table, S \cup {t}),
         \A u \in S : InChainOrder(table, u, t)
  PROVE  Replay(table, S \cup {t}) = Applied(Replay(table, S), t)
<1> DEFINE T == S \cup {t}
<1>1. IsLast(table, T, t) /\ T # {} /\ T \ {t} = S /\ S \in SUBSET T
  BY DEF IsLast
<1> HIDE DEF T
<1>2. Ordered(table, T) /\ Ordered(table, S)
  BY <1>1, OrderedSubset DEF T
<1>3. LastOf(table, T) = t
  BY <1>1, <1>2, OneLast
<1>4. PICK g : Replay(table, T) = g[T] /\ Replayed(g, table, T)
  BY <1>2, ReplayIsReplayed
<1>5. PICK h : Replay(table, S) = h[S] /\ Replayed(h, table, S)
  BY <1>2, ReplayIsReplayed
<1>6. g[T] = Applied(g[S], t)
  <2>1. ReplayedAt(g, table, T)
    BY <1>4 DEF Replayed
  <2>2. QED BY <2>1, <1>1, <1>3 DEF ReplayedAt
<1>7. Replayed(g, table, S)
  BY <1>1, <1>4 DEF Replayed
<1>8. g[S] = h[S]
  BY <1>2, <1>5, <1>7, ReplayedAgree
<1>9. QED BY <1>4, <1>5, <1>6, <1>8 DEF T

(* A replay of nothing, or of creations only, leaves nothing.               *)
LEMMA ReplayCreations ==
  ASSUME NEW table, NEW S, Ordered(table, S), \A t \in S : FactType[t] = PairCreated
  PROVE  Replay(table, S) = NoProjection
<1>1. PICK g : Replay(table, S) = g[S] /\ Replayed(g, table, S)
  BY ReplayIsReplayed
<1> DEFINE Bad == {T \in SUBSET S : g[T] # NoProjection}
<1>2. Bad = {}
  <2>1. SUFFICES ASSUME Bad # {} PROVE FALSE
    OBVIOUS
  <2>2. PICK T \in Bad : \A R \in Bad : R \subseteq T => R = T
    <3>1. Bad \subseteq SUBSET S /\ IsFiniteSet(S)
      BY DEF Ordered
    <3> HIDE DEF Bad
    <3>2. QED BY <2>1, <3>1, LeastSet
  <2>3. T \in SUBSET S /\ g[T] # NoProjection /\ ReplayedAt(g, table, T)
    BY <1>1 DEF Replayed
  <2>4. T # {}
    BY <2>3 DEF ReplayedAt
  <2>5. PICK l : l = LastOf(table, T)
    OBVIOUS
  <2>6. l \in T /\ l \in S
    BY <2>3, <2>4, <2>5, LastExists DEF IsLast
  <2>7. g[T] = g[T \ {l}]
    <3>1. Applied(g[T \ {l}], l) = g[T \ {l}]
      BY <2>6 DEF Applied
    <3>2. QED BY <2>3, <2>4, <2>5, <3>1 DEF ReplayedAt
  <2>8. T \ {l} \in SUBSET S /\ T \ {l} # T
    BY <2>3, <2>6
  <2>9. g[T \ {l}] = NoProjection
    BY <2>2, <2>8
  <2>10. QED BY <2>3, <2>7, <2>9
<1>3. QED BY <1>1, <1>2

-----------------------------------------------------------------------------
(* The inductive invariant.                                                 *)

(* The logs of a block that normalize to a fact.                            *)
Decodable(n) == CanonicalAt(n) \ Undecodable

(* A log is in one block.                                                   *)
OneBlock == \A m, n \in 1 .. Len(chain) : \A t \in chain[m].txs : t \in chain[n].txs => m = n

(* The chain while nothing reorganises: no block read with logs of          *)
(* another, no log twice, and nothing that happens to a pool before its     *)
(* creation.                                                                *)
World == ~torn /\ OneBlock /\ Causal(chain)

(* A stored fact is that of a log, at the block it says.                    *)
Origins == \A t \in Stored : t \in Decodable(facts[t].block)

(* The facts of the block in flight that were handled, as far as that goes. *)
Waiting(t) == handling = t \/ \E log \in logs : log.tx = t
Handled ==
  IF pc \in {"facts", "finality"} \cup Called
  THEN {t \in Decodable(nextBlock) : ~Waiting(t)} ELSE {}

(* Logs are handled by log index, one after the other.                      *)
HandlerOrder ==
  /\ \A log \in logs : log.tx \in CanonicalAt(nextBlock)
  /\ handling # NoTx =>
       /\ pc = "facts" /\ handling \in Decodable(nextBlock) \cap Stored
       /\ \A log \in logs : LogIndex[handling] < LogIndex[log.tx]
  /\ \A t \in Handled :
       /\ t \in Stored
       /\ handling # NoTx => LogIndex[t] < LogIndex[handling]
       /\ \A log \in logs : LogIndex[t] < LogIndex[log.tx]

(* A handled creation has resolved the pair.                                *)
PairKnown == \A t \in Handled : FactType[t] = PairCreated => pair # NoTx

(* The projection is a replay of what was stored below the block in flight  *)
(* and of what was handled of it.                                           *)
ReadSoFar == BelowBlock(nextBlock) \cup Handled
Projected ==
  aligned /\ pc # "down" /\ ~(pc = "head" /\ stop) =>
    projection = IF pair = NoTx THEN NoProjection ELSE Replay(facts, ReadSoFar)

(* The inductive invariant, beside that of the ingestion.  A                *)
(* reorganisation ends it: an orphaned fact stays in the projection.        *)
PoolInv ==
  reorgs = 0 => World /\ IsFiniteSet(Stored) /\ Origins /\ HandlerOrder /\ PairKnown /\ Projected

(* Only a reorganisation tears the reads of a block apart.                  *)
NeverTorn == torn => reorgs > 0

-----------------------------------------------------------------------------
(* One step.                                                                *)

(* The pool and the ingestion before a step, with nothing reorganised.      *)
Ready ==
  /\ IInv /\ ChainInv /\ reorgs = 0
  /\ World /\ IsFiniteSet(Stored) /\ Origins /\ HandlerOrder /\ PairKnown /\ Projected

(* The chain only grows, and rows keep their blocks.                        *)
Grown == Len(chain) <= Len(chain') /\ \A n \in 1 .. Len(chain) : chain'[n] = chain[n]
RowsStay ==
  \A t \in Txs :
    facts'[t].block = facts[t].block /\ (facts[t].status = Absent <=> facts'[t].status = Absent)

(* Every step of the pool is one of the ingestion.                          *)
LEMMA PoolStepIsStep == [PoolNext]_allVars => [Next]_vars
<1> USE DEF Next, Collect, Operator
<1>1. Chain => Next
  BY DEF Chain
<1>2. ASSUME NEW from \in StartArgs, NEW to \in EndArgs, StartAndRebuild(from, to)
      PROVE  Next
  BY <1>2 DEF StartAndRebuild
<1>3. CrashAnywhere => Next
  BY DEF CrashAnywhere
<1>4. ASSUME NEW log \in logs, SaveLog(log) PROVE Next
  BY <1>4 DEF SaveLog
<1>5. ResolvePair \/ UpdateProjection => UNCHANGED vars
  BY DEF ResolvePair, UpdateProjection
<1>6. BlockHandled \/ Elsewhere => Next
  BY DEF BlockHandled, Elsewhere
<1>7. UNCHANGED allVars => UNCHANGED vars
  BY DEF allVars
<1>8. QED BY <1>1, <1>2, <1>3, <1>4, <1>5, <1>6, <1>7 DEF PoolNext

(* A log is in one block, where its fact says it is.                        *)
LEMMA BlockOfLog ==
  ASSUME Ready, NEW t \in Stored, NEW n \in Nat, t \in CanonicalAt(n)
  PROVE  facts[t].block = n
<1>1. facts[t].block \in Nat /\ t \in CanonicalAt(facts[t].block)
  BY Typed DEF Ready, Origins, Decodable, Stored
<1>2. QED BY <1>1 DEF Ready, World, OneBlock, CanonicalAt

(* What is read so far is stored, and can be replayed.                      *)
LEMMA ReadIsStored ==
  ASSUME Ready
  PROVE  /\ Handled \subseteq Stored /\ ReadSoFar \subseteq Stored
         /\ Ordered(facts, ReadSoFar) /\ Ordered(facts, Stored)
         /\ \A t \in Handled : facts[t].block = nextBlock
         /\ pc \in InBlock => nextBlock \in 1 .. Len(chain)
         /\ logs # {} => pc \in {"logs", "facts"}
<1>1. Handled \subseteq Stored
  BY DEF Ready, HandlerOrder
<1>2. ReadSoFar \subseteq Stored
  BY <1>1 DEF ReadSoFar, BelowBlock
<1>3. Ordered(facts, Stored)
  BY Typed DEF Ready, Ordered, Stored
<1>4. Ordered(facts, ReadSoFar)
  BY <1>2, <1>3, OrderedSubset
<1>5. \A t \in Handled : facts[t].block = nextBlock
  <2>1. nextBlock \in Nat
    BY Typed DEF Ready
  <2>2. \A t \in Handled : t \in CanonicalAt(nextBlock)
    BY DEF Handled, Decodable
  <2>3. QED BY <1>1, <2>1, <2>2, BlockOfLog
<1>6. /\ pc \in InBlock => nextBlock \in 1 .. Len(chain)
      /\ logs # {} => pc \in {"logs", "facts"}
  BY DEF Ready, ChainInv, Position
<1>7. QED BY <1>1, <1>2, <1>3, <1>4, <1>5, <1>6

(* While rows keep their blocks, so do sets of them, and their replays.     *)
LEMMA SameReplay ==
  ASSUME Ready, RowsStay
  PROVE  /\ Stored' = Stored
         /\ \A n : BelowBlock(n)' = BelowBlock(n)
         /\ \A S \in SUBSET Stored : Replay(facts', S) = Replay(facts, S)
<1>1. Stored' = Stored
  BY DEF RowsStay, Stored
<1>2. \A n : BelowBlock(n)' = BelowBlock(n)
  BY <1>1 DEF RowsStay, BelowBlock, Stored
<1>3. ASSUME NEW S \in SUBSET Stored
      PROVE  Replay(facts', S) = Replay(facts, S)
  <2>1. Ordered(facts, S)
    BY ReadIsStored, OrderedSubset
  <2>2. \A t \in S : facts[t].block = facts'[t].block
    BY DEF RowsStay, Stored
  <2>3. QED BY <2>1, <2>2, ReplayAgrees
<1>4. QED BY <1>1, <1>2, <1>3

(* The chain keeps its blocks.                                              *)
LEMMA SameBlock ==
  ASSUME Ready, IInv', Grown
  PROVE  \A n \in 1 .. Len(chain) : CanonicalAt(n)' = CanonicalAt(n)
<1>1. Len(chain) \in Nat /\ Len(chain') \in Nat
  BY Typed DEF Ready, IInv, TypeOK
<1>2. ASSUME NEW n \in 1 .. Len(chain)
      PROVE  CanonicalAt(n)' = CanonicalAt(n)
  BY <1>1, <1>2 DEF CanonicalAt, Grown
<1>3. QED BY <1>2

(* A step that leaves the handler and the block alone.                      *)
LEMMA QuietStep ==
  ASSUME Ready, IInv', Grown, RowsStay,
         UNCHANGED <<logs, nextBlock, poolVars>>,
         handling # NoTx => pc' = pc,
         pc' \in {"facts", "finality"} \cup Called <=> pc \in {"facts", "finality"} \cup Called,
         pc # "down", pc = "head" /\ stop => pc' = "head" /\ stop'
  PROVE  HandlerOrder' /\ PairKnown' /\ Projected'
<1>1. /\ logs' = logs /\ nextBlock' = nextBlock /\ pair' = pair /\ handling' = handling
      /\ projection' = projection /\ aligned' = aligned
  BY DEF poolVars
<1>2. ASSUME pc \in InBlock
      PROVE  CanonicalAt(nextBlock)' = CanonicalAt(nextBlock)
  <2>1. CanonicalAt(nextBlock)' = CanonicalAt(nextBlock)
    BY <1>1, <1>2, SameBlock, ReadIsStored DEF CanonicalAt
  <2>2. QED BY <2>1
<1>3. Handled' = Handled
  <2>1. CASE pc \in {"facts", "finality"} \cup Called
    <3>1. pc' \in {"facts", "finality"} \cup Called /\ pc \in InBlock
      BY <2>1 DEF InBlock
    <3>2. QED BY <1>1, <1>2, <2>1, <3>1 DEF Handled, Decodable, Waiting
  <2>2. CASE pc \notin {"facts", "finality"} \cup Called
    BY <2>2 DEF Handled
  <2>3. QED BY <2>1, <2>2
<1>4. Stored' = Stored
  BY SameReplay
<1>5. HandlerOrder'
  <2>1. ASSUME NEW log \in logs PROVE log.tx \in CanonicalAt(nextBlock)'
    <3>1. pc \in InBlock /\ log.tx \in CanonicalAt(nextBlock)
      BY <2>1, ReadIsStored DEF Ready, HandlerOrder, InBlock
    <3>2. QED BY <1>2, <3>1
  <2>2. ASSUME handling # NoTx
        PROVE  /\ pc' = "facts" /\ handling \in Decodable(nextBlock)' /\ handling \in Stored
               /\ \A log \in logs : LogIndex[handling] < LogIndex[log.tx]
    <3>1. /\ pc = "facts" /\ handling \in Decodable(nextBlock) \cap Stored
          /\ \A log \in logs : LogIndex[handling] < LogIndex[log.tx]
      BY <2>2 DEF Ready, HandlerOrder
    <3>2. QED BY <1>2, <2>2, <3>1 DEF InBlock, Decodable
  <2>3. \A t \in Handled :
           /\ t \in Stored
           /\ handling # NoTx => LogIndex[t] < LogIndex[handling]
           /\ \A log \in logs : LogIndex[t] < LogIndex[log.tx]
    BY DEF Ready, HandlerOrder
  <2>4. QED BY <1>1, <1>3, <1>4, <2>1, <2>2, <2>3 DEF HandlerOrder
<1>6. PairKnown'
  BY <1>1, <1>3 DEF PairKnown, Ready
<1>7. Projected'
  <2>1. ReadSoFar' = ReadSoFar
    BY <1>1, <1>3, SameReplay DEF ReadSoFar, BelowBlock
  <2>2. Replay(facts', ReadSoFar) = Replay(facts, ReadSoFar)
    BY SameReplay, ReadIsStored
  <2>3. SUFFICES ASSUME aligned', pc' # "down", ~(pc' = "head" /\ stop')
                 PROVE  projection' = IF pair' = NoTx THEN NoProjection ELSE Replay(facts', ReadSoFar')
    BY DEF Projected
  <2>4. projection = IF pair = NoTx THEN NoProjection ELSE Replay(facts, ReadSoFar)
    BY <1>1, <2>3 DEF Ready, Projected
  <2>5. QED BY <1>1, <2>1, <2>2, <2>4
<1>8. QED BY <1>5, <1>6, <1>7

(* A step at which the process ends.                                        *)
LEMMA OffStep ==
  ASSUME Ready, pc' = "down", logs' = {}, handling' = NoTx
  PROVE  HandlerOrder' /\ PairKnown' /\ Projected'
<1>1. Handled' = {}
  BY DEF Handled, Called
<1>2. QED BY <1>1 DEF HandlerOrder, PairKnown, Projected

(* A step that leaves a block whose facts are handled.                      *)
LEMMA NextBlockStep ==
  ASSUME Ready, IInv', Grown, RowsStay, NextBlock, UNCHANGED <<logs, poolVars>>,
         pc \in {"finality"} \cup Called
  PROVE  HandlerOrder' /\ PairKnown' /\ Projected'
<1>1. /\ logs' = logs /\ nextBlock' = nextBlock + 1 /\ pc' = "block" /\ pair' = pair
      /\ handling' = handling /\ projection' = projection /\ aligned' = aligned
  BY DEF poolVars, NextBlock
<1>2. logs = {} /\ handling = NoTx /\ nextBlock \in Nat /\ nextBlock \in 1 .. Len(chain)
  <2>1. pc # "facts" /\ pc # "logs" /\ pc \in InBlock
    BY DEF Called, InBlock
  <2>2. QED BY <2>1, ReadIsStored, Typed DEF Ready, HandlerOrder
<1>3. Handled' = {}
  BY <1>1 DEF Handled, Called
<1>4. ReadSoFar' = ReadSoFar
  <2>1. ReadSoFar' = {t \in Stored : facts[t].block < nextBlock + 1}
    BY <1>1, <1>3, SameReplay DEF ReadSoFar, BelowBlock
  <2>2. ASSUME NEW t \in Stored, facts[t].block < nextBlock + 1
        PROVE  t \in ReadSoFar
    <3>1. t \in Decodable(facts[t].block) /\ t \in Txs /\ facts[t].block \in Nat
      BY Typed DEF Ready, Origins, Stored
    <3>2. CASE facts[t].block < nextBlock
      BY <3>2 DEF ReadSoFar, BelowBlock
    <3>3. CASE facts[t].block = nextBlock
      <4>1. t # NoTx
        BY <3>1, ProjectionAssumption
      <4>2. t \in Handled
        BY <1>2, <3>1, <3>3, <4>1 DEF Handled, Waiting
      <4>3. QED BY <4>2 DEF ReadSoFar
    <3>4. QED BY <1>2, <2>2, <3>1, <3>2, <3>3
  <2>3. ASSUME NEW t \in ReadSoFar
        PROVE  t \in Stored /\ facts[t].block < nextBlock + 1
    <3>1. t \in Stored /\ (t \in BelowBlock(nextBlock) \/ facts[t].block = nextBlock)
      BY ReadIsStored DEF ReadSoFar
    <3>2. facts[t].block \in Nat
      BY <3>1, Typed DEF Ready, Stored
    <3>3. QED BY <1>2, <3>1, <3>2 DEF BelowBlock
  <2>4. QED BY <2>1, <2>2, <2>3
<1>5. HandlerOrder' /\ PairKnown'
  BY <1>1, <1>2, <1>3 DEF HandlerOrder, PairKnown
<1>6. Projected'
  <2>1. Replay(facts', ReadSoFar) = Replay(facts, ReadSoFar)
    BY SameReplay, ReadIsStored
  <2>2. aligned => projection = IF pair = NoTx THEN NoProjection ELSE Replay(facts, ReadSoFar)
    BY DEF Ready, Projected, Called
  <2>3. QED BY <1>1, <1>4, <2>1, <2>2 DEF Projected
<1>7. QED BY <1>5, <1>6

(* A start rebuilds the projection from what is FINALIZED.                  *)
LEMMA StartStep ==
  ASSUME Ready, NEW from, NEW to, StartAndRebuild(from, to)
  PROVE  HandlerOrder' /\ PairKnown' /\ Projected'
<1>1. /\ pc = "down" /\ facts' = facts /\ chain' = chain /\ logs' = logs /\ pair' = pair
      /\ handling' = handling /\ pc' \in {"head", "block"}
      /\ projection' = Rebuilt /\ aligned' = (FinalizedFacts = BelowBlock(nextBlock'))
  BY DEF StartAndRebuild, Start, network, store
<1>2. logs = {} /\ handling = NoTx
  BY <1>1, ReadIsStored DEF Ready, HandlerOrder
<1>3. Handled' = {}
  BY <1>1 DEF Handled, Called
<1>4. ReadSoFar' = BelowBlock(nextBlock')
  BY <1>1, <1>3 DEF ReadSoFar, BelowBlock, Stored
<1>5. HandlerOrder' /\ PairKnown'
  BY <1>1, <1>2, <1>3 DEF HandlerOrder, PairKnown
<1>6. Projected'
  BY <1>1, <1>4 DEF Projected, Rebuilt
<1>7. QED BY <1>5, <1>6

(* The handler takes the next log of the block.                             *)
LEMMA SaveLogStep ==
  ASSUME Ready, IInv', NEW log \in logs, SaveLog(log)
  PROVE  HandlerOrder' /\ PairKnown' /\ Projected'
<1> DEFINE x == log.tx
<1>1. /\ handling = NoTx /\ pc = "facts" /\ pc' = "facts" /\ logs' = logs \ {log}
      /\ nextBlock' = nextBlock /\ chain' = chain /\ stop' = stop
      /\ pair' = pair /\ projection' = projection /\ aligned' = aligned
      /\ handling' = IF Normalizes(x) THEN x ELSE NoTx
      /\ \A other \in logs : LogIndex[x] <= LogIndex[other.tx]
  BY DEF SaveLog, HandleLog, network
<1>2. /\ logs \subseteq Log /\ x \in Txs /\ x # NoTx /\ nextBlock \in Nat
      /\ x \in CanonicalAt(nextBlock)
  <2>1. logs \subseteq Log
    BY DEF Ready, IInv, TypeOK
  <2>2. x \in Txs
    BY <2>1 DEF Log
  <2>3. QED BY <2>1, <2>2, ProjectionAssumption, Typed DEF Ready, HandlerOrder
<1>3. ASSUME NEW other \in logs, other.tx = x PROVE other = log
  <2>1. log.hash = header /\ other.hash = header
    BY <1>1 DEF Ready, ChainInv, ReadsAgree, World
  <2>2. log \in Log /\ other \in Log
    BY <1>2
  <2>3. QED BY <1>3, <2>1, <2>2 DEF Log
<1>4. ASSUME NEW other \in logs' PROVE other \in logs /\ other.tx # x /\ LogIndex[x] < LogIndex[other.tx]
  <2>1. other \in logs /\ other.tx # x
    BY <1>1, <1>3
  <2>2. other.tx \in Txs
    BY <1>2, <2>1 DEF Log
  <2>3. LogIndex[x] \in Nat /\ LogIndex[other.tx] \in Nat /\ LogIndex[x] # LogIndex[other.tx]
    BY <1>2, <2>1, <2>2, ProjectionAssumption
  <2>4. LogIndex[x] <= LogIndex[other.tx]
    BY <1>1, <2>1
  <2>5. QED BY <2>1, <2>3, <2>4
<1>5. CanonicalAt(nextBlock)' = CanonicalAt(nextBlock) /\ Decodable(nextBlock)' = Decodable(nextBlock)
  BY <1>1 DEF CanonicalAt, Decodable
<1>6. ASSUME NEW t \in Decodable(nextBlock)
      PROVE  Waiting(t)' <=> Waiting(t)
  <2>1. t \in Txs /\ t # NoTx /\ t \notin Undecodable
    BY <1>2, HeaderAtType, ProjectionAssumption DEF Decodable, Ready, IInv
  <2>2. CASE t = x
    BY <1>1, <2>1, <2>2 DEF Waiting, Normalizes
  <2>3. CASE t # x
    <3>1. (\E l \in logs : l.tx = t) <=> (\E l \in logs' : l.tx = t)
      BY <1>1, <2>3
    <3>2. handling # t /\ handling' # t
      BY <1>1, <2>1, <2>3
    <3>3. QED BY <3>1, <3>2 DEF Waiting
  <2>4. QED BY <2>2, <2>3
<1>7. Handled' = Handled
  BY <1>1, <1>5, <1>6 DEF Handled
<1>8. /\ \A t \in Txs : \/ facts'[t] = facts[t]
                        \/ /\ t = x /\ facts[t].status = Absent
                           /\ facts'[t] = NewFact(nextBlock, log.hash, header)
      /\ Normalizes(x) => facts'[x].status # Absent
  <2>1. HandleLog(log)
    BY DEF SaveLog
  <2>2. Normalizes(x) => facts'[x].status # Absent
    <3>1. Normalizes(x) => facts' = SaveFact(facts, x, NewFact(nextBlock, log.hash, header))
      BY <2>1 DEF HandleLog
    <3>2. facts \in [Txs -> Row]
      BY DEF Ready, IInv, TypeOK
    <3>3. CASE facts[x].status = Absent
      <4>1. PICK row : row = NewFact(nextBlock, log.hash, header)
        OBVIOUS
      <4>2. row.status # Absent
        BY <4>1 DEF NewFact, Absent, Pending
      <4>3. Normalizes(x) => facts' = [facts EXCEPT ![x] = row]
        BY <3>1, <3>3, <4>1 DEF SaveFact
      <4>4. Normalizes(x) => facts'[x] = row
        BY <1>2, <3>2, <4>3
      <4>5. QED BY <4>2, <4>4
    <3>4. CASE facts[x].status # Absent
      BY <3>1, <3>4 DEF SaveFact
    <3>5. QED BY <3>3, <3>4
  <2>3. QED BY <2>1, <2>2, HandleLogRows DEF Ready
<1>9. /\ Stored \subseteq Stored' /\ \A t \in Stored : facts'[t] = facts[t]
      /\ \A t \in Stored' \ Stored : t = x /\ facts'[t].block = nextBlock
  BY <1>8 DEF Stored, NewFact
<1>10. HandlerOrder'
  <2>1. ASSUME NEW l \in logs' PROVE l.tx \in CanonicalAt(nextBlock)
    BY <1>4, <2>1 DEF Ready, HandlerOrder
  <2>2. ASSUME handling' # NoTx
        PROVE  /\ handling' \in Decodable(nextBlock) \cap Stored'
               /\ \A l \in logs' : LogIndex[handling'] < LogIndex[l.tx]
    <3>1. handling' = x /\ Normalizes(x)
      BY <1>1, <2>2
    <3>2. x \in Decodable(nextBlock) /\ x \in Stored'
      BY <1>2, <1>8, <3>1 DEF Decodable, Normalizes, Stored
    <3>3. QED BY <1>4, <3>1, <3>2
  <2>3. ASSUME NEW t \in Handled
        PROVE  /\ t \in Stored'
               /\ handling' # NoTx => LogIndex[t] < LogIndex[handling']
               /\ \A l \in logs' : LogIndex[t] < LogIndex[l.tx]
    <3>1. t \in Stored /\ \A l \in logs : LogIndex[t] < LogIndex[l.tx]
      BY DEF Ready, HandlerOrder
    <3>2. QED BY <1>1, <1>4, <1>9, <3>1
  <2>4. QED BY <1>1, <1>5, <1>7, <2>1, <2>2, <2>3 DEF HandlerOrder
<1>11. PairKnown'
  BY <1>1, <1>7 DEF PairKnown, Ready
<1>12. Projected'
  <2>1. BelowBlock(nextBlock)' = BelowBlock(nextBlock)
    <3>1. BelowBlock(nextBlock)' = {t \in Stored' : facts'[t].block < nextBlock}
      BY <1>1 DEF BelowBlock
    <3>2. QED BY <1>2, <1>9, <3>1 DEF BelowBlock
  <2>2. ReadSoFar' = ReadSoFar
    BY <1>7, <2>1 DEF ReadSoFar
  <2>3. Replay(facts, ReadSoFar) = Replay(facts', ReadSoFar)
    BY <1>9, ReadIsStored, ReplayAgrees
  <2>4. aligned => projection = IF pair = NoTx THEN NoProjection ELSE Replay(facts, ReadSoFar)
    BY <1>1 DEF Ready, Projected
  <2>5. QED BY <1>1, <2>2, <2>3, <2>4 DEF Projected
<1>13. QED BY <1>10, <1>11, <1>12

(* What the end of a handler does to the facts it has handled.              *)
LEMMA HandlerEnds ==
  ASSUME Ready, handling # NoTx, handling' = NoTx, UNCHANGED vars
  PROVE  /\ handling \in Stored /\ handling \notin ReadSoFar /\ facts[handling].block = nextBlock
         /\ pc = "facts" /\ nextBlock \in 1 .. Len(chain)
         /\ handling \in CanonicalAt(nextBlock)
         /\ Handled' = Handled \cup {handling}
         /\ ReadSoFar' = ReadSoFar \cup {handling}
         /\ \A t \in ReadSoFar : InChainOrder(facts, t, handling)
         /\ Ordered(facts, ReadSoFar \cup {handling})
         /\ HandlerOrder'
<1>1. /\ pc' = pc /\ logs' = logs /\ nextBlock' = nextBlock /\ chain' = chain /\ facts' = facts
  BY DEF vars, network, store, memory
<1>2. /\ pc = "facts" /\ handling \in Decodable(nextBlock) /\ handling \in Stored
      /\ \A log \in logs : LogIndex[handling] < LogIndex[log.tx]
      /\ nextBlock \in 1 .. Len(chain) /\ nextBlock \in Nat /\ handling \in Txs
      /\ LogIndex[handling] \in Nat
  <2>1. pc = "facts" /\ handling \in Decodable(nextBlock) /\ handling \in Stored
        /\ \A log \in logs : LogIndex[handling] < LogIndex[log.tx]
    BY DEF Ready, HandlerOrder
  <2>2. nextBlock \in Nat /\ handling \in Txs
    BY <2>1, Typed DEF Ready, Stored
  <2>3. QED BY <2>1, <2>2, ReadIsStored, ProjectionAssumption DEF InBlock
<1>3. facts[handling].block = nextBlock
  BY <1>2, BlockOfLog DEF Decodable
<1>4. handling \notin ReadSoFar
  BY <1>2, <1>3 DEF ReadSoFar, BelowBlock, Handled, Waiting
<1>5. \A log \in logs : log.tx # handling
  BY <1>2
<1>6. Handled' = Handled \cup {handling}
  <2>1. Handled = {t \in Decodable(nextBlock) : ~Waiting(t)}
    BY <1>2 DEF Handled
  <2>2. Handled' = {t \in Decodable(nextBlock) : ~Waiting(t)'}
    BY <1>1, <1>2 DEF Handled, Decodable, CanonicalAt
  <2>3. ASSUME NEW t \in Decodable(nextBlock)
        PROVE  ~Waiting(t)' <=> ~Waiting(t) \/ t = handling
    <3>1. t \in Txs /\ t # NoTx
      BY <1>2, HeaderAtType, ProjectionAssumption DEF Decodable, Ready, IInv
    <3>2. QED BY <1>1, <1>5, <3>1 DEF Waiting
  <2>4. QED BY <1>2, <2>1, <2>2, <2>3
<1>7. ReadSoFar' = ReadSoFar \cup {handling}
  BY <1>1, <1>6 DEF ReadSoFar, BelowBlock, Stored
<1>8. ASSUME NEW t \in ReadSoFar PROVE InChainOrder(facts, t, handling)
  <2>1. CASE t \in Handled
    BY <1>3, <2>1, ReadIsStored DEF InChainOrder, Ready, HandlerOrder
  <2>2. CASE t \in BelowBlock(nextBlock)
    BY <1>3, <2>2 DEF InChainOrder, BelowBlock
  <2>3. QED BY <2>1, <2>2 DEF ReadSoFar
<1>9. Ordered(facts, ReadSoFar \cup {handling})
  <2>1. ReadSoFar \cup {handling} \in SUBSET Stored
    BY <1>2, ReadIsStored
  <2>2. QED BY <2>1, ReadIsStored, OrderedSubset
<1>10. HandlerOrder'
  <2>1. \A log \in logs : log.tx \in CanonicalAt(nextBlock)
    BY DEF Ready, HandlerOrder
  <2>2. ASSUME NEW t \in Handled \cup {handling}
        PROVE  t \in Stored /\ \A log \in logs : LogIndex[t] < LogIndex[log.tx]
    BY <1>2 DEF Ready, HandlerOrder
  <2>3. CanonicalAt(nextBlock)' = CanonicalAt(nextBlock) /\ Stored' = Stored
    BY <1>1 DEF CanonicalAt, Stored
  <2>4. QED BY <1>1, <1>6, <2>1, <2>2, <2>3 DEF HandlerOrder
<1>11. handling \in CanonicalAt(nextBlock)
  BY <1>2 DEF Decodable
<1>12. QED BY <1>2, <1>3, <1>4, <1>6, <1>7, <1>8, <1>9, <1>10, <1>11

(* The pair is resolved: before it, there was nothing to project.           *)
LEMMA ResolveStep ==
  ASSUME Ready, ResolvePair
  PROVE  HandlerOrder' /\ PairKnown' /\ Projected'
<1>1. /\ handling # NoTx /\ handling' = NoTx /\ UNCHANGED vars /\ FactType[handling] = PairCreated
      /\ pair' = (IF pair = NoTx THEN handling ELSE pair) /\ projection' = projection
      /\ aligned' = aligned
  BY DEF ResolvePair
<1>2. facts' = facts /\ pair' # NoTx
  BY <1>1 DEF vars, store
<1>3. HandlerOrder' /\ PairKnown'
  BY <1>1, <1>2, HandlerEnds DEF PairKnown
<1>4. Projected'
  <2>1. SUFFICES ASSUME aligned
                 PROVE  projection = Replay(facts, ReadSoFar \cup {handling})
    BY <1>1, <1>2, HandlerEnds DEF Projected
  <2>2. projection = IF pair = NoTx THEN NoProjection ELSE Replay(facts, ReadSoFar)
    BY <1>1, <2>1, HandlerEnds DEF Ready, Projected
  <2>3. CASE pair # NoTx
    <3>1. Replay(facts, ReadSoFar \cup {handling}) = Applied(Replay(facts, ReadSoFar), handling)
      BY <1>1, HandlerEnds, ReplayLater
    <3>2. QED BY <1>1, <2>2, <2>3, <3>1 DEF Applied
  <2>4. CASE pair = NoTx
    <3>1. ASSUME NEW t \in ReadSoFar PROVE FactType[t] = PairCreated
      <4>1. SUFFICES ASSUME FactType[t] # PairCreated PROVE FALSE
        OBVIOUS
      <4>2. t \in Stored /\ t \in Txs /\ handling \in Txs /\ LogIndex[handling] \in Nat
            /\ LogIndex[t] \in Nat
        BY <1>1, HandlerEnds, ReadIsStored, ProjectionAssumption DEF Stored
      <4>3. LogIndex[handling] < LogIndex[t]
        BY <1>1, <4>1, <4>2, ProjectionAssumption
      <4>4. t \notin Handled
        BY <1>1, <4>2, <4>3 DEF Ready, HandlerOrder
      <4>5. PICK n : n = facts[t].block
        OBVIOUS
      <4>6. n \in 1 .. Len(chain) /\ t \in chain[n].txs /\ n < nextBlock /\ nextBlock \in Nat
            /\ n \in Nat
        <5>1. n < nextBlock /\ n \in Nat /\ nextBlock \in Nat /\ t \in CanonicalAt(n)
          BY <4>2, <4>4, <4>5, Typed DEF Ready, ReadSoFar, BelowBlock, Origins, Decodable
        <5>2. QED BY <5>1 DEF CanonicalAt
      <4>7. handling \in LogsIn(SubSeq(chain, 1, n))
        BY <4>2, <4>3, <4>6 DEF Ready, World, Causal
      <4>8. PICK m \in 1 .. n : handling \in chain[m].txs
        <5>1. chain \in Seq(Block)
          BY DEF Ready, IInv, TypeOK
        <5>2. Len(SubSeq(chain, 1, n)) = n /\ \A m \in 1 .. n : SubSeq(chain, 1, n)[m] = chain[m]
          BY <4>6, <5>1
        <5>3. QED BY <4>7, <5>2 DEF LogsIn
      <4>9. m = nextBlock
        <5>1. handling \in chain[nextBlock].txs /\ nextBlock \in 1 .. Len(chain)
          BY <1>1, HandlerEnds DEF CanonicalAt
        <5>2. m \in 1 .. Len(chain)
          BY <4>6, Typed DEF Ready
        <5>3. QED BY <4>8, <5>1, <5>2 DEF Ready, World, OneBlock
      <4>10. QED BY <4>6, <4>9
    <3>2. Replay(facts, ReadSoFar \cup {handling}) = NoProjection
      BY <1>1, <3>1, HandlerEnds, ReplayCreations
    <3>3. QED BY <2>2, <2>4, <3>2
  <2>5. QED BY <2>3, <2>4
<1>5. QED BY <1>3, <1>4

(* A fact moves the reserves.                                               *)
LEMMA UpdateStep ==
  ASSUME Ready, UpdateProjection
  PROVE  HandlerOrder' /\ PairKnown' /\ Projected'
<1>1. /\ handling # NoTx /\ handling' = NoTx /\ UNCHANGED vars /\ FactType[handling] # PairCreated
      /\ projection' = (IF pair = NoTx THEN projection ELSE Applied(projection, handling))
      /\ pair' = pair /\ aligned' = aligned
  BY DEF UpdateProjection
<1>2. facts' = facts
  BY <1>1 DEF vars, store
<1>3. HandlerOrder' /\ PairKnown'
  <2>1. HandlerOrder' /\ Handled' = Handled \cup {handling}
    BY <1>1, HandlerEnds
  <2>2. QED BY <1>1, <2>1 DEF PairKnown, Ready
<1>4. Projected'
  <2>1. SUFFICES ASSUME aligned
                 PROVE  projection' = IF pair = NoTx THEN NoProjection
                                      ELSE Replay(facts, ReadSoFar \cup {handling})
    BY <1>1, <1>2, HandlerEnds DEF Projected
  <2>2. projection = IF pair = NoTx THEN NoProjection ELSE Replay(facts, ReadSoFar)
    BY <1>1, <2>1, HandlerEnds DEF Ready, Projected
  <2>3. Replay(facts, ReadSoFar \cup {handling}) = Applied(Replay(facts, ReadSoFar), handling)
    BY <1>1, HandlerEnds, ReplayLater
  <2>4. QED BY <1>1, <2>2, <2>3
<1>5. QED BY <1>3, <1>4

(* The logs of a filter are collected; after the last one all logs of the   *)
(* block wait to be handled.                                                *)
LEMMA ReadLogsStep ==
  ASSUME Ready, ReadLogs, UNCHANGED poolVars
  PROVE  HandlerOrder' /\ PairKnown' /\ Projected'
<1>1. /\ pc = "logs" /\ nextBlock' = nextBlock /\ chain' = chain /\ facts' = facts /\ stop' = stop
      /\ logs' = logs \cup {[tx |-> t, hash |-> HashAt(chain, nextBlock)] :
                             t \in {u \in CanonicalAt(nextBlock) : FilterOf[u] = filter}}
      /\ pc' = IF filter < NumFilters THEN "logs" ELSE "facts"
      /\ pair' = pair /\ handling' = handling /\ projection' = projection /\ aligned' = aligned
  BY DEF ReadLogs, poolVars, network, store
<1>2. handling = NoTx /\ Handled = {}
  BY <1>1 DEF Ready, HandlerOrder, Handled, Called
<1>3. CanonicalAt(nextBlock)' = CanonicalAt(nextBlock)
  BY <1>1 DEF CanonicalAt
<1>4. Handled' = {}
  <2>1. CASE filter < NumFilters
    BY <1>1, <2>1 DEF Handled, Called
  <2>2. CASE ~(filter < NumFilters)
    <3>1. ASSUME NEW t \in CanonicalAt(nextBlock)
          PROVE  \E log \in logs' : log.tx = t
      <4>1. filter \in Nat /\ NumFilters \in Nat /\ FilterOf[t] \in 1 .. NumFilters
        <5>1. t \in Txs
          BY <3>1, HeaderAtType, Typed DEF Ready, IInv
        <5>2. QED BY <5>1, IngestionAssumption, Typed DEF Ready
      <4>2. CASE FilterOf[t] < filter
        <5>1. \E log \in logs : log.tx = t
          BY <1>1, <3>1, <4>2 DEF Ready, World, ChainInv, ReadsComplete
        <5>2. QED BY <1>1, <5>1
      <4>3. CASE FilterOf[t] = filter
        <5>1. [tx |-> t, hash |-> HashAt(chain, nextBlock)] \in logs'
          BY <1>1, <3>1, <4>3
        <5>2. QED BY <5>1
      <4>4. QED BY <2>2, <4>1, <4>2, <4>3
    <3>2. QED BY <1>3, <3>1 DEF Handled, Decodable, Waiting
  <2>3. QED BY <2>1, <2>2
<1>5. \A log \in logs' : log.tx \in CanonicalAt(nextBlock)
  BY <1>1 DEF Ready, HandlerOrder
<1>6. HandlerOrder' /\ PairKnown'
  BY <1>1, <1>2, <1>3, <1>4, <1>5 DEF HandlerOrder, PairKnown
<1>7. Projected'
  <2>1. ReadSoFar' = ReadSoFar
    BY <1>1, <1>2, <1>4 DEF ReadSoFar, BelowBlock, Stored
  <2>2. QED BY <1>1, <2>1 DEF Projected, Ready
<1>8. QED BY <1>6, <1>7

(* The end of a range: the next one begins after it.                        *)
LEMMA EndRangeStep ==
  ASSUME Ready, EndRange, UNCHANGED poolVars
  PROVE  HandlerOrder' /\ PairKnown' /\ Projected'
<1>1. /\ pc = "block" /\ facts' = facts /\ pair' = pair /\ handling' = handling
      /\ projection' = projection /\ aligned' = aligned
  BY DEF EndRange, poolVars, store
<1>2. handling = NoTx /\ logs = {}
  BY <1>1, ReadIsStored DEF Ready, HandlerOrder
<1>3. CASE live
  <2>1. pc' = "head" /\ nextBlock' = rangeEnd + 1 /\ stop' = stop /\ logs' = logs
        /\ (stop \/ nextBlock > rangeEnd)
    BY <1>3 DEF EndRange
  <2>2. Handled = {} /\ Handled' = {}
    BY <1>1, <2>1 DEF Handled, Called
  <2>3. HandlerOrder' /\ PairKnown'
    BY <1>1, <1>2, <2>1, <2>2 DEF HandlerOrder, PairKnown
  <2>4. ~stop => nextBlock' = nextBlock
    BY <1>1, <1>3, <2>1, Typed DEF Ready, ChainInv, Position
  <2>5. Projected'
    <3>1. ~stop => ReadSoFar' = ReadSoFar
      BY <1>1, <2>2, <2>4 DEF ReadSoFar, BelowBlock, Stored
    <3>2. QED BY <1>1, <2>1, <3>1 DEF Projected, Ready
  <2>6. QED BY <2>3, <2>5
<1>4. CASE ~live
  BY <1>1, <1>2, <1>4, OffStep DEF EndRange, Off
<1>5. QED BY <1>3, <1>4

(* The rows a step leaves alone.                                            *)
LEMMA RowsStayPut ==
  ASSUME IInv, facts' = facts \/ AdvanceLifecycle \/ HandleReorg
  PROVE  RowsStay
<1>1. CASE facts' = facts
  BY <1>1 DEF RowsStay
<1>2. CASE AdvanceLifecycle
  BY <1>2, AdvanceEffect DEF RowsStay
<1>3. CASE HandleReorg
  BY <1>3, OrphanEffect DEF RowsStay
<1>4. QED BY <1>1, <1>2, <1>3

(* The chain stays causal, with every log in one block.                     *)
LEMMA WorldStep ==
  ASSUME IInv, IInv', NeverTorn', World, reorgs = 0, reorgs' = 0, [PoolNext]_allVars
  PROVE  World' /\ Grown
<1>0. chain \in Seq(Block) /\ Len(chain) \in Nat
  BY DEF IInv, TypeOK
<1>1. CASE Chain
  <2>1. PICK txs \in SUBSET Txs : Mine(txs)
    <3>1. ASSUME NEW d, NEW txsOf, Reorg(d, txsOf) PROVE FALSE
      <4>1. reorgs' = reorgs + 1
        BY <3>1 DEF Reorg
      <4>2. QED BY <4>1
    <3>2. QED BY <1>1, <3>1 DEF Chain, Network
  <2>2. /\ txs \cap LogsIn(chain) = {} /\ chain' = Append(chain, [hash |-> minted + 1, txs |-> txs])
        /\ torn' = torn
    BY <2>1 DEF Mine
  <2>3. /\ Len(chain') = Len(chain) + 1 /\ \A n \in 1 .. Len(chain) : chain'[n] = chain[n]
        /\ chain'[Len(chain) + 1].txs = txs
    BY <1>0, <2>2
  <2>4. Grown
    BY <1>0, <2>3 DEF Grown
  <2>5. OneBlock'
    <3>1. SUFFICES ASSUME NEW m \in 1 .. Len(chain'), NEW n \in 1 .. Len(chain'),
                          NEW t \in chain'[m].txs, t \in chain'[n].txs
                   PROVE  m = n
      BY DEF OneBlock
    <3>2. CASE m \in 1 .. Len(chain) /\ n \in 1 .. Len(chain)
      BY <2>3, <3>1, <3>2 DEF World, OneBlock
    <3>3. CASE m = Len(chain) + 1 /\ n \in 1 .. Len(chain)
      <4>1. t \in txs /\ t \in LogsIn(chain)
        BY <2>3, <3>1, <3>3 DEF LogsIn
      <4>2. QED BY <2>2, <4>1
    <3>4. CASE n = Len(chain) + 1 /\ m \in 1 .. Len(chain)
      <4>1. t \in txs /\ t \in LogsIn(chain)
        BY <2>3, <3>1, <3>4 DEF LogsIn
      <4>2. QED BY <2>2, <4>1
    <3>5. CASE n = Len(chain) + 1 /\ m = Len(chain) + 1
      BY <3>5
    <3>6. QED BY <1>0, <2>3, <3>2, <3>3, <3>4, <3>5
  <2>6. Causal(chain)'
    BY <1>1 DEF Chain
  <2>7. QED BY <2>2, <2>4, <2>5, <2>6 DEF World
<1>2. CASE ~Chain
  <2>1. chain' = chain /\ torn' = torn
    <3>1. ASSUME NEW from \in StartArgs, NEW to \in EndArgs, StartAndRebuild(from, to)
          PROVE  network' = network
      BY <3>1 DEF StartAndRebuild, Start, network
    <3>2. CrashAnywhere => network' = network
      BY DEF CrashAnywhere, Crash, network
    <3>3. ASSUME NEW log \in logs, SaveLog(log) PROVE network' = network
      BY <3>3 DEF SaveLog, HandleLog, network
    <3>4. ResolvePair \/ UpdateProjection \/ UNCHANGED allVars => network' = network
      BY DEF ResolvePair, UpdateProjection, allVars, vars, network
    <3>5. BlockHandled => network' = network
      BY DEF BlockHandled, BlockStored, network
    <3>6. Elsewhere => network' = network
      BY DEF Elsewhere, Engine, RequestStop, PollHead, StopPolling, EndRange, ReadHeader,
             MissingBlock, ReadLogs, OnNewBlock, AdvanceLifecycle, SaveCheckpoint, HandleReorg,
             network
    <3>7. network' = network
      BY <1>2, <3>1, <3>2, <3>3, <3>4, <3>5, <3>6 DEF PoolNext
    <3>8. QED BY <3>7 DEF network
  <2>2. QED BY <1>0, <2>1 DEF World, OneBlock, Causal, Grown
<1>3. QED BY <1>1, <1>2

(* What is stored stays at its block.                                       *)
LEMMA StoredStep ==
  ASSUME Ready, IInv', Grown, [PoolNext]_allVars
  PROVE  IsFiniteSet(Stored)' /\ Origins'
<1>1. ASSUME NEW t \in Stored
      PROVE  /\ t \in Txs /\ facts[t].block \in 1 .. Len(chain)
             /\ t \in CanonicalAt(facts[t].block) /\ t \notin Undecodable
  <2>1. t \in Txs /\ t \in CanonicalAt(facts[t].block) /\ t \notin Undecodable
    BY DEF Ready, Origins, Decodable, Stored
  <2>2. QED BY <2>1 DEF CanonicalAt
<1>2. ASSUME NEW t \in Stored, facts'[t].block = facts[t].block
      PROVE  t \in CanonicalAt(facts[t].block)' \ Undecodable
  <2>1. PICK n \in 1 .. Len(chain) : n = facts[t].block
    BY <1>1
  <2>2. CanonicalAt(n)' = CanonicalAt(n)
    BY SameBlock
  <2>3. CanonicalAt(facts[t].block)' = CanonicalAt(n)'
    BY <1>2, <2>1 DEF CanonicalAt
  <2>4. QED BY <1>1, <2>1, <2>2, <2>3
<1>3. ASSUME NEW x, Stored' \subseteq Stored \cup {x},
             \A t \in Stored : facts'[t].block = facts[t].block,
             x \in Stored' \ Stored => x \in CanonicalAt(facts[x].block)' \ Undecodable
      PROVE  IsFiniteSet(Stored)' /\ Origins'
  <2>1. IsFiniteSet(Stored \cup {x})
    BY FS_AddElement DEF Ready
  <2>2. IsFiniteSet(Stored')
    BY <1>3, <2>1, FS_Subset
  <2>3. ASSUME NEW t \in Stored'
        PROVE  t \in CanonicalAt(facts[t].block)' \ Undecodable
    <3>1. CASE t \in Stored
      BY <1>2, <1>3, <3>1
    <3>2. CASE t \notin Stored
      <4>1. t = x
        BY <1>3, <3>2
      <4>2. QED BY <1>3, <3>2, <4>1
    <3>3. QED BY <3>1, <3>2
  <2>4. QED BY <2>2, <2>3 DEF Origins, Decodable
<1>4. CASE RowsStay
  <2>1. Stored' = Stored
    BY <1>4, SameReplay
  <2>2. ASSUME NEW t \in Stored PROVE facts'[t].block = facts[t].block
    BY <1>1, <1>4 DEF RowsStay
  <2>3. QED BY <1>3, <2>1, <2>2
<1>5. ASSUME NEW log \in logs, SaveLog(log)
      PROVE  IsFiniteSet(Stored)' /\ Origins'
  <2>1. HandleLog(log) /\ chain' = chain /\ pc = "facts"
    BY <1>5 DEF SaveLog, HandleLog, network
  <2>2. /\ logs \subseteq Log /\ log.tx \in CanonicalAt(nextBlock)
    BY DEF Ready, IInv, TypeOK, HandlerOrder
  <2>3. ASSUME NEW t \in Txs
        PROVE  facts'[t] = facts[t] \/ (t = log.tx /\ facts[t].status = Absent
                                          /\ facts'[t].block = nextBlock)
    <3>1. \/ facts'[t] = facts[t]
          \/ /\ t = log.tx /\ facts[t].status = Absent
             /\ facts'[t] = NewFact(nextBlock, log.hash, header)
      BY <2>1, HandleLogRows DEF Ready
    <3>2. QED BY <3>1 DEF NewFact
  <2>4. Stored' \subseteq Stored \cup {log.tx} /\ \A t \in Stored : facts'[t] = facts[t]
    BY <2>3 DEF Stored
  <2>5. ASSUME log.tx \in Stored' \ Stored
        PROVE  log.tx \in CanonicalAt(facts[log.tx].block)' \ Undecodable
    <3>1. log.tx \in Txs /\ facts'[log.tx] # facts[log.tx]
      BY <2>5 DEF Stored
    <3>2. facts'[log.tx].block = nextBlock /\ facts' # facts
      BY <2>3, <3>1
    <3>3. log.tx \notin Undecodable
      BY <2>1, <3>2 DEF HandleLog, Normalizes
    <3>4. PICK x : x = log.tx
      OBVIOUS
    <3>5. logs' = logs \ {log} /\ log' = log
      BY <2>1 DEF HandleLog
    <3>6. QED BY <2>1, <2>2, <3>2, <3>3, <3>4 DEF CanonicalAt
  <2>6. QED BY <1>3, <2>4, <2>5
<1>6. CASE ~\E log \in logs : SaveLog(log)
  <2>1. facts' = facts \/ AdvanceLifecycle \/ HandleReorg
    <3>1. Chain => facts' = facts
      BY DEF Chain, Network, Mine, Reorg, store
    <3>2. ASSUME NEW from \in StartArgs, NEW to \in EndArgs, StartAndRebuild(from, to)
          PROVE  facts' = facts
      BY <3>2 DEF StartAndRebuild, Start, store
    <3>3. CrashAnywhere => facts' = facts
      BY DEF CrashAnywhere, Crash, store
    <3>4. ResolvePair \/ UpdateProjection \/ UNCHANGED allVars => facts' = facts
      BY DEF ResolvePair, UpdateProjection, allVars, vars, store
    <3>5. BlockHandled => facts' = facts
      BY DEF BlockHandled, BlockStored, store
    <3>6. Elsewhere => facts' = facts \/ AdvanceLifecycle \/ HandleReorg
      BY DEF Elsewhere, Engine, RequestStop, PollHead, StopPolling, EndRange, ReadHeader,
             MissingBlock, ReadLogs, OnNewBlock, SaveCheckpoint, store
    <3>7. QED BY <1>6, <3>1, <3>2, <3>3, <3>4, <3>5, <3>6 DEF PoolNext
  <2>2. QED BY <1>4, <2>1, RowsStayPut DEF Ready
<1>7. QED BY <1>5, <1>6

(* A step of the collector or of the engine, as the handler sees it.        *)
LEMMA ElsewhereStep ==
  ASSUME Ready, IInv', Grown, Elsewhere
  PROVE  HandlerOrder' /\ PairKnown' /\ Projected'
<1> DEFINE Goal == HandlerOrder' /\ PairKnown' /\ Projected'
<1>0. /\ UNCHANGED poolVars /\ pair' = pair /\ handling' = handling
      /\ pc # "facts" => handling = NoTx
      /\ handling # NoTx => pc = "facts"
  BY DEF Elsewhere, poolVars, Ready, HandlerOrder
<1>1. CASE EndRange
  BY <1>0, <1>1, EndRangeStep
<1>2. CASE ReadLogs
  BY <1>0, <1>2, ReadLogsStep
<1>3. CASE StopPolling \/ MissingBlock
  <2>1. pc' = "down" /\ logs' = {} /\ pc # "facts"
    BY <1>3 DEF StopPolling, MissingBlock, Off
  <2>2. QED BY <1>0, <2>1, OffStep
<1>4. CASE RequestStop
  <2>1. /\ pc' = pc /\ pc # "down" /\ ~stop /\ UNCHANGED <<logs, nextBlock, poolVars>> /\ facts' = facts
    BY <1>0, <1>4 DEF RequestStop, store
  <2>2. RowsStay
    BY <2>1, RowsStayPut DEF Ready
  <2>3. QED BY <2>1, <2>2, QuietStep
<1>5. CASE PollHead \/ ReadHeader
  <2>1. /\ pc \in {"head", "block"} /\ pc' \in {"block", "logs"} /\ ~stop
        /\ UNCHANGED <<logs, nextBlock, poolVars>> /\ facts' = facts
    BY <1>0, <1>5 DEF PollHead, ReadHeader, store
  <2>2. RowsStay
    BY <2>1, RowsStayPut DEF Ready
  <2>3. /\ pc' \notin {"facts", "finality"} \cup Called /\ pc \notin {"facts", "finality"} \cup Called
        /\ pc # "down" /\ handling = NoTx
    BY <1>0, <2>1 DEF Called
  <2>4. QED BY <2>1, <2>2, <2>3, QuietStep
<1>6. ASSUME pc \in {"finality"} \cup Called, pc' \in Called, RowsStay,
             UNCHANGED <<logs, nextBlock>>
      PROVE  Goal
  <2>1. /\ pc' \in {"facts", "finality"} \cup Called /\ pc \in {"facts", "finality"} \cup Called
        /\ pc # "down" /\ pc # "head" /\ handling = NoTx
    BY <1>0, <1>6 DEF Called
  <2>2. UNCHANGED <<logs, nextBlock, poolVars>>
    BY <1>0, <1>6
  <2>3. QED BY <1>6, <2>1, <2>2, QuietStep
<1>7. ASSUME pc \in {"finality"} \cup Called, NextBlock, RowsStay, UNCHANGED logs
      PROVE  Goal
  <2>1. UNCHANGED <<logs, poolVars>>
    BY <1>0, <1>7
  <2>2. QED BY <1>7, <2>1, NextBlockStep
<1>8. CASE OnNewBlock
  <2>1. pc = "finality" /\ facts' = facts /\ UNCHANGED logs
    BY <1>8 DEF OnNewBlock, store
  <2>2. RowsStay
    BY <2>1, RowsStayPut DEF Ready
  <2>3. CASE NextBlock
    BY <1>7, <2>1, <2>2, <2>3
  <2>4. CASE ~NextBlock
    <3>1. pc' \in Called /\ UNCHANGED nextBlock
      BY <1>8, <2>4 DEF OnNewBlock, Called
    <3>2. QED BY <1>6, <2>1, <2>2, <3>1
  <2>5. QED BY <2>3, <2>4
<1>9. CASE AdvanceLifecycle
  <2>1. pc \in Called /\ pc' \in Called /\ UNCHANGED <<logs, nextBlock>>
    BY <1>9 DEF AdvanceLifecycle, Called, memory
  <2>2. RowsStay
    BY <1>9, RowsStayPut DEF Ready
  <2>3. QED BY <1>6, <2>1, <2>2
<1>10. CASE SaveCheckpoint
  <2>1. pc \in Called /\ NextBlock /\ facts' = facts /\ UNCHANGED logs
    BY <1>10 DEF SaveCheckpoint, Called
  <2>2. RowsStay
    BY <2>1, RowsStayPut DEF Ready
  <2>3. QED BY <1>7, <2>1, <2>2
<1>11. CASE HandleReorg
  <2>1. pc \in Called /\ NextBlock /\ UNCHANGED logs
    BY <1>11 DEF HandleReorg, Called
  <2>2. RowsStay
    BY <1>11, RowsStayPut DEF Ready
  <2>3. QED BY <1>7, <2>1, <2>2
<1>12. QED
  BY <1>1, <1>2, <1>3, <1>4, <1>5, <1>8, <1>9, <1>10, <1>11 DEF Elsewhere, Engine

(* Every step keeps the handler in order and its projection a replay.       *)
LEMMA HandlerStep ==
  ASSUME Ready, IInv', Grown, reorgs' = 0, [PoolNext]_allVars
  PROVE  HandlerOrder' /\ PairKnown' /\ Projected'
<1> DEFINE Goal == HandlerOrder' /\ PairKnown' /\ Projected'
<1>1. CASE pc = "down" /\ pc' = "down" /\ logs' = logs /\ handling' = handling
  BY <1>1, OffStep, ReadIsStored DEF Ready, HandlerOrder
<1>2. ASSUME UNCHANGED <<pc, stop, facts, logs, nextBlock, poolVars>>
      PROVE  Goal
  <2>1. CASE pc = "down"
    BY <1>1, <1>2, <2>1 DEF poolVars
  <2>2. CASE pc # "down"
    <3>1. RowsStay
      BY <1>2, RowsStayPut DEF Ready
    <3>2. QED BY <1>2, <2>2, <3>1, QuietStep
  <2>3. QED BY <2>1, <2>2
<1>3. CASE Chain \/ UNCHANGED allVars
  BY <1>2, <1>3 DEF Chain, Network, Mine, Reorg, allVars, vars, store, memory
<1>4. ASSUME NEW from \in StartArgs, NEW to \in EndArgs, StartAndRebuild(from, to)
      PROVE  Goal
  BY <1>4, StartStep
<1>5. CASE CrashAnywhere
  BY <1>5, OffStep DEF CrashAnywhere, Crash, Off
<1>6. ASSUME NEW log \in logs, SaveLog(log) PROVE Goal
  BY <1>6, SaveLogStep
<1>7. CASE ResolvePair
  BY <1>7, ResolveStep
<1>8. CASE UpdateProjection
  BY <1>8, UpdateStep
<1>9. CASE BlockHandled
  <2>1. /\ pc = "facts" /\ pc' = "finality" /\ handling = NoTx /\ facts' = facts
        /\ UNCHANGED <<logs, nextBlock, poolVars>>
    BY <1>9 DEF BlockHandled, BlockStored, store, memory
  <2>2. RowsStay
    BY <2>1, RowsStayPut DEF Ready
  <2>3. QED BY <2>1, <2>2, QuietStep
<1>10. CASE Elsewhere
  BY <1>10, ElsewhereStep
<1>11. QED BY <1>3, <1>4, <1>5, <1>6, <1>7, <1>8, <1>9, <1>10 DEF PoolNext

(* Reorganisations are counted, and a torn block is one.                    *)
LEMMA ReorgsCount ==
  ASSUME [Next]_vars
  PROVE  \/ reorgs' = reorgs /\ torn' = torn
         \/ reorgs' = reorgs + 1
<1> USE DEF network
<1>1. CASE Network
  BY <1>1 DEF Network, Mine, Reorg
<1>2. CASE Operator \/ Crash
  BY <1>2 DEF Operator, Start, RequestStop, Crash
<1>3. CASE Collect
  BY <1>3 DEF Collect, PollHead, StopPolling, EndRange, ReadHeader, MissingBlock, ReadLogs,
              HandleLog, BlockStored
<1>4. CASE Engine
  BY <1>4 DEF Engine, OnNewBlock, AdvanceLifecycle, SaveCheckpoint, HandleReorg
<1>5. CASE UNCHANGED vars
  BY <1>5 DEF vars
<1>6. QED BY <1>1, <1>2, <1>3, <1>4, <1>5 DEF Next

(* Every step keeps the invariant.                                          *)
LEMMA PoolInvStep ==
  ASSUME IInv, IInv', ChainInv, NeverTorn', PoolInv, reorgs \in Nat, reorgs' \in Nat,
         [PoolNext]_allVars
  PROVE  PoolInv'
<1>1. SUFFICES ASSUME reorgs' = 0
               PROVE  /\ World' /\ IsFiniteSet(Stored)' /\ Origins' /\ HandlerOrder'
                      /\ PairKnown' /\ Projected'
  BY DEF PoolInv
<1>2. reorgs = 0
  <2>1. reorgs' = reorgs \/ reorgs' = reorgs + 1
    BY PoolStepIsStep, ReorgsCount
  <2>2. QED BY <1>1, <2>1
<1>3. Ready
  BY <1>2 DEF Ready, PoolInv
<1>4. World' /\ Grown
  BY <1>1, <1>2, <1>3, WorldStep DEF Ready
<1>5. IsFiniteSet(Stored)' /\ Origins'
  BY <1>3, <1>4, StoredStep
<1>6. HandlerOrder' /\ PairKnown' /\ Projected'
  BY <1>1, <1>3, <1>4, HandlerStep
<1>7. QED BY <1>4, <1>5, <1>6

(* An empty store, where nothing was read, satisfies it.                    *)
LEMMA PoolInvInit == PoolInit => PoolInv /\ NeverTorn
<1> SUFFICES ASSUME PoolInit PROVE PoolInv /\ NeverTorn
  OBVIOUS
<1>1. /\ chain = <<[hash |-> 1, txs |-> {}]>> /\ ~torn /\ pc = "down" /\ logs = {}
      /\ handling = NoTx /\ facts = [t \in Txs |-> NoRow]
  BY DEF PoolInit, Init
<1>2. Stored = {}
  BY <1>1 DEF Stored, NoRow, Absent
<1>3. Len(chain) = 1 /\ chain[1].txs = {}
  BY <1>1
<1>4. World
  <2>1. OneBlock
    BY <1>3 DEF OneBlock
  <2>2. Causal(chain)
    BY <1>3 DEF Causal
  <2>3. QED BY <1>1, <2>1, <2>2 DEF World
<1>5. IsFiniteSet(Stored) /\ Origins
  BY <1>2, FS_EmptySet DEF Origins
<1>6. Handled = {}
  BY <1>1 DEF Handled, Called
<1>7. HandlerOrder /\ PairKnown /\ Projected
  BY <1>1, <1>6 DEF HandlerOrder, PairKnown, Projected
<1>8. QED BY <1>1, <1>4, <1>5, <1>7 DEF PoolInv, NeverTorn

-----------------------------------------------------------------------------
(* Every behaviour.                                                         *)

(* The ingestion of a pool is an ingestion: crashes between the commits     *)
(* of the handler, and the rebuild at start, add nothing to what the        *)
(* collector, the engine and the store can do. So all that holds of the     *)
(* ingestion holds of it.                                                   *)
THEOREM PoolIsIngestion == PoolSpec => Spec
<1>1. PoolInit => Init
  BY DEF PoolInit
<1>2. QED BY <1>1, PoolStepIsStep, PTL DEF PoolSpec, Spec

(* The invariant holds of every ingestion of a pool.                        *)
THEOREM PoolInvHolds == PoolSpec => []PoolInv
<1>1. NeverTorn /\ [PoolNext]_allVars /\ IInv => NeverTorn'
  <2> SUFFICES ASSUME NeverTorn, [PoolNext]_allVars, IInv PROVE NeverTorn'
    OBVIOUS
  <2>1. (reorgs' = reorgs /\ torn' = torn) \/ reorgs' = reorgs + 1
    BY PoolStepIsStep, ReorgsCount
  <2>2. reorgs \in Nat
    BY DEF IInv, TypeOK
  <2>3. CASE reorgs' = reorgs /\ torn' = torn
    BY Zenon, <2>3 DEF NeverTorn
  <2>4. CASE reorgs' = reorgs + 1
    <3>1. reorgs' > 0
      BY <2>2, <2>4
    <3>2. QED BY <3>1 DEF NeverTorn
  <2>5. QED BY <2>1, <2>3, <2>4
<1>2. IInv => reorgs \in Nat
  BY DEF IInv, TypeOK
<1>3. IInv' => reorgs' \in Nat
  BY DEF IInv, TypeOK
<1>4. PoolSpec => [](IInv /\ ChainInv)
  BY PoolIsIngestion, InvariantHolds, ChainInvHolds, PTL
<1>5. /\ IInv /\ ChainInv /\ IInv' /\ NeverTorn /\ PoolInv /\ [PoolNext]_allVars
        => NeverTorn' /\ PoolInv'
  BY <1>1, <1>2, <1>3, PoolInvStep
<1>6. QED BY <1>4, <1>5, PoolInvInit, PTL DEF PoolSpec

(* PairResolved: while nothing reorganised, a finished block whose logs     *)
(* had a PAIR_CREATED leaves the trading pair, whatever crash fell          *)
(* between the commit of the fact and that of the pair                      *)
(* (_run_live.handler).                                                     *)
THEOREM PairIsResolved == PoolSpec => [](reorgs = 0 => PairResolved)
<1>1. IInv /\ ChainInv /\ PoolInv => (reorgs = 0 => PairResolved)
  <2> SUFFICES ASSUME IInv, ChainInv, PoolInv, reorgs = 0, pc \in {"finality"} \cup Called,
                      NEW t \in Stored, FactType[t] = PairCreated, facts[t].block = nextBlock
               PROVE  pair # NoTx
    BY DEF PairResolved, Called
  <2>1. Ready
    BY DEF Ready, PoolInv
  <2>2. logs = {} /\ handling = NoTx /\ t # NoTx
    <3>1. pc # "facts" /\ pc # "logs"
      BY DEF Called
    <3>2. QED BY <2>1, <3>1, ReadIsStored, ProjectionAssumption DEF Ready, HandlerOrder, Stored
  <2>3. t \in Handled
    BY <2>1, <2>2 DEF Ready, Origins, Handled, Waiting
  <2>4. QED BY <2>1, <2>3 DEF Ready, PairKnown
<1>2. PoolSpec => [](IInv /\ ChainInv)
  BY PoolIsIngestion, InvariantHolds, ChainInvHolds, PTL
<1>3. QED BY <1>1, <1>2, PoolInvHolds, PTL

(* ProjectionIsReplay: while nothing reorganised, and when the process      *)
(* started where exactly the facts below were FINALIZED, the projection     *)
(* the handler has moved fact by fact is the one rebuild_from_facts would   *)
(* make of all facts read.                                                  *)
THEOREM ProjectionReplays == PoolSpec => [](reorgs = 0 => ProjectionIsReplay)
<1>1. PoolInv => (reorgs = 0 => ProjectionIsReplay)
  <2> SUFFICES ASSUME PoolInv, reorgs = 0, pc \in {"head", "block"}, ~stop, aligned
               PROVE  projection = IF pair = NoTx THEN NoProjection
                                   ELSE Replay(facts, BelowBlock(nextBlock))
    BY DEF ProjectionIsReplay
  <2>1. Handled = {}
    BY DEF Handled, Called
  <2>2. ReadSoFar = BelowBlock(nextBlock)
    BY <2>1 DEF ReadSoFar
  <2>3. QED BY <2>2 DEF PoolInv, Projected
<1>2. QED BY <1>1, PoolInvHolds, PTL
==============================================================================
