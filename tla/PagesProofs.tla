----------------------------- MODULE PagesProofs -----------------------------
(***************************************************************************)
(* Proofs about Pages: pages put one after the other are in order, and a   *)
(* listing with a cursor loses nothing but ties of what it delivered; for  *)
(* any tables, filters, page sizes and writers.                            *)
(***************************************************************************)
EXTENDS Pages, TLAPS

Cursor == [set : BOOLEAN, key : Int]
Reader ==
  [pc : {"closed", "reading", "filling", "over"}, cursor : Cursor, offset : Int,
   batch : Int, todo : SUBSET Rows]

(* Every variable has its type.                                            *)
TypeOK ==
  /\ listing \in Listings
  /\ reader \in Reader
  /\ got \in [Rows -> Nat]
  /\ owed \subseteq Table[listing.name]

(* Before the first request there is nothing, and only the script fills in. *)
StageOK ==
  /\ reader.pc = "closed" => owed = {} /\ reader.cursor = NoCursor /\ \A r \in Rows : got[r] = 0
  /\ reader.pc = "filling" => ByOffset
  /\ reader.pc # "closed" => owed \subseteq Matching(state, query)

(* What came is behind the cursor, and came once.                          *)
Behind ==
  ByCursor =>
    \A s \in Rows : got[s] > 0 =>
      /\ got[s] = 1
      /\ reader.pc = "over" \/ (reader.cursor.set /\ Key(s) <= reader.cursor.key)

(* What is behind the cursor came or is a tie, and at the end all of it is. *)
Complete ==
  ByCursor =>
    \A r \in owed :
      \/ got[r] > 0 \/ TieOf(r)
      \/ reader.pc = "reading" /\ (reader.cursor.set => reader.cursor.key < Key(r))

IInv == TypeOK /\ StageOK /\ Behind /\ Complete

(* Keys are integers.                                                      *)
LEMMA KeyType ==
  ASSUME listing \in Listings, NEW r \in Rows
  PROVE  Key(r) \in Int
<1>1. r.id \in Int /\ r.time \in Int
  BY PagesAssumption DEF Rows
<1> QED
  BY <1>1 DEF Key

LEMMA InitEstablishes == Init => IInv
<1> SUFFICES ASSUME Init PROVE IInv
  OBVIOUS
<1>1. TypeOK
  BY DEF Init, TypeOK, Reader, Cursor, ClosedReader, NoCursor
<1>2. StageOK /\ Behind /\ Complete
  BY DEF Init, StageOK, Behind, Complete, ClosedReader
<1> QED
  BY <1>1, <1>2 DEF IInv

(* A page of a listing with a cursor: what it gives is new and after all   *)
(* that came, and the next cursor is its last row.                         *)
LEMMA PageOfCursor ==
  ASSUME IInv, ReadPage, ByCursor
  PROVE  \E rest, page :
           /\ rest = AfterCursor(Matching(state, query), reader.cursor)
           /\ page \subseteq rest /\ rest \subseteq Rows
           /\ \A r \in page, s \in rest \ page : Key(r) <= Key(s)
           /\ got' = Delivered(page)
           /\ \A r \in Rows : got'[r] = IF r \in page THEN 1 ELSE got[r]
           /\ \/ page = rest /\ reader' = [reader EXCEPT !.pc = "over"]
              \/ /\ page # rest
                 /\ \E l \in page : /\ \A s \in page : Key(s) <= Key(l)
                                    /\ reader' = [reader EXCEPT !.cursor = CursorAt(l)]
<1> DEFINE rest == AfterCursor(Matching(state, query), reader.cursor)
<1>1. PICK limit \in Limits : \E page \in FirstOf(rest, limit) :
        /\ got' = Delivered(page)
        /\ reader' \in IF page # rest /\ ByCursor
                         THEN {[reader EXCEPT !.cursor = c] : c \in CursorsAfter(page, rest)}
                         ELSE {[reader EXCEPT !.pc = "over"]}
  BY DEF ReadPage
<1>2. PICK page \in FirstOf(rest, limit) :
        /\ got' = Delivered(page)
        /\ reader' \in IF page # rest /\ ByCursor
                         THEN {[reader EXCEPT !.cursor = c] : c \in CursorsAfter(page, rest)}
                         ELSE {[reader EXCEPT !.pc = "over"]}
  BY <1>1
<1>3. /\ page \subseteq rest
      /\ \A r \in page, s \in rest \ page : Key(r) <= Key(s)
  BY <1>2 DEF FirstOf
<1>4. rest \subseteq Rows
  BY DEF AfterCursor, Matching, Rows, IInv, TypeOK
<1>5. \A r \in page : got[r] = 0
  <2> SUFFICES ASSUME NEW r \in page, got[r] # 0 PROVE FALSE
    OBVIOUS
  <2>1. r \in Rows /\ got[r] > 0
    BY <1>3, <1>4 DEF IInv, TypeOK
  <2>2. reader.pc = "reading"
    BY DEF ReadPage
  <2>3. reader.cursor.set /\ Key(r) <= reader.cursor.key
    BY <2>1, <2>2 DEF IInv, Behind
  <2>4. reader.cursor.key < Key(r)
    BY <1>3, <2>3 DEF AfterCursor
  <2>5. Key(r) \in Int /\ reader.cursor.key \in Int
    BY <2>1, KeyType DEF IInv, TypeOK, Reader, Cursor
  <2> QED
    BY <2>3, <2>4, <2>5
<1>6. \A r \in Rows : got'[r] = IF r \in page THEN 1 ELSE got[r]
  BY <1>2, <1>5 DEF Delivered
<1>7. \/ page = rest /\ reader' = [reader EXCEPT !.pc = "over"]
      \/ /\ page # rest
         /\ \E l \in page : /\ \A s \in page : Key(s) <= Key(l)
                            /\ reader' = [reader EXCEPT !.cursor = CursorAt(l)]
  <2>1. CASE page = rest
    BY <1>2, <2>1
  <2>2. CASE page # rest
    <3>1. PICK c \in CursorsAfter(page, rest) : reader' = [reader EXCEPT !.cursor = c]
      BY <1>2, <2>2
    <3>2. PICK l \in page : c = CursorAt(l) /\ \A s \in page : Key(s) <= Key(l)
      BY <3>1 DEF CursorsAfter
    <3> QED
      BY <2>2, <3>1, <3>2
  <2> QED
    BY <2>1, <2>2
<1> QED
  BY <1>2, <1>3, <1>4, <1>6, <1>7

LEMMA StepKeepsType == TypeOK /\ [Next]_vars => TypeOK'
<1> SUFFICES ASSUME TypeOK, [Next]_vars PROVE TypeOK'
  OBVIOUS
<1> USE DEF TypeOK
<1>1. Table[listing.name] \subseteq Rows
  BY DEF Rows
<1>2. Limits \subseteq Int
  BY PagesAssumption
<1>3. CASE Open
  <2>1. reader' \in Reader
    BY <1>2, <1>3 DEF Open, Reader
  <2> QED
    BY <1>3, <2>1 DEF Open, Matching
<1>4. CASE ReadPage
  <2>1. PICK limit \in Limits :
          \E page \in FirstOf(AfterCursor(Matching(state, query), reader.cursor), limit) :
            /\ got' = Delivered(page)
            /\ \/ \E c \in CursorsAfter(page, AfterCursor(Matching(state, query), reader.cursor)) :
                    reader' = [reader EXCEPT !.cursor = c]
               \/ reader' = [reader EXCEPT !.pc = "over"]
    BY <1>4 DEF ReadPage
  <2>2. PICK page \in FirstOf(AfterCursor(Matching(state, query), reader.cursor), limit) :
            /\ got' = Delivered(page)
            /\ \/ \E c \in CursorsAfter(page, AfterCursor(Matching(state, query), reader.cursor)) :
                    reader' = [reader EXCEPT !.cursor = c]
               \/ reader' = [reader EXCEPT !.pc = "over"]
    BY <2>1
  <2>3. page \subseteq Rows
    BY <1>1, <2>2 DEF FirstOf, AfterCursor, Matching
  <2>4. \A r \in page : CursorAt(r) \in Cursor
    BY <2>3, KeyType DEF CursorAt, Cursor
  <2>5. CursorsAfter(page, AfterCursor(Matching(state, query), reader.cursor)) \subseteq Cursor
    BY <2>4 DEF CursorsAfter
  <2>6. reader' \in Reader
    BY <2>2, <2>5 DEF Reader
  <2>7. got' \in [Rows -> Nat]
    BY <2>2 DEF Delivered
  <2> QED
    BY <1>4, <2>6, <2>7 DEF ReadPage
<1>5. CASE ReadBatch
  <2>1. PICK before \in FirstOf(Matching(state, query), reader.offset) :
        \E page \in FirstOf(Matching(state, query) \ before, reader.batch) :
           /\ got' = Delivered(page)
           /\ \/ reader' = [reader EXCEPT !.pc = "over"]
              \/ reader' = [reader EXCEPT !.pc = "filling", !.todo = page]
    BY <1>5 DEF ReadBatch
  <2>2. PICK page \in FirstOf(Matching(state, query) \ before, reader.batch) :
           /\ got' = Delivered(page)
           /\ \/ reader' = [reader EXCEPT !.pc = "over"]
              \/ reader' = [reader EXCEPT !.pc = "filling", !.todo = page]
    BY <2>1
  <2>3. page \subseteq Rows
    BY <1>1, <2>2 DEF FirstOf, Matching
  <2>4. reader' \in Reader
    BY <2>2, <2>3 DEF Reader
  <2>5. got' \in [Rows -> Nat]
    BY <2>2 DEF Delivered
  <2> QED
    BY <1>5, <2>4, <2>5 DEF ReadBatch
<1>6. CASE Fill
  <2>1. PICK r \in reader.todo :
          /\ state' \in {state, [state EXCEPT ![r] = "final"]}
          /\ reader' = IF reader.todo # {r} THEN [reader EXCEPT !.todo = @ \ {r}]
                        ELSE [reader EXCEPT !.pc = "reading", !.todo = {},
                                            !.offset = @ + reader.batch]
    BY <1>6 DEF Fill
  <2>2. reader.offset + reader.batch \in Int
    BY DEF Reader
  <2>3. ASSUME reader.todo # {r} PROVE reader' \in Reader
    BY <2>1, <2>3 DEF Reader
  <2>4. ASSUME reader.todo = {r} PROVE reader' \in Reader
    <3>1. reader' = [reader EXCEPT !.pc = "reading", !.todo = {},
                                   !.offset = reader.offset + reader.batch]
      BY <2>1, <2>4
    <3> QED
      BY <2>2, <3>1 DEF Reader
  <2>5. reader' \in Reader
    BY <2>3, <2>4
  <2>6. owed' \subseteq owed /\ UNCHANGED <<listing, got>>
    BY <1>6 DEF Fill
  <2> QED
    BY <2>5, <2>6
<1>7. CASE Write
  BY <1>7 DEF Write
<1>8. CASE UNCHANGED vars
  BY <1>8 DEF vars
<1> QED
  BY <1>3, <1>4, <1>5, <1>6, <1>7, <1>8 DEF Next

(* What the listing is does not change with its rows.                      *)
LEMMA ListingStays ==
  ASSUME UNCHANGED listing
  PROVE  /\ ByCursor' = ByCursor /\ ByOffset' = ByOffset
         /\ \A r : Key(r)' = Key(r)
BY DEF ByCursor, ByOffset, Key

LEMMA StepKeepsStage == IInv /\ [Next]_vars => StageOK'
<1> SUFFICES ASSUME IInv, [Next]_vars PROVE StageOK'
  OBVIOUS
<1> USE DEF IInv, TypeOK, Reader
<1>1. CASE Open
  BY <1>1 DEF Open, StageOK, Matching, Shown, InRange
<1>2. CASE ReadPage
  <2>1. reader'.pc \in {"reading", "over"}
    BY <1>2 DEF ReadPage
  <2> QED
    BY <1>2, <2>1 DEF ReadPage, StageOK, Matching, Shown, InRange
<1>3. CASE ReadBatch
  <2>1. reader'.pc \in {"filling", "over"}
    BY <1>3 DEF ReadBatch
  <2> QED
    BY <1>3, <2>1 DEF ReadBatch, StageOK, ByOffset, Matching, Shown, InRange
<1>4. CASE Fill
  <2>1. reader'.pc \in {"filling", "reading"}
    BY <1>4 DEF Fill
  <2> QED
    BY <1>4, <2>1 DEF Fill, StageOK, ByOffset, Matching, Shown, InRange
<1>5. CASE Write
  BY <1>5 DEF Write, StageOK, ByOffset, Matching, Shown, InRange
<1>6. CASE UNCHANGED vars
  BY <1>6 DEF vars, StageOK, ByOffset, Matching, Shown, InRange
<1> QED
  BY <1>1, <1>2, <1>3, <1>4, <1>5, <1>6 DEF Next

LEMMA StepKeepsBehind == IInv /\ [Next]_vars => Behind'
<1> SUFFICES ASSUME IInv, [Next]_vars, ByCursor' PROVE Behind'
  BY DEF Behind
<1>1. UNCHANGED listing
  BY DEF Next, vars, Open, ReadPage, ReadBatch, Fill, Write
<1>2. /\ ByCursor /\ ~ByOffset
      /\ \A r : Key(r)' = Key(r)
  BY <1>1, ListingStays DEF ByCursor, ByOffset
<1>3. CASE Open
  BY <1>2, <1>3 DEF Open, IInv, StageOK, Behind
<1>4. CASE ReadPage
  <2>1. PICK rest, page :
           /\ page \subseteq rest /\ rest \subseteq Rows
           /\ rest = AfterCursor(Matching(state, query), reader.cursor)
           /\ \A r \in Rows : got'[r] = IF r \in page THEN 1 ELSE got[r]
           /\ \/ reader' = [reader EXCEPT !.pc = "over"]
              \/ \E l \in page : /\ \A s \in page : Key(s) <= Key(l)
                                 /\ reader' = [reader EXCEPT !.cursor = CursorAt(l)]
    BY <1>2, <1>4, PageOfCursor
  <2>2. SUFFICES ASSUME NEW s \in Rows, got'[s] > 0
                 PROVE  /\ got'[s] = 1
                        /\ reader'.pc = "over"
                             \/ (reader'.cursor.set /\ Key(s) <= reader'.cursor.key)
    BY <1>2 DEF Behind
  <2>3. got'[s] = 1
    BY <1>2, <2>1, <2>2 DEF IInv, Behind
  <2>4. CASE reader' = [reader EXCEPT !.pc = "over"]
    BY <2>3, <2>4 DEF IInv, TypeOK, Reader
  <2>5. ASSUME NEW l \in page, \A t \in page : Key(t) <= Key(l),
               reader' = [reader EXCEPT !.cursor = CursorAt(l)]
        PROVE  reader'.cursor.set /\ Key(s) <= reader'.cursor.key
    <3>1. reader'.cursor.set /\ reader'.cursor.key = Key(l)
      BY <2>5 DEF IInv, TypeOK, Reader, CursorAt
    <3>2. CASE s \in page
      BY <2>5, <3>1, <3>2
    <3>3. CASE s \notin page
      <4>1. reader.pc = "reading" /\ got[s] > 0
        BY <1>4, <2>1, <2>2, <3>3 DEF ReadPage
      <4>2. reader.cursor.set /\ Key(s) <= reader.cursor.key
        BY <1>2, <4>1 DEF IInv, Behind
      <4>3. reader.cursor.key < Key(l)
        BY <2>1, <4>2 DEF AfterCursor
      <4>4. Key(s) \in Int /\ Key(l) \in Int /\ reader.cursor.key \in Int
        BY <2>1, KeyType DEF IInv, TypeOK, Reader, Cursor
      <4> QED
        BY <3>1, <4>2, <4>3, <4>4
    <3> QED
      BY <3>2, <3>3
  <2> QED
    BY <2>1, <2>3, <2>4, <2>5
<1>5. CASE ReadBatch
  BY <1>2, <1>5 DEF ReadBatch
<1>6. CASE Fill
  BY <1>2, <1>6 DEF Fill, IInv, StageOK
<1>7. CASE Write
  BY <1>2, <1>7 DEF Write, IInv, Behind
<1>8. CASE UNCHANGED vars
  BY <1>2, <1>8 DEF vars, IInv, Behind
<1> QED
  BY <1>3, <1>4, <1>5, <1>6, <1>7, <1>8 DEF Next

LEMMA StepKeepsComplete == IInv /\ [Next]_vars => Complete'
<1> SUFFICES ASSUME IInv, [Next]_vars, ByCursor' PROVE Complete'
  BY DEF Complete
<1>1. UNCHANGED listing
  BY DEF Next, vars, Open, ReadPage, ReadBatch, Fill, Write
<1>2. /\ ByCursor /\ ~ByOffset
      /\ \A r : Key(r)' = Key(r)
      /\ Table[listing.name]' = Table[listing.name] /\ Table[listing.name] \subseteq Rows
  BY <1>1, ListingStays DEF ByCursor, ByOffset, IInv, TypeOK, Rows
<1>3. CASE Open
  BY <1>2, <1>3 DEF Open, IInv, TypeOK, Reader, StageOK, Complete, NoCursor
<1>4. CASE ReadPage
  <2>1. PICK rest, page :
           /\ rest = AfterCursor(Matching(state, query), reader.cursor)
           /\ page \subseteq rest /\ rest \subseteq Rows
           /\ \A r \in page, s \in rest \ page : Key(r) <= Key(s)
           /\ \A r \in Rows : got'[r] = IF r \in page THEN 1 ELSE got[r]
           /\ \/ page = rest /\ reader' = [reader EXCEPT !.pc = "over"]
              \/ \E l \in page : reader' = [reader EXCEPT !.cursor = CursorAt(l)]
    BY <1>2, <1>4, PageOfCursor
  <2>2. reader.pc = "reading" /\ owed' = owed
    BY <1>4 DEF ReadPage
  <2>3. SUFFICES ASSUME NEW r \in owed
                 PROVE  \/ got'[r] > 0 \/ TieOf(r)'
                        \/ /\ reader'.pc = "reading"
                           /\ reader'.cursor.set => reader'.cursor.key < Key(r)
    BY <1>2, <2>2 DEF Complete
  <2>4. r \in Matching(state, query) /\ r \in Rows
    BY <2>2 DEF IInv, TypeOK, StageOK, Rows
  <2>5. CASE got[r] > 0
    BY <2>1, <2>4, <2>5
  <2>6. CASE r \in page
    BY <2>1, <2>4, <2>6
  <2>7. CASE TieOf(r)
    <3>1. PICK s \in Table[listing.name] \ {r} : got[s] > 0 /\ Key(s) = Key(r)
      BY <2>7 DEF TieOf
    <3>2. got'[s] > 0
      BY <1>2, <2>1, <3>1
    <3> QED
      BY <1>2, <3>1, <3>2 DEF TieOf
  <2>8. CASE ~(got[r] > 0) /\ ~TieOf(r) /\ r \notin page
    <3>1. r \in rest
      BY <1>2, <2>1, <2>4, <2>8 DEF IInv, Complete, AfterCursor
    <3>2. PICK l \in page : reader' = [reader EXCEPT !.cursor = CursorAt(l)]
      BY <2>1, <2>8, <3>1
    <3>3. reader'.pc = "reading" /\ reader'.cursor.key = Key(l)
      BY <2>2, <3>2 DEF IInv, TypeOK, Reader, CursorAt
    <3>4. Key(l) <= Key(r) /\ l \in Table[listing.name] \ {r} /\ got'[l] = 1
      BY <1>2, <2>1, <2>8, <3>1, <3>2 DEF AfterCursor, Matching
    <3>5. CASE Key(l) = Key(r)
      BY <1>2, <3>4, <3>5 DEF TieOf
    <3>6. CASE Key(l) # Key(r)
      <4>1. Key(l) \in Int /\ Key(r) \in Int
        BY <1>2, <2>4, <3>4, KeyType DEF IInv, TypeOK
      <4> QED
        BY <3>3, <3>4, <3>6, <4>1
    <3> QED
      BY <3>5, <3>6
  <2> QED
    BY <2>5, <2>6, <2>7, <2>8
<1>5. CASE ReadBatch
  BY <1>2, <1>5 DEF ReadBatch
<1>6. CASE Fill
  BY <1>2, <1>6 DEF Fill, IInv, StageOK
<1>7. CASE Write
  BY <1>2, <1>7 DEF Write, IInv, Complete, TieOf
<1>8. CASE UNCHANGED vars
  BY <1>2, <1>8 DEF vars, IInv, Complete, TieOf
<1> QED
  BY <1>3, <1>4, <1>5, <1>6, <1>7, <1>8 DEF Next

LEMMA Inductive == Spec => []IInv
<1>1. IInv /\ [Next]_vars => IInv'
  BY StepKeepsType, StepKeepsStage, StepKeepsBehind, StepKeepsComplete DEF IInv
<1> QED
  BY InitEstablishes, <1>1, PTL DEF Spec

(* A listing with a cursor that is over has delivered all that belonged to *)
(* it all the time, whatever was written between its pages, but for ties   *)
(* of what it delivered: on a unique key, all of it.                       *)
THEOREM NothingButTiesIsLost == Spec => []OnlyTiesAreLost
<1>1. IInv => OnlyTiesAreLost
  BY DEF IInv, Complete, OnlyTiesAreLost
<1> QED
  BY <1>1, Inductive, PTL

(* Only a page gives rows to the reader of a listing with a cursor.        *)
LEMMA OnlyPagesDeliver ==
  ASSUME IInv, [Next]_vars, ByCursor
  PROVE  ReadPage \/ UNCHANGED got
<1>1. reader.pc # "filling" /\ ~ByOffset
  BY DEF IInv, StageOK, ByCursor, ByOffset
<1> QED
  BY <1>1 DEF Next, vars, Open, ReadBatch, Fill, Write

(* What comes later comes after all that came before.                      *)
THEOREM PagesAreInOrder == Spec => PagesInOrder
<1> DEFINE InOrder ==
      \A r, s \in Rows : ByCursor /\ got[s] > 0 /\ got'[r] > got[r] => Key(s) < Key(r)
<1>1. IInv /\ [Next]_vars => InOrder
  <2> SUFFICES ASSUME IInv, [Next]_vars, NEW r \in Rows, NEW s \in Rows,
                      ByCursor, got[s] > 0, got'[r] > got[r]
               PROVE  Key(s) < Key(r)
    OBVIOUS
  <2>1. ReadPage
    <3>1. got[r] \in Nat
      BY DEF IInv, TypeOK
    <3> QED
      BY <3>1, OnlyPagesDeliver
  <2>2. PICK rest, page :
           /\ rest = AfterCursor(Matching(state, query), reader.cursor)
           /\ page \subseteq rest
           /\ \A t \in Rows : got'[t] = IF t \in page THEN 1 ELSE got[t]
    BY <2>1, PageOfCursor
  <2>3. r \in page
    BY <2>2 DEF IInv, TypeOK
  <2>4. reader.cursor.set /\ Key(s) <= reader.cursor.key
    BY <2>1 DEF ReadPage, IInv, Behind
  <2>5. reader.cursor.key < Key(r)
    BY <2>2, <2>3, <2>4 DEF AfterCursor
  <2>6. Key(s) \in Int /\ Key(r) \in Int /\ reader.cursor.key \in Int
    BY KeyType DEF IInv, TypeOK, Reader, Cursor
  <2> QED
    BY <2>4, <2>5, <2>6
<1>2. IInv /\ [Next]_vars => [InOrder]_vars
  BY <1>1
<1> QED
  BY <1>2, Inductive, PTL DEF Spec, PagesInOrder
=============================================================================
