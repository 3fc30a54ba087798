-------------------------------- MODULE Pages --------------------------------
(***************************************************************************)
(* Reading a table in pages while it is written: the listings of the       *)
(* Research API, which continue after the ordering key of the last row     *)
(* (research/api/pagination.py and the list_* queries), the jobs that take *)
(* the first page for the whole, and the script that fills in              *)
(* liquidity_usd, which continues at an offset.                            *)
(*                                                                         *)
(* A row has an identity, a time and a state: a fact is open until it is   *)
(* final or orphaned, a provisional bar is open, and so is a snapshot      *)
(* without liquidity_usd until the script makes it final.                  *)
(***************************************************************************)
EXTENDS Integers, FiniteSets

CONSTANTS
  Listings,  \* the listings read
  Table,     \* for each listing, by name, the rows its table may ever have
  Limits,    \* page sizes a client may ask for
  Bounds     \* times a client may give as start or end

\* The order of the rows and where the next page goes on.
ById == "by id"
OldestFirst == "oldest first"
NewestFirst == "newest first"

VARIABLES
  listing,  \* the listing that is read
  query,    \* the filters of the request, the same for every page
  state,    \* the state of every row of its table
  reader,   \* where the reader is
  got,      \* auxiliary: how often it was given each row
  owed      \* auxiliary: rows that matched since the first request

vars == <<listing, query, state, reader, got, owed>>

ASSUME PagesAssumption ==
  /\ \A l \in Listings : \A r \in Table[l.name] : r.id \in Int /\ r.time \in Int
  /\ Limits \subseteq Nat \ {0}
  /\ Bounds \subseteq Int

States == {"absent", "open", "final", "orphaned"}
Rows == UNION {Table[l.name] : l \in Listings}
-----------------------------------------------------------------------------
(* The listings.  "shown" is what the query's filters leave without, and   *)
(* "wider" what they leave with, the parameter that asks for more;         *)
(* "becomes" is what may happen to a row.                                  *)

Written(final) == {<<"absent", final>>}
FactLife ==
  {<<"absent", "open">>, <<"open", "final">>, <<"open", "orphaned">>, <<"final", "orphaned">>}

\* Any order of identities is an order of pairs.
ListPairs ==
  [name |-> "pairs", order |-> ById, ranged |-> TRUE, shown |-> {"final"},
   wider |-> {"final"}, becomes |-> Written("final"), goes_on |-> "cursor"]

\* With include_unfinalized, every fact but the orphaned.
ListFactsForPair ==
  [name |-> "facts", order |-> ById, ranged |-> TRUE, shown |-> {"final"},
   wider |-> {"final", "open"}, becomes |-> FactLife, goes_on |-> "cursor"]

ListFactsForWallet == [ListFactsForPair EXCEPT !.name = "activity", !.wider = {"final"}]

\* A bar is the only one of its pair, interval and start.
ListBars ==
  [name |-> "bars", order |-> OldestFirst, ranged |-> TRUE, shown |-> {"final"},
   wider |-> {"final", "open"},
   becomes |-> Written("final") \cup {<<"absent", "open">>, <<"open", "final">>},
   goes_on |-> "cursor"]

\* Snapshots of two sources may have the same time.
ListSnapshots ==
  [name |-> "snapshots", order |-> OldestFirst, ranged |-> TRUE, shown |-> {"final"},
   wider |-> {"final"}, becomes |-> Written("final"), goes_on |-> "cursor"]

\* The labels of one evaluation have the same time.
ListOutcomes ==
  [name |-> "outcomes", order |-> NewestFirst, ranged |-> FALSE, shown |-> {"final"},
   wider |-> {"final"}, becomes |-> Written("final"), goes_on |-> "cursor"]

\* So have the insights of one scan.
ListInsights == [ListOutcomes EXCEPT !.name = "insights", !.ranged = TRUE]

\* The snapshot job, the scripts, the dataset and the ranking ask for the pairs
\* once and drop the cursor.
PairsOfJob == [ListPairs EXCEPT !.name = "pairs of a job", !.goes_on = "never"]

\* The script's loop over list_snapshots_missing_liquidity_usd, while the
\* snapshot job writes.
MissingLiquidity ==
  [name |-> "missing liquidity", order |-> ById, ranged |-> FALSE, shown |-> {"open"},
   wider |-> {"open"}, becomes |-> Written("open"), goes_on |-> "offset"]
-----------------------------------------------------------------------------
(* The queries.                                                            *)

Key(row) ==
  IF listing.order = ById THEN row.id
  ELSE IF listing.order = OldestFirst THEN row.time
  ELSE 0 - row.time

ByCursor == listing.goes_on = "cursor"
ByOffset == listing.goes_on = "offset"

\* Both ends of the range are in it.
InRange(row, q) == listing.ranged => q.start <= row.time /\ row.time <= q.end

Shown(q) == IF q.wider THEN listing.wider ELSE listing.shown

Matching(s, q) == {r \in Table[listing.name] : s[r] \in Shown(q) /\ InRange(r, q)}

\* Not the code: >= in place of >.
FromCursor(rows, cursor) == {r \in rows : cursor.set => cursor.key <= Key(r)}

\* The rows after the cursor.
AfterCursor(rows, cursor) == {r \in rows : cursor.set => cursor.key < Key(r)}

\* The pages ORDER BY and LIMIT may give, rows with one key coming in any order.
FirstOf(rows, limit) ==
  {page \in SUBSET rows :
     /\ Cardinality(page) = IF Cardinality(rows) <= limit THEN Cardinality(rows) ELSE limit
     /\ \A r \in page, s \in rows \ page : Key(r) <= Key(s)}

NoCursor == [set |-> FALSE, key |-> 0]
CursorAt(row) == [set |-> TRUE, key |-> Key(row)]

\* Not the code: the cursor is taken from the row that was read only to see
\* whether there are more.
CursorsPastPage(page, rest) ==
  {CursorAt(r) : r \in {n \in rest \ page : \A s \in rest \ page : Key(n) <= Key(s)}}

\* The cursor is the key of the page's last row.
CursorsAfter(page, rest) ==
  {CursorAt(r) : r \in {l \in page : \A s \in page : Key(s) <= Key(l)}}
-----------------------------------------------------------------------------
(* The reader.                                                             *)

Delivered(page) == [r \in Rows |-> IF r \in page THEN got[r] + 1 ELSE got[r]]

ClosedReader == [pc |-> "closed", cursor |-> NoCursor, offset |-> 0, batch |-> 1, todo |-> {}]

\* The first request is sent.
Open ==
  /\ reader.pc = "closed"
  /\ \E start, end \in Bounds, wider \in BOOLEAN, batch \in Limits :
       /\ query' = [start |-> start, end |-> end, wider |-> wider]
       /\ reader' = [reader EXCEPT !.pc = "reading", !.batch = batch]
  /\ owed' = Matching(state, query')
  /\ UNCHANGED <<listing, state, got>>

\* A page of an API listing; the client may ask for another size each time.
ReadPage ==
  /\ reader.pc = "reading"
  /\ ~ByOffset
  /\ LET rest == AfterCursor(Matching(state, query), reader.cursor)
     IN  \E limit \in Limits : \E page \in FirstOf(rest, limit) :
           /\ got' = Delivered(page)
           /\ reader' \in IF page # rest /\ ByCursor
                            THEN {[reader EXCEPT !.cursor = c] : c \in CursorsAfter(page, rest)}
                            ELSE {[reader EXCEPT !.pc = "over"]}
  /\ UNCHANGED <<listing, query, state, owed>>

\* A batch of the script, which is over when it gets none.
ReadBatch ==
  /\ reader.pc = "reading"
  /\ ByOffset
  /\ LET rows == Matching(state, query)
     IN  \E before \in FirstOf(rows, reader.offset) :
         \E page \in FirstOf(rows \ before, reader.batch) :
           /\ got' = Delivered(page)
           /\ reader' = IF page = {} THEN [reader EXCEPT !.pc = "over"]
                          ELSE [reader EXCEPT !.pc = "filling", !.todo = page]
  /\ UNCHANGED <<listing, query, state, owed>>

\* The next snapshot of the batch is filled in, or left as it is for want of its
\* pair or of a price.
Fill ==
  /\ reader.pc = "filling"
  /\ \E r \in reader.todo :
       /\ \A s \in reader.todo : Key(r) <= Key(s)
       /\ state' \in {state, [state EXCEPT ![r] = "final"]}
       /\ reader' = IF reader.todo # {r} THEN [reader EXCEPT !.todo = @ \ {r}]
                     ELSE [reader EXCEPT !.pc = "reading", !.todo = {},
                                         !.offset = @ + reader.batch]
  /\ owed' = owed \cap Matching(state', query)
  /\ UNCHANGED <<listing, query, got>>

\* Another process writes a row of the table.
Write ==
  /\ \E r \in Table[listing.name] : \E s \in States :
       /\ <<state[r], s>> \in listing.becomes
       /\ state' = [state EXCEPT ![r] = s]
  /\ owed' = owed \cap Matching(state', query)
  /\ UNCHANGED <<listing, query, reader, got>>

Init ==
  /\ listing \in Listings
  /\ query = [start |-> 0, end |-> 0, wider |-> FALSE]
  /\ state = [r \in Rows |-> "absent"]
  /\ reader = ClosedReader
  /\ got = [r \in Rows |-> 0]
  /\ owed = {}

Next == Open \/ ReadPage \/ ReadBatch \/ Fill \/ Write

Spec == Init /\ [][Next]_vars
-----------------------------------------------------------------------------
(* Properties.                                                             *)

\* When the reader is told that the listing is over, or stops because it comes to
\* its end, it was given every row that belonged to it all the time ("for every
\* snapshot lacking a non-null liquidity_usd", the script; "for every active
\* pair", snapshot_job.py).
NothingSkipped == reader.pc = "over" => \A r \in owed : got[r] > 0

\* Another row with the same key was delivered.
TieOf(r) == \E s \in Table[listing.name] \ {r} : got[s] > 0 /\ Key(s) = Key(r)

\* A listing of the API is complete when it is over, whatever is written between
\* its pages ("stable regardless of rows appended mid-pagination",
\* research/api/pagination.py), but for what the strict comparison of keys loses:
\* of labels, insights or snapshots with one time, those that a page break parts
\* from one that was delivered.
OnlyTiesAreLost ==
  ByCursor /\ reader.pc = "over" => \A r \in owed : got[r] > 0 \/ TieOf(r)

\* What comes later comes after all that came before in the order of the
\* listing: pages put one after the other are sorted, and no row comes twice.
PagesInOrder ==
  [][\A r, s \in Rows : ByCursor /\ got[s] > 0 /\ got'[r] > got[r] => Key(s) < Key(r)]_vars
=============================================================================
