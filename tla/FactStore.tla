------------------------------ MODULE FactStore ------------------------------
(***************************************************************************)
(* The blockchain_facts table of one chain, as a function from fact ids to *)
(* rows, and the three statements that write it                            *)
(* (persistence/postgres/repositories.py).  Each statement is one          *)
(* transaction: it commits before the repository function returns.         *)
(*                                                                         *)
(* A row keeps the columns the confirmation lifecycle reads or writes: the *)
(* block the log was in (number and hash), the header its event_time was   *)
(* taken from, the status and the confirmation count.  Blocks are          *)
(* identified by their hashes, which are natural numbers here.             *)
(***************************************************************************)
EXTENDS Integers

Pending   == "PENDING"
Confirmed == "CONFIRMED"
Finalized == "FINALIZED"
Orphaned  == "ORPHANED"
Absent    == "ABSENT"      \* there is no row with this fact_id

ConfirmationStatus == {Pending, Confirmed, Finalized, Orphaned}
Advancing          == {Pending, Confirmed}

Row == [block  : Nat,
        hash   : Nat,
        time   : Nat,
        status : ConfirmationStatus \cup {Absent},
        confs  : Nat]

NoRow == [block |-> 0, hash |-> 0, time |-> 0, status |-> Absent, confs |-> 0]

(* What FactProcessor._build_fact makes of a log. *)
NewFact(number, hash, time) ==
  [block |-> number, hash |-> hash, time |-> time, status |-> Pending, confs |-> 0]

(* Not the code: ON CONFLICT DO UPDATE, and an insert that revives orphans. *)
SaveFactUpsert(table, id, row) == [table EXCEPT ![id] = row]
SaveFactReviving(table, id, row) ==
  IF table[id].status \in {Absent, Orphaned} THEN [table EXCEPT ![id] = row] ELSE table

(* INSERT ... ON CONFLICT (fact_id) DO NOTHING. *)
SaveFact(table, id, row) ==
  IF table[id].status = Absent THEN [table EXCEPT ![id] = row] ELSE table

(* Not the code: a depth reached one block late, or one block early. *)
StatusAtLate(row, confs, depth) ==
  IF confs > depth THEN Finalized ELSE IF confs >= 1 THEN Confirmed ELSE row.status
StatusAtEarly(row, confs, depth) ==
  IF confs >= depth - 1 THEN Finalized ELSE IF confs >= 1 THEN Confirmed ELSE row.status

(* The CASE expression: below one confirmation the status stays as it is. *)
StatusAt(row, confs, depth) ==
  IF confs >= depth THEN Finalized ELSE IF confs >= 1 THEN Confirmed ELSE row.status

AdvanceRow(row, head, depth) ==
  IF row.status \in Advancing /\ row.block <= head
  THEN [row EXCEPT !.confs  = head - row.block,
                   !.status = StatusAt(row, head - row.block, depth)]
  ELSE row

AdvanceConfirmationCounts(table, head, depth) ==
  [id \in DOMAIN table |-> AdvanceRow(table[id], head, depth)]

(* Not the code: the lower end of the range is ignored. *)
OrphanRowUpTo(row, from, to) ==
  IF row.status \in Advancing \cup {Finalized} /\ row.block <= to
  THEN [row EXCEPT !.status = Orphaned, !.confs = 0]
  ELSE row

(* FINALIZED rows are orphaned too, ORPHANED ones stay. *)
OrphanRow(row, from, to) ==
  IF row.status \in Advancing \cup {Finalized} /\ from <= row.block /\ row.block <= to
  THEN [row EXCEPT !.status = Orphaned, !.confs = 0]
  ELSE row

MarkFactsOrphaned(table, from, to) ==
  [id \in DOMAIN table |-> OrphanRow(table[id], from, to)]
==============================================================================
