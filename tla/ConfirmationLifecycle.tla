------------------------ MODULE ConfirmationLifecycle ------------------------
(***************************************************************************)
(* What the ingestion of one chain promises about each blockchain fact,    *)
(* whatever blocks, reorganisations, crashes and replays it sees: it is    *)
(* observed once, moves towards FINALIZED, may be orphaned at any point,   *)
(* and is never deleted or revived (ADR-006, Confirmation Lifecycle).      *)
(*                                                                         *)
(* A fact that is many blocks behind when the head is next evaluated goes  *)
(* from PENDING to FINALIZED in one step, so CONFIRMED may be skipped.     *)
(***************************************************************************)
EXTENDS FactStore

CONSTANT Facts

VARIABLE status

TypeOK == status \in [Facts -> ConfirmationStatus \cup {Absent}]

Init == status = [f \in Facts |-> Absent]

(* A new fact is stored as PENDING, alone. *)
Observe(f) ==
  /\ status[f] = Absent
  /\ status' = [status EXCEPT ![f] = Pending]

(* A new head confirms some facts and finalizes others. *)
Confirm(confirmed, finalized) ==
  /\ confirmed \cap finalized = {}
  /\ \A f \in confirmed \cup finalized : status[f] \in Advancing
  /\ status' = [f \in Facts |-> IF f \in confirmed THEN Confirmed
                                ELSE IF f \in finalized THEN Finalized ELSE status[f]]

(* A reorganisation orphans facts in any live state. *)
Invalidate(orphaned) ==
  /\ \A f \in orphaned : status[f] \in Advancing \cup {Finalized}
  /\ status' = [f \in Facts |-> IF f \in orphaned THEN Orphaned ELSE status[f]]

Next ==
  \/ \E f \in Facts : Observe(f)
  \/ \E confirmed, finalized \in SUBSET Facts : Confirm(confirmed, finalized)
  \/ \E orphaned \in SUBSET Facts : Invalidate(orphaned)

Spec == Init /\ [][Next]_status
==============================================================================
