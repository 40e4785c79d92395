--------------------------- MODULE PaperLifecycle ---------------------------
(***************************************************************************)
(* The states of one local paper order, the kinds of event the paper       *)
(* ledger retains about it, and the transition table that the execution    *)
(* service, the portfolio projector and the audit timeline all replay      *)
(* (domain/paper.py, PaperOrderLifecycle).                                 *)
(*                                                                         *)
(* PaperOrderStatus.SUBMITTED is an alias of ACCEPTED in the code, so it   *)
(* is no state of its own; the legacy event ORDER_SUBMITTED is.            *)
(***************************************************************************)

PaperOrderStatus ==
  { "PENDING_RISK", "RISK_APPROVED", "REJECTED", "ACCEPTED", "WORKING",
    "PARTIALLY_FILLED", "FILLED", "CANCELLED", "RECONCILED" }

PaperEventType ==
  { "ORDER_PROPOSED", "RISK_DECISION", "ORDER_ACCEPTED", "ORDER_SUBMITTED",
    "ORDER_WORKING", "ORDER_UNFILLED", "ORDER_PARTIALLY_FILLED",
    "ORDER_REJECTED", "ORDER_FILLED", "ORDER_CANCELLED",
    "RECONCILIATION_RECORDED" }

(* The statuses in which the service lets a caller work, fill or cancel.   *)
Actionable == { "ACCEPTED", "WORKING", "PARTIALLY_FILLED" }

(* The statuses in which the service lets a caller reconcile.              *)
Terminal == { "REJECTED", "FILLED", "CANCELLED" }

FillEvents == { "ORDER_PARTIALLY_FILLED", "ORDER_FILLED" }

(* The answer of Apply for evidence that is out of sequence (Python None). *)
OutOfSequence == "OUT_OF_SEQUENCE"

(***************************************************************************)
(* PaperOrderLifecycle.apply: the status after an event, or OutOfSequence. *)
(* A risk decision is the only event whose effect depends on its payload.  *)
(***************************************************************************)
Apply(current, type, allowed) ==
  CASE type = "RISK_DECISION" /\ current = "PENDING_RISK" ->
         IF allowed THEN "RISK_APPROVED" ELSE "PENDING_RISK"
    [] type = "ORDER_PROPOSED" /\ current = "PENDING_RISK" -> "PENDING_RISK"
    [] type = "ORDER_REJECTED" /\ current = "PENDING_RISK" -> "REJECTED"
    [] type \in {"ORDER_ACCEPTED", "ORDER_SUBMITTED"}
         /\ current = "RISK_APPROVED" -> "ACCEPTED"
    [] type = "ORDER_WORKING" /\ current = "ACCEPTED" -> "WORKING"
    [] type = "ORDER_UNFILLED" /\ current \in Actionable -> current
    [] type = "ORDER_PARTIALLY_FILLED" /\ current \in Actionable ->
         "PARTIALLY_FILLED"
    [] type = "ORDER_FILLED" /\ current \in Actionable -> "FILLED"
    [] type = "ORDER_CANCELLED" /\ current \in Actionable -> "CANCELLED"
    [] type = "RECONCILIATION_RECORDED" /\ current \in Terminal ->
         "RECONCILED"
    [] OTHER -> OutOfSequence

=============================================================================
