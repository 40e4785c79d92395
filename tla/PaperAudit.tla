----------------------------- MODULE PaperAudit -----------------------------
(***************************************************************************)
(* The audit timeline of the Risk & paper page                             *)
(* (application/paper_audit.py): a third replay of the paper ledger,       *)
(* beside the service's and the projector's.  It applies the transition    *)
(* table only; no quantity, no terms, no risk-first rule.                  *)
(*                                                                         *)
(* Every payload the service writes is a JSON object, so payload_valid is  *)
(* left out and a row is VALID or INVALID_LIFECYCLE.                       *)
(***************************************************************************)
EXTENDS PaperExecution, FiniteSets

ASSUME StampsAssumption == Stamps \subseteq Nat

AllRows == "ALL"

(* What the timeline is filtered by; an absent filter is AllRows, or the   *)
(* null of its kind.                                                       *)
Scope ==
  [ integrity : {AllRows, "VALID", "ISSUES"},
    event_type : {AllRows} \cup PaperEventType,
    lifecycle_state : {AllRows, "UNPROJECTABLE"} \cup PaperOrderStatus,
    instrument_id : {NoInstrument} \cup Instruments,
    side : {NoSide} \cup OrderSide, start : Nat, end : Nat ]

(* No filter.  The window is the inclusive one that the page proposes when *)
(* it is asked to limit the time, from the earliest event to the latest.   *)
Unfiltered(events) ==
  [ integrity |-> AllRows, event_type |-> AllRows,
    lifecycle_state |-> AllRows, instrument_id |-> NoInstrument,
    side |-> NoSide,
    start |-> CHOOSE t \in { events[i].at : i \in 1..Len(events) } :
                \A i \in 1..Len(events) : t <= events[i].at,
    end |-> CHOOSE t \in { events[i].at : i \in 1..Len(events) } :
              \A i \in 1..Len(events) : t >= events[i].at ]

(* What a sequence has at some of its positions, in order.                 *)
Picked(seq, positions) ==
  LET kept[i \in 0..Len(seq)] ==
        IF i = 0 THEN << >>
        ELSE IF i \in positions THEN Append(kept[i - 1], seq[i]) ELSE kept[i - 1]
  IN kept[Len(seq)]

FirstOf(events, limit) ==
  SubSeq(events, 1, IF Len(events) < limit THEN Len(events) ELSE limit)

(* One order's rows come from its own stream, so that the limit counts its *)
(* events only.                                                            *)
Stream(o) == Picked(ledger, { i \in 1..Len(ledger) : ledger[i].order_id = o })
EventsOf(o, limit) == FirstOf(Stream(o), limit)
AllEvents(limit) == FirstOf(ledger, limit)

(* Mutant of NextState: the decision in the payload is not handed on.      *)
NextStateUndecided(current, e) == Apply(current, e.type, FALSE)

NextState(current, e) == Apply(current, e.type, e.allowed)

(* The rows of the first i events, and the states they leave the orders    *)
(* in: an event out of sequence leaves them as they were.                  *)
Row(e, next) ==
  [ event |-> e,
    lifecycle_state |-> IF next = OutOfSequence THEN "UNPROJECTABLE" ELSE next,
    integrity_status |-> IF next = OutOfSequence THEN "INVALID_LIFECYCLE"
                                                 ELSE "VALID" ]

NothingRead == [ states |-> [o \in OrderIds |-> "PENDING_RISK"], rows |-> << >> ]

Read(before, e) ==
  LET next == NextState(before.states[e.order_id], e) IN
  [ states |-> IF next = OutOfSequence THEN before.states
               ELSE [before.states EXCEPT ![e.order_id] = next],
    rows |-> Append(before.rows, Row(e, next)) ]

AuditReplay(events) ==
  LET after[i \in 0..Len(events)] ==
        IF i = 0 THEN NothingRead ELSE Read(after[i - 1], events[i])
  IN after[Len(events)]

Interpreted(events) == AuditReplay(events).rows

Matches(row, scope) ==
  /\ scope.integrity = "VALID" => row.integrity_status = "VALID"
  /\ scope.integrity = "ISSUES" => row.integrity_status # "VALID"
  /\ scope.event_type \in {AllRows, row.event.type}
  /\ scope.lifecycle_state \in {AllRows, row.lifecycle_state}
  /\ scope.instrument_id \in {NoInstrument, row.event.instrument_id}
  /\ scope.side \in {NoSide, row.event.side}
  /\ row.event.at \in scope.start..scope.end

(* Every event is interpreted before a filter drops its row.               *)
Rows(events, scope) ==
  LET rows == Interpreted(events)
  IN Picked(rows, { i \in 1..Len(rows) : Matches(rows[i], scope) })

Summary(rows) ==
  [ total |-> Len(rows),
    valid |-> Cardinality({ i \in 1..Len(rows) :
                              rows[i].integrity_status = "VALID" }),
    invalid_lifecycle |->
      Cardinality({ i \in 1..Len(rows) :
                      rows[i].lifecycle_state = "UNPROJECTABLE" }) ]

-----------------------------------------------------------------------------

StateShown(rows) == rows[Len(rows)].lifecycle_state

(* The third replay agrees with the other two.  On a stream the service    *)
(* can read back the audit finds no issue and its last row shows the       *)
(* status the service would require of a caller; and where the projector   *)
(* lists none of the order's events as unprojectable, the audit shows the  *)
(* projected status, in the order's own timeline and in the whole one.     *)
AuditTracksReplay ==
  \A o \in OrderIds :
    LET events == EventsOf(o, ReadLimit)
        rows == Rows(events, Unfiltered(events))
        whole == Rows(AllEvents(ReadLimit), Unfiltered(ledger))
        issues == [ Unfiltered(events) EXCEPT !.integrity = "ISSUES" ]
    IN
    (events # << >> /\ Len(ledger) <= ReadLimit) =>
      /\ Picked(whole, { i \in 1..Len(whole) : whole[i].event.order_id = o }) = rows
      /\ retained[o].valid =>
           /\ Summary(rows).invalid_lifecycle = 0
           /\ Rows(events, issues) = << >>
           /\ StateShown(rows) = retained[o].status
      /\ (\A e \in portfolio.unprojectable : e.order_id # o) =>
           StateShown(rows) = portfolio.orders[o].status

=============================================================================
