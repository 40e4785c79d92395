--------------------------- MODULE PaperExecution ---------------------------
(***************************************************************************)
(* The paper-order service over its SQLite ledger                          *)
(* (application/paper_execution.py, infrastructure/paper/sqlite_ledger.py) *)
(* as several sessions use it at once.                                     *)
(*                                                                         *)
(* Every call of the service reads the ledger, decides, and appends; each  *)
(* read and each append is a transaction of its own, so the steps of two   *)
(* sessions interleave between them and a session may die between any two. *)
(* A PaperOrder is an immutable value: a caller may keep it and hand it to *)
(* the service again when the ledger has moved on.                         *)
(***************************************************************************)
EXTENDS PaperReplay, Sequences

CONSTANTS
  Sessions,      \* threads that hold a service over the shared ledger
  Intents,       \* the proposals callers make
  Assumptions,   \* the fill assumptions callers supply
  ReadLimit,     \* the number of events a portfolio replay reads
  NoCall         \* what a session that is in no call has for locals

ASSUME IntentsAssumption == Intents \subseteq OrderIntent
ASSUME AssumptionsAssumption ==
  Assumptions \subseteq
    [ session_open : BOOLEAN, eligible : BOOLEAN, available : Nat,
      price : Prices ]
ASSUME ReadLimitAssumption == ReadLimit \in Nat \ {0}
ASSUME NoCallAssumption ==
  NoCall \notin
    [ order : [ intent : Intents, status : PaperOrderStatus ],
      event : PaperEvent, returns : PaperOrderStatus ]

VARIABLES
  ledger,     \* the rows of paper_events, in event_sequence order
  retained,   \* per order, the strict replay of its stream
  portfolio,  \* the lenient replay of the first ReadLimit rows
  issued,     \* the PaperOrder values the service has returned
  pc,         \* per session, the stage of the call it is in
  call        \* per session, that call's local variables

(* retained and portfolio are functions of ledger, which the code replays  *)
(* on every read; keeping them beside it makes one append one step of each *)
(* replay.                                                                 *)
ledgerVars == <<ledger, retained, portfolio>>
vars == <<ledger, retained, portfolio, issued, pc, call>>

PaperOrder == [ intent : Intents, status : PaperOrderStatus ]

(* A call's locals: the order it was given, the event it will append next  *)
(* and the status of the order it will return.                             *)
Call == [ order : PaperOrder, event : PaperEvent, returns : PaperOrderStatus ]

Stages == {"idle", "propose", "decide", "conclude", "record", "append"}

TypeOK ==
  /\ ledger \in Seq(PaperEvent)
  /\ retained \in [OrderIds -> RetainedState]
  /\ portfolio \in Portfolio
  /\ issued \subseteq PaperOrder
  /\ pc \in [Sessions -> Stages]
  /\ call \in [Sessions -> Call \cup {NoCall}]
  /\ \A s \in Sessions : pc[s] = "idle" <=> call[s] = NoCall

Init ==
  /\ ledger = << >>
  /\ retained = [o \in OrderIds |-> NothingRetained]
  /\ portfolio = EmptyPortfolio
  /\ issued = {}
  /\ pc = [s \in Sessions |-> "idle"]
  /\ call = [s \in Sessions |-> NoCall]

-----------------------------------------------------------------------------
(* The ledger. *)

SeenOrderIds == { ledger[i].order_id : i \in 1..Len(ledger) }

(* event_id is UNIQUE: an event whose identity is retained is refused.     *)
Fresh(e) == \A i \in 1..Len(ledger) : ~SameEventId(ledger[i], e)

AppendEvent(e) ==
  /\ Fresh(e)
  /\ ledger' = Append(ledger, e)
  /\ retained' = [retained EXCEPT ![e.order_id] = RetainedStep(@, e)]
  /\ portfolio' = IF Len(ledger) < ReadLimit THEN ProjectEvent(portfolio, e)
                                             ELSE portfolio

(* A call moves to its next stage, or ends with what it returns.           *)
Goto(s, stage, c) ==
  /\ pc' = [pc EXCEPT ![s] = stage]
  /\ call' = [call EXCEPT ![s] = c]

End(s) == Goto(s, "idle", NoCall)

Return(s, intent, status) ==
  /\ End(s)
  /\ issued' = issued \cup {[intent |-> intent, status |-> status]}

-----------------------------------------------------------------------------
(* submit: the identities are read first; a seen one returns at once.  The *)
(* decision depends on the portfolio, marks, limits and controls that the  *)
(* caller read earlier, so either decision is possible here.               *)

(* Mutant of Submit: the retained identities are not consulted.            *)
SubmitUnchecked(s, intent, at, allowed) ==
  /\ pc[s] = "idle"
  /\ Goto(s, "propose",
          [ order |-> [intent |-> intent, status |-> "PENDING_RISK"],
            event |-> TermsEvent("ORDER_PROPOSED", intent, at),
            returns |-> IF allowed THEN "ACCEPTED" ELSE "REJECTED" ])
  /\ UNCHANGED <<ledgerVars, issued>>

Submit(s, intent, at, allowed) ==
  /\ pc[s] = "idle"
  /\ intent.order_id \notin SeenOrderIds
  /\ Goto(s, "propose",
          [ order |-> [intent |-> intent, status |-> "PENDING_RISK"],
            event |-> TermsEvent("ORDER_PROPOSED", intent, at),
            returns |-> IF allowed THEN "ACCEPTED" ELSE "REJECTED" ])
  /\ UNCHANGED <<ledgerVars, issued>>

DuplicateSubmit(s, intent) ==
  /\ pc[s] = "idle"
  /\ intent.order_id \in SeenOrderIds
  /\ Return(s, intent, "REJECTED")
  /\ UNCHANGED ledgerVars

Propose(s) ==
  LET c == call[s] IN
  /\ pc[s] = "propose"
  /\ AppendEvent(c.event)
  /\ Goto(s, "decide",
          [ c EXCEPT !.event =
              [ BareEvent("RISK_DECISION", c.order.intent, c.event.at)
                  EXCEPT !.allowed = (c.returns = "ACCEPTED") ] ])
  /\ UNCHANGED issued

(* Mutants of Decide: one accepts a denied order, one leaves it pending.   *)
DecideAcceptsAll(s) ==
  LET c == call[s] IN
  /\ pc[s] = "decide"
  /\ AppendEvent(c.event)
  /\ Goto(s, "conclude",
          [ c EXCEPT !.event =
              TermsEvent("ORDER_ACCEPTED", c.order.intent, c.event.at) ])
  /\ UNCHANGED issued

DecideWithoutRejection(s) ==
  LET c == call[s] IN
  /\ pc[s] = "decide"
  /\ AppendEvent(c.event)
  /\ IF c.event.allowed
     THEN Goto(s, "conclude",
               [ c EXCEPT !.event =
                   TermsEvent("ORDER_ACCEPTED", c.order.intent, c.event.at) ])
     ELSE End(s)
  /\ UNCHANGED issued

Decide(s) ==
  LET c == call[s]
      conclusion == IF c.event.allowed THEN "ORDER_ACCEPTED"
                                       ELSE "ORDER_REJECTED"
  IN
  /\ pc[s] = "decide"
  /\ AppendEvent(c.event)
  /\ Goto(s, "conclude",
          [ c EXCEPT !.event =
              TermsEvent(conclusion, c.order.intent, c.event.at) ])
  /\ UNCHANGED issued

Conclude(s) ==
  /\ pc[s] = "conclude"
  /\ AppendEvent(call[s].event)
  /\ Return(s, call[s].order.intent, call[s].returns)

-----------------------------------------------------------------------------
(* The calls on an order in hand.  Each reads the order's stream, checks   *)
(* the value it was given against it, and goes on to append one event.     *)

Held(order) == retained[order.intent.order_id]

(* Mutants of RequireActionable: one compares the statuses and forgets     *)
(* which ones are actionable, one trusts the value it was given.           *)
RequireSameStatus(order) ==
  /\ Readable(Held(order), order.intent)
  /\ Held(order).status = order.status

RequireActionableValue(order) ==
  /\ order.status \in Actionable
  /\ Readable(Held(order), order.intent)

RequireActionable(order) ==
  /\ order.status \in Actionable
  /\ Readable(Held(order), order.intent)
  /\ Held(order).status = order.status

Remaining(order) == order.intent.quantity - Held(order).filled

WillAppend(s, order, event, status) ==
  Goto(s, "append", [order |-> order, event |-> event, returns |-> status])

Work(s, order, at) ==
  /\ pc[s] = "idle"
  /\ RequireActionable(order)
  /\ Held(order).status = "ACCEPTED"
  /\ WillAppend(s, order, TermsEvent("ORDER_WORKING", order.intent, at),
                "WORKING")
  /\ UNCHANGED <<ledgerVars, issued>>

Cancel(s, order, at) ==
  /\ pc[s] = "idle"
  /\ RequireActionable(order)
  /\ WillAppend(s, order,
                [ TermsEvent("ORDER_CANCELLED", order.intent, at)
                    EXCEPT !.cumulative = Held(order).filled ],
                "CANCELLED")
  /\ UNCHANGED <<ledgerVars, issued>>

Reconcile(s, order, at) ==
  /\ pc[s] = "idle"
  /\ order.status \in Terminal
  /\ Readable(Held(order), order.intent)
  /\ Held(order).status = order.status
  /\ WillAppend(s, order,
                [ BareEvent("RECONCILIATION_RECORDED", order.intent, at)
                    EXCEPT !.cumulative = Held(order).filled ],
                "RECONCILED")
  /\ UNCHANGED <<ledgerVars, issued>>

(* _record_fill: the fill that continues the stream as it is read now.     *)
(* Mutants of FillStatus: the type of the event in place of the status of  *)
(* the order, and a comparison that points the wrong way.                  *)
FillStatusAsType(order, quantity) ==
  IF quantity = Remaining(order) THEN "ORDER_FILLED"
                                 ELSE "ORDER_PARTIALLY_FILLED"

FillStatusAtMost(order, quantity) ==
  IF quantity <= Remaining(order) THEN "FILLED" ELSE "PARTIALLY_FILLED"

FillStatus(order, quantity) ==
  IF quantity = Remaining(order) THEN "FILLED" ELSE "PARTIALLY_FILLED"

FillEvent(order, quantity, price, reason, at) ==
  LET type == IF quantity = Remaining(order) THEN "ORDER_FILLED"
                                             ELSE "ORDER_PARTIALLY_FILLED"
  IN [ TermsEvent(type, order.intent, at) EXCEPT
         !.quantity = quantity,
         !.cumulative = Held(order).filled + quantity,
         !.price = price, !.reason = reason ]

Fill(s, order, quantity, price, at) ==
  /\ pc[s] = "idle"
  /\ RequireActionable(order)
  /\ quantity \in 1..Remaining(order)
  /\ WillAppend(s, order,
                FillEvent(order, quantity, price, NoSimulation, at),
                FillStatus(order, quantity))
  /\ UNCHANGED <<ledgerVars, issued>>

(* simulate_limit_fill: why the declared assumptions give no fill, in the  *)
(* order the code asks.                                                    *)
NoFillReason(a) ==
  CASE ~a.session_open   -> "SESSION_CLOSED"
    [] a.session_open /\ ~a.eligible -> "LIMIT_NOT_ELIGIBLE"
    [] OTHER             -> "NO_AVAILABLE_SIMULATED_VOLUME"

MayFill(a) == a.session_open /\ a.eligible /\ a.available > 0

SimulateNoFill(s, order, a, at) ==
  /\ pc[s] = "idle"
  /\ RequireActionable(order)
  /\ ~MayFill(a)
  /\ WillAppend(s, order,
                [ TermsEvent("ORDER_UNFILLED", order.intent, at) EXCEPT
                    !.cumulative = Held(order).filled,
                    !.reason = NoFillReason(a) ],
                Held(order).status)
  /\ UNCHANGED <<ledgerVars, issued>>

(* The quantity and the reason are settled on this read; _record_fill      *)
(* reads the stream again before it appends.                               *)
SimulateLimitFill(s, order, a, at) ==
  LET quantity == IF Remaining(order) <= a.available THEN Remaining(order)
                                                     ELSE a.available
      reason == IF quantity = Remaining(order) THEN Complete ELSE Capped
  IN
  /\ pc[s] = "idle"
  /\ RequireActionable(order)
  /\ MayFill(a)
  /\ Goto(s, "record",
          [ order |-> order,
            event |-> FillEvent(order, quantity, a.price, reason, at),
            returns |-> order.status ])
  /\ UNCHANGED <<ledgerVars, issued>>

RecordFill(s) ==
  LET order == call[s].order
      draft == call[s].event
  IN
  /\ pc[s] = "record"
  /\ IF RequireActionable(order) /\ draft.quantity \in 1..Remaining(order)
     THEN WillAppend(s, order,
                     FillEvent(order, draft.quantity, draft.price,
                               draft.reason, draft.at),
                     FillStatus(order, draft.quantity))
     ELSE End(s)
  /\ UNCHANGED <<ledgerVars, issued>>

Retain(s) ==
  /\ pc[s] = "append"
  /\ AppendEvent(call[s].event)
  /\ Return(s, call[s].order.intent, call[s].returns)

-----------------------------------------------------------------------------
(* The insert raises and the call ends with nothing returned.              *)
RefusedAppend(s) ==
  /\ pc[s] \in {"propose", "decide", "conclude", "append"}
  /\ ~Fresh(call[s].event)
  /\ End(s)
  /\ UNCHANGED <<ledgerVars, issued>>

(* The process dies, or a step after the append raises: the call is lost,  *)
(* the rows it has committed are not.                                      *)
Crash(s) ==
  /\ pc[s] # "idle"
  /\ End(s)
  /\ UNCHANGED <<ledgerVars, issued>>

(* What a session does of itself once a caller has started a call.         *)
Continue(s) ==
  \/ Propose(s)
  \/ Decide(s)
  \/ Conclude(s)
  \/ RecordFill(s)
  \/ Retain(s)
  \/ RefusedAppend(s)

Start(s) ==
  \/ \E intent \in Intents :
       \/ \E at \in Stamps, allowed \in BOOLEAN : Submit(s, intent, at, allowed)
       \/ DuplicateSubmit(s, intent)
  \/ \E order \in issued, at \in Stamps :
       \/ Work(s, order, at)
       \/ Cancel(s, order, at)
       \/ Reconcile(s, order, at)
       \/ \E quantity \in 1..order.intent.quantity, price \in Prices :
            Fill(s, order, quantity, price, at)
       \/ \E a \in Assumptions :
            \/ SimulateNoFill(s, order, a, at)
            \/ SimulateLimitFill(s, order, a, at)

Next == \E s \in Sessions : Start(s) \/ Continue(s) \/ Crash(s)

Spec == Init /\ [][Next]_vars

(* Without crashes, and with no call left hanging: the fairness a running  *)
(* Python thread gives the call it is in.  Callers owe nothing.            *)
FairSpec ==
  /\ Init
  /\ [][\E s \in Sessions : Start(s) \/ Continue(s)]_vars
  /\ \A s \in Sessions : WF_vars(Continue(s))

-----------------------------------------------------------------------------
(* Properties of the ledger under any interleaving and any crash.          *)

Retains(o, type) ==
  \E i \in 1..Len(ledger) : ledger[i].order_id = o /\ ledger[i].type = type

(* Risk first: an acceptance is only ever retained after an allowing risk  *)
(* decision of the same order, whichever session appended which.           *)
RiskFirst ==
  \A i \in 1..Len(ledger) :
    ledger[i].type = "ORDER_ACCEPTED" =>
      \E j \in 1..(i - 1) :
        /\ ledger[j].order_id = ledger[i].order_id
        /\ ledger[j].type = "RISK_DECISION"
        /\ ledger[j].allowed

AcceptedEvidence ==
  { "ORDER_WORKING", "ORDER_UNFILLED", "ORDER_PARTIALLY_FILLED",
    "ORDER_FILLED", "ORDER_CANCELLED" }

(* Working, no-fill, fill and cancellation evidence is only ever retained  *)
(* after an acceptance of the same order, whichever session appended it.   *)
AcceptedFirst ==
  \A i \in 1..Len(ledger) :
    ledger[i].type \in AcceptedEvidence =>
      \E j \in 1..(i - 1) :
        /\ ledger[j].order_id = ledger[i].order_id
        /\ ledger[j].type = "ORDER_ACCEPTED"

(* The two replays never part silently: while the portfolio replay reaches *)
(* the end of the ledger, an order on which the service and the projector  *)
(* disagree (status, filled quantity, or a stream the service refuses) has *)
(* at least one event the projector lists as unprojectable.                *)
DivergenceIsFlagged ==
  \A o \in OrderIds :
    \/ Len(ledger) > ReadLimit
    \/ \E e \in portfolio.unprojectable : e.order_id = o
    \/ /\ retained[o].valid
       /\ retained[o].status = portfolio.orders[o].status
       /\ retained[o].filled = portfolio.orders[o].filled

(* A PaperOrder in a caller's hands was earned: the ledger retains the     *)
(* event that put the order into that status.  (A REJECTED value may also  *)
(* be the answer to a duplicate submission.)                               *)
StatusEvidence(status) ==
  CASE status = "ACCEPTED"         -> "ORDER_ACCEPTED"
    [] status = "WORKING"          -> "ORDER_WORKING"
    [] status = "PARTIALLY_FILLED" -> "ORDER_PARTIALLY_FILLED"
    [] status = "FILLED"           -> "ORDER_FILLED"
    [] status = "CANCELLED"        -> "ORDER_CANCELLED"
    [] status = "RECONCILED"       -> "RECONCILIATION_RECORDED"
    [] OTHER                       -> "ORDER_PROPOSED"

IssuedOrdersAreEvidenced ==
  \A order \in issued :
    Retains(order.intent.order_id, StatusEvidence(order.status))

(* The order of evidence seen from inside the calls: whatever event a      *)
(* session is about to append, the evidence that has to precede it is      *)
(* already retained, and the status it will return is earned by the event  *)
(* or by older evidence.                                                   *)
AllowedDecision(o) ==
  \E j \in 1..Len(ledger) :
    /\ ledger[j].order_id = o
    /\ ledger[j].type = "RISK_DECISION"
    /\ ledger[j].allowed

CallEvidenced(stage, c) ==
  LET o == c.order.intent.order_id
      type == c.event.type
      submission == c.returns \in {"ACCEPTED", "REJECTED"}
  IN
  /\ c.event.order_id = o
  /\ stage = "propose" => type = "ORDER_PROPOSED" /\ submission
  /\ stage = "decide" =>
       /\ type = "RISK_DECISION" /\ submission
       /\ c.event.allowed = (c.returns = "ACCEPTED")
       /\ Retains(o, "ORDER_PROPOSED")
  /\ stage = "conclude" =>
       /\ Retains(o, "ORDER_PROPOSED")
       /\ \/ /\ type = "ORDER_ACCEPTED" /\ c.returns = "ACCEPTED"
             /\ AllowedDecision(o)
          \/ type = "ORDER_REJECTED" /\ c.returns = "REJECTED"
  /\ stage \in {"record", "append"} => Retains(o, "ORDER_PROPOSED")
  /\ stage = "record" => Retains(o, "ORDER_ACCEPTED")
  /\ stage = "append" =>
       \/ type = "RECONCILIATION_RECORDED" /\ c.returns = "RECONCILED"
       \/ /\ type \in AcceptedEvidence /\ Retains(o, "ORDER_ACCEPTED")
          /\ \/ StatusEvidence(c.returns) = type
             \/ Retains(o, StatusEvidence(c.returns))

CallsAreEvidenced ==
  \A s \in Sessions : pc[s] # "idle" => CallEvidenced(pc[s], call[s])

(* Without crashes a proposal is not left pending: once it is retained, an *)
(* acceptance or a rejection of that order is retained too, also when a    *)
(* second session races for the same identity.                             *)
ProposalsAreConcluded ==
  \A o \in OrderIds :
    Retains(o, "ORDER_PROPOSED") ~>
      Retains(o, "ORDER_ACCEPTED") \/ Retains(o, "ORDER_REJECTED")

-----------------------------------------------------------------------------
(* Properties of a ledger that one session writes, crashes included.       *)

(* A duplicate order identity never opens a second event stream: of each   *)
(* identity one proposal is retained.                                      *)
OneProposalPerOrder ==
  \A i, j \in 1..Len(ledger) :
    /\ ledger[i].type = "ORDER_PROPOSED" /\ ledger[j].type = "ORDER_PROPOSED"
    /\ ledger[i].order_id = ledger[j].order_id
    => i = j

(* What the service appends it can read back: no call ever leaves a stream *)
(* that the strict replay refuses.                                         *)
StreamsStayReadable == \A o \in OrderIds : retained[o].valid

(* A closed order stays closed: after its final fill or its cancellation   *)
(* the service appends no further fill and no further cancellation.        *)
ClosedOrdersStayClosed ==
  \A i, j \in 1..Len(ledger) :
    /\ ledger[i].order_id = ledger[j].order_id
    /\ ledger[i].type \in {"ORDER_FILLED", "ORDER_CANCELLED"}
    /\ ledger[j].type \in FillEvents \cup {"ORDER_CANCELLED"}
    => j <= i

-----------------------------------------------------------------------------
(* The projected portfolio is an order book.                               *)

BookedOrder(o) ==
  [ instrument_id |-> o.instrument_id, side |-> o.side,
    quantity |-> o.quantity, status |-> o.status, filled |-> o.filled ]

BookedOrders == [o \in OrderIds |-> BookedOrder(portfolio.orders[o])]

Book ==
  INSTANCE PaperOrderBook WITH
    orders     <- BookedOrders,
    positions  <- portfolio.positions,
    cash       <- portfolio.cash,
    Quantities <- { intent.quantity : intent \in Intents }

(* Whatever races and crashes do to the ledger, what the projector makes   *)
(* of it is a legal history of a long-only order book: duplicated, late    *)
(* and crossed evidence never moves a status, a position or the cash.      *)
ImplementsBook == Book!Spec

=============================================================================
