------------------------ MODULE PaperExecutionProofs ------------------------
(***************************************************************************)
(* Theorems about PaperExecution for every set of sessions, orders,        *)
(* proposals, prices, clock readings and fill assumptions: its types, that *)
(* risk evidence comes first in the ledger whatever sessions race or       *)
(* crash, and what is read back: the two replays never part silently, the  *)
(* projected portfolio implements the book of PaperOrderBook, and the      *)
(* audit timeline agrees with both.                                        *)
(***************************************************************************)
EXTENDS PaperAudit, SequenceTheorems, FiniteFolds, TLAPS

-----------------------------------------------------------------------------
(* Lemmas about the operators. *)

(* An event takes an order to a status or is out of sequence.              *)
LEMMA ApplyType ==
  ASSUME NEW current \in PaperOrderStatus, NEW type, NEW allowed \in BOOLEAN
  PROVE  Apply(current, type, allowed) \in PaperOrderStatus \cup {OutOfSequence}
  BY DEF Apply, PaperOrderStatus, OutOfSequence, Actionable, Terminal

(* One more event leaves a retained state a retained state.                *)
LEMMA RetainedStepType ==
  ASSUME NEW r \in RetainedState, NEW e \in PaperEvent
  PROVE  RetainedStep(r, e) \in RetainedState
<1>1. /\ r.status \in PaperOrderStatus /\ r.filled \in Nat
      /\ r.risk_seen \in BOOLEAN /\ r.valid \in BOOLEAN
  BY DEF RetainedState
<1>2. e.allowed \in BOOLEAN /\ e.cumulative \in Nat
  BY DEF PaperEvent
<1>3. CASE RetainedAccepts(r, e)
  <2>1. Apply(r.status, e.type, e.allowed) \in PaperOrderStatus
    BY <1>1, <1>2, <1>3, ApplyType DEF RetainedAccepts
  <2> QED
    BY <1>1, <1>2, <1>3, <2>1 DEF RetainedStep, RetainedState
<1>4. CASE ~RetainedAccepts(r, e)
  BY <1>1, <1>4 DEF RetainedStep, RetainedState
<1> QED BY <1>3, <1>4

(* What one more event does to a portfolio, field by field.                *)
LEMMA ProjectEventEffect ==
  ASSUME NEW p \in Portfolio, NEW e \in PaperEvent
  PROVE  /\ Projectable(p, e) =>
              /\ ProjectEvent(p, e).orders =
                   [p.orders EXCEPT ![e.order_id] = Projected(p.orders[e.order_id], e)]
              /\ ProjectEvent(p, e).positions =
                   [p.positions EXCEPT ![e.instrument_id] =
                      p.positions[e.instrument_id] + PositionMove(e)]
              /\ ProjectEvent(p, e).cash = p.cash - PositionMove(e) * e.price
              /\ ProjectEvent(p, e).unprojectable = p.unprojectable
         /\ ~Projectable(p, e) =>
              /\ ProjectEvent(p, e).orders =
                   [p.orders EXCEPT ![e.order_id] = Noted(p.orders[e.order_id], e)]
              /\ ProjectEvent(p, e).positions = p.positions
              /\ ProjectEvent(p, e).cash = p.cash
              /\ ProjectEvent(p, e).unprojectable = p.unprojectable \cup {e}
<1> DEFINE orders == [p.orders EXCEPT ![e.order_id] = Projected(p.orders[e.order_id], e)]
           positions == [p.positions EXCEPT ![e.instrument_id] =
                           p.positions[e.instrument_id] + PositionMove(e)]
           cash == p.cash - PositionMove(e) * e.price
           noted == [p.orders EXCEPT ![e.order_id] = Noted(p.orders[e.order_id], e)]
           listed == p.unprojectable \cup {e}
<1>1. DOMAIN p = {"orders", "positions", "cash", "unprojectable"}
  BY DEF Portfolio
<1>2. ASSUME Projectable(p, e)
      PROVE  ProjectEvent(p, e) =
               [p EXCEPT !.orders = orders, !.positions = positions, !.cash = cash]
  BY <1>2, Zenon DEF ProjectEvent
<1>3. ASSUME ~Projectable(p, e)
      PROVE  ProjectEvent(p, e) = [p EXCEPT !.orders = noted, !.unprojectable = listed]
  BY <1>3, Zenon DEF ProjectEvent
<1> HIDE DEF orders, positions, cash, noted, listed
<1>4. ASSUME Projectable(p, e)
      PROVE  /\ ProjectEvent(p, e).orders = orders
             /\ ProjectEvent(p, e).positions = positions
             /\ ProjectEvent(p, e).cash = cash
             /\ ProjectEvent(p, e).unprojectable = p.unprojectable
  BY <1>1, <1>2, <1>4
<1>5. ASSUME ~Projectable(p, e)
      PROVE  /\ ProjectEvent(p, e).orders = noted
             /\ ProjectEvent(p, e).positions = p.positions
             /\ ProjectEvent(p, e).cash = p.cash
             /\ ProjectEvent(p, e).unprojectable = listed
  BY <1>1, <1>3, <1>5
<1> QED
  BY <1>4, <1>5 DEF orders, positions, cash, noted, listed

(* One more event leaves a portfolio a portfolio.                          *)
LEMMA ProjectEventType ==
  ASSUME NEW p \in Portfolio, NEW e \in PaperEvent
  PROVE  ProjectEvent(p, e) \in Portfolio
<1> DEFINE o == p.orders[e.order_id]
<1>1. /\ p.orders \in [OrderIds -> ProjectedOrder]
      /\ p.positions \in [Instruments -> Int]
      /\ p.cash \in Int /\ p.unprojectable \subseteq PaperEvent
  BY DEF Portfolio
<1>2. /\ e.order_id \in OrderIds /\ e.instrument_id \in Instruments
      /\ e.side \in OrderSide \cup {NoSide} /\ e.quantity \in Nat
      /\ e.cumulative \in Nat /\ e.price \in Prices \cup {0}
      /\ e.allowed \in BOOLEAN
  BY DEF PaperEvent
<1>3. o \in ProjectedOrder
  BY <1>1, <1>2
<1>4. Noted(o, e) \in ProjectedOrder
  BY <1>2, <1>3 DEF Noted, ProjectedOrder
<1>5. CASE Projectable(p, e)
  <2>1. Apply(o.status, e.type, e.allowed) \in PaperOrderStatus
    BY <1>2, <1>3, <1>5, ApplyType DEF Projectable, ProjectedOrder
  <2>2. Projected(o, e) \in ProjectedOrder
    BY <1>2, <1>4, <2>1 DEF Projected, ProjectedOrder
  <2>3. PositionMove(e) \in Int /\ e.price \in Int
    <3>1. PositionMove(e) \in Int
      BY <1>2 DEF PositionMove
    <3>2. e.price \in Int
      <4>1. e.price \in Prices \cup {0}
        BY <1>2
      <4>2. \A x \in Prices : x \in Int
        BY PricesAssumption
      <4> QED
        BY <4>1, <4>2
    <3> QED
      BY <3>1, <3>2
  <2>4. PositionMove(e) * e.price \in Int
    BY <2>3
  <2>5. /\ [p.orders EXCEPT ![e.order_id] = Projected(o, e)]
             \in [OrderIds -> ProjectedOrder]
        /\ [p.positions EXCEPT ![e.instrument_id] = @ + PositionMove(e)]
             \in [Instruments -> Int]
        /\ p.cash - PositionMove(e) * e.price \in Int
    BY <1>1, <1>2, <2>2, <2>3, <2>4
  <2>6. ProjectEvent(p, e) =
          [ p EXCEPT
              !.orders = [p.orders EXCEPT ![e.order_id] = Projected(o, e)],
              !.positions =
                [p.positions EXCEPT ![e.instrument_id] = @ + PositionMove(e)],
              !.cash = p.cash - PositionMove(e) * e.price ]
    BY <1>5, Zenon DEF ProjectEvent
  <2> QED
    BY <1>1, <2>5, <2>6 DEF Portfolio
<1>6. CASE ~Projectable(p, e)
  <2>1. [p.orders EXCEPT ![e.order_id] = Noted(o, e)]
          \in [OrderIds -> ProjectedOrder]
    BY <1>1, <1>2, <1>4
  <2>2. p.unprojectable \cup {e} \subseteq PaperEvent
    BY <1>1
  <2>3. ProjectEvent(p, e) =
          [ p EXCEPT
              !.orders = [p.orders EXCEPT ![e.order_id] = Noted(o, e)],
              !.unprojectable = p.unprojectable \cup {e} ]
    BY <1>6, Zenon DEF ProjectEvent
  <2> QED
    BY <1>1, <2>1, <2>2, <2>3 DEF Portfolio
<1> QED BY <1>5, <1>6

(* What the event constructors build is an event.                          *)
LEMMA EventTypes ==
  ASSUME NEW type \in PaperEventType, NEW intent \in Intents, NEW at \in Stamps
  PROVE  /\ TermsEvent(type, intent, at) \in PaperEvent
         /\ BareEvent(type, intent, at) \in PaperEvent
  BY IntentsAssumption
  DEF TermsEvent, BareEvent, PaperEvent, OrderIntent, OrderSide, Reasons

(* A sequence of events, once appended to, is its old self and the event.  *)
LEMMA AppendEventEffect ==
  ASSUME TypeOK, NEW e \in PaperEvent, AppendEvent(e)
  PROVE  /\ ledger' \in Seq(PaperEvent)
         /\ Len(ledger') = Len(ledger) + 1
         /\ \A i \in 1..Len(ledger) : ledger'[i] = ledger[i]
         /\ ledger'[Len(ledger) + 1] = e
         /\ Len(ledger) \in Nat
         /\ retained' \in [OrderIds -> RetainedState]
         /\ portfolio' \in Portfolio
<1>1. /\ ledger \in Seq(PaperEvent) /\ ledger' = Append(ledger, e)
      /\ retained \in [OrderIds -> RetainedState] /\ portfolio \in Portfolio
  BY DEF TypeOK, AppendEvent
<1>2. e.order_id \in OrderIds
  BY DEF PaperEvent
<1>3. retained' \in [OrderIds -> RetainedState]
  <2>1. RetainedStep(retained[e.order_id], e) \in RetainedState
    BY <1>1, <1>2, RetainedStepType
  <2>2. retained' =
          [retained EXCEPT ![e.order_id] = RetainedStep(retained[e.order_id], e)]
    BY DEF AppendEvent
  <2> QED
    BY <1>1, <1>2, <2>1, <2>2
<1>4. portfolio' \in Portfolio
  BY <1>1, ProjectEventType DEF AppendEvent
<1> QED
  BY <1>1, <1>3, <1>4

(* What is retained stays retained, and so does the event just appended.   *)
LEMMA EvidenceIsKept ==
  ASSUME TypeOK, NEW e \in PaperEvent, AppendEvent(e)
  PROVE  /\ \A o, type : Retains(o, type) => Retains(o, type)'
         /\ Retains(e.order_id, e.type)'
<1>1. /\ Len(ledger') = Len(ledger) + 1 /\ Len(ledger) \in Nat
      /\ \A i \in 1..Len(ledger) : ledger'[i] = ledger[i]
      /\ ledger'[Len(ledger) + 1] = e
  BY AppendEventEffect
<1>2. ASSUME NEW o, NEW type, Retains(o, type)
      PROVE  Retains(o, type)'
  <2>1. PICK i \in 1..Len(ledger) :
          ledger[i].order_id = o /\ ledger[i].type = type
    BY <1>2 DEF Retains
  <2>2. i \in 1..Len(ledger') /\ ledger'[i] = ledger[i]
    BY <1>1, <2>1
  <2> QED
    BY <2>1, <2>2 DEF Retains
<1>3. Retains(e.order_id, e.type)'
  <2>1. Len(ledger) + 1 \in 1..Len(ledger')
    BY <1>1
  <2> QED
    BY <1>1, <2>1 DEF Retains
<1> QED BY <1>2, <1>3

-----------------------------------------------------------------------------
(* Types. *)

(* A session that moves to a stage of a call stays well typed.             *)
LEMMA GotoType ==
  ASSUME TypeOK, NEW s \in Sessions, NEW stage \in Stages \ {"idle"},
         NEW c \in Call, Goto(s, stage, c)
  PROVE  /\ pc' \in [Sessions -> Stages]
         /\ call' \in [Sessions -> Call \cup {NoCall}]
         /\ \A t \in Sessions : pc'[t] = "idle" <=> call'[t] = NoCall
<1>1. NoCall \notin Call
  BY NoCallAssumption DEF Call, PaperOrder
<1> QED
  BY <1>1 DEF TypeOK, Goto

(* A call that ends leaves the session's locals well typed.                *)
LEMMA EndType ==
  ASSUME TypeOK, NEW s \in Sessions, End(s)
  PROVE  /\ pc' \in [Sessions -> Stages]
         /\ call' \in [Sessions -> Call \cup {NoCall}]
         /\ \A t \in Sessions : pc'[t] = "idle" <=> call'[t] = NoCall
  BY DEF TypeOK, End, Goto, Stages

(* The locals of a call in flight are well typed, field by field.          *)
LEMMA CallTypes ==
  ASSUME TypeOK, NEW s \in Sessions, pc[s] # "idle"
  PROVE  /\ call[s] \in Call
         /\ call[s].order.intent \in Intents
         /\ call[s].order.status \in PaperOrderStatus
         /\ call[s].event \in PaperEvent
         /\ call[s].event.at \in Stamps
         /\ call[s].event.quantity \in Nat
         /\ call[s].event.price \in Prices \cup {0}
         /\ call[s].event.reason \in Reasons
         /\ call[s].returns \in PaperOrderStatus
<1>1. call[s] \in Call
  BY DEF TypeOK
<1>2. /\ call[s].order \in PaperOrder /\ call[s].event \in PaperEvent
      /\ call[s].returns \in PaperOrderStatus
  BY <1>1 DEF Call
<1> QED
  BY <1>1, <1>2 DEF PaperOrder, PaperEvent

(* The fill that continues an order is an event.                           *)
LEMMA FillEventType ==
  ASSUME TypeOK, NEW order \in PaperOrder, NEW quantity \in Nat,
         NEW price \in Prices \cup {0}, NEW reason \in Reasons, NEW at \in Stamps
  PROVE  /\ FillEvent(order, quantity, price, reason, at) \in PaperEvent
         /\ FillEvent(order, quantity, price, reason, at).type \in FillEvents
         /\ FillEvent(order, quantity, price, reason, at).order_id =
              order.intent.order_id
         /\ FillStatus(order, quantity) \in {"FILLED", "PARTIALLY_FILLED"}
<1>1. order.intent \in Intents /\ order.intent.order_id \in OrderIds
  BY IntentsAssumption DEF PaperOrder, OrderIntent
<1>2. Held(order).filled \in Nat
  BY <1>1 DEF TypeOK, Held, RetainedState
<1>3. PICK type \in FillEvents :
        FillEvent(order, quantity, price, reason, at) =
          [ TermsEvent(type, order.intent, at) EXCEPT
              !.quantity = quantity,
              !.cumulative = Held(order).filled + quantity,
              !.price = price, !.reason = reason ]
  BY DEF FillEvent, FillEvents
<1>4. TermsEvent(type, order.intent, at) \in PaperEvent
  BY <1>1, EventTypes DEF FillEvents, PaperEventType
<1>5. Held(order).filled + quantity \in Nat
  BY <1>2
<1> QED
  BY <1>1, <1>3, <1>4, <1>5 DEF PaperEvent, TermsEvent, FillStatus

(* The steps that append keep the types when what follows them does.       *)
LEMMA AppendKeepsTypes ==
  ASSUME TypeOK, NEW s \in Sessions, pc[s] # "idle",
         AppendEvent(call[s].event),
         \/ \E stage \in Stages \ {"idle"}, c \in Call :
              Goto(s, stage, c) /\ UNCHANGED issued
         \/ Return(s, call[s].order.intent, call[s].returns)
  PROVE  TypeOK'
<1>1. /\ call[s].event \in PaperEvent /\ call[s].order.intent \in Intents
      /\ call[s].returns \in PaperOrderStatus
  BY CallTypes
<1>2. /\ ledger' \in Seq(PaperEvent)
      /\ retained' \in [OrderIds -> RetainedState] /\ portfolio' \in Portfolio
  BY <1>1, AppendEventEffect
<1>3. /\ pc' \in [Sessions -> Stages]
      /\ call' \in [Sessions -> Call \cup {NoCall}]
      /\ \A t \in Sessions : pc'[t] = "idle" <=> call'[t] = NoCall
  BY GotoType, EndType DEF Return
<1>4. issued' \subseteq PaperOrder
  BY <1>1 DEF TypeOK, Return, PaperOrder
<1> QED
  BY <1>2, <1>3, <1>4 DEF TypeOK

(* Starting or ending a call touches nothing but the session.              *)
LEMMA GotoKeepsTypes ==
  ASSUME TypeOK, NEW s \in Sessions, UNCHANGED <<ledgerVars, issued>>,
         \/ \E stage \in Stages \ {"idle"}, c \in Call : Goto(s, stage, c)
         \/ End(s)
  PROVE  TypeOK'
<1>1. /\ pc' \in [Sessions -> Stages]
      /\ call' \in [Sessions -> Call \cup {NoCall}]
      /\ \A t \in Sessions : pc'[t] = "idle" <=> call'[t] = NoCall
  BY GotoType, EndType
<1> QED
  BY <1>1 DEF TypeOK, ledgerVars

(* So does a call that has decided what it will append.                    *)
LEMMA WillAppendKeepsTypes ==
  ASSUME TypeOK, NEW s \in Sessions, UNCHANGED <<ledgerVars, issued>>,
         NEW order \in PaperOrder, NEW event \in PaperEvent,
         NEW status \in PaperOrderStatus,
         WillAppend(s, order, event, status)
  PROVE  TypeOK'
<1>1. [order |-> order, event |-> event, returns |-> status] \in Call
  BY DEF Call
<1>2. \E stage \in Stages \ {"idle"}, c \in Call : Goto(s, stage, c)
  BY <1>1 DEF WillAppend, Stages
<1> QED
  BY <1>2, GotoKeepsTypes

(* Every step of the service keeps the type invariant.                     *)
LEMMA NextKeepsTypes == TypeOK /\ [Next]_vars => TypeOK'
<1> SUFFICES ASSUME TypeOK, [Next]_vars PROVE TypeOK'
  OBVIOUS
<1>0. ASSUME NEW order \in issued, NEW at \in Stamps
      PROVE  /\ order \in PaperOrder /\ order.intent \in Intents
             /\ order.status \in PaperOrderStatus
             /\ Held(order) \in RetainedState /\ Held(order).filled \in Nat
             /\ order.intent.quantity \in Nat
             /\ \A type \in PaperEventType :
                  /\ TermsEvent(type, order.intent, at) \in PaperEvent
                  /\ BareEvent(type, order.intent, at) \in PaperEvent
  <2>1. order \in PaperOrder
    BY DEF TypeOK
  <2>2. order.intent \in Intents /\ order.status \in PaperOrderStatus
    BY <2>1 DEF PaperOrder
  <2>3. order.intent.order_id \in OrderIds /\ order.intent.quantity \in Nat
    BY <2>2, IntentsAssumption DEF OrderIntent
  <2>4. Held(order) \in RetainedState
    BY <2>3 DEF TypeOK, Held
  <2>5. Held(order).filled \in Nat
    BY <2>4 DEF RetainedState
  <2> QED
    BY <2>1, <2>2, <2>3, <2>4, <2>5, EventTypes
<1>1. ASSUME NEW s \in Sessions, NEW intent \in Intents, NEW at \in Stamps,
             NEW allowed \in BOOLEAN, Submit(s, intent, at, allowed)
      PROVE  TypeOK'
  <2> DEFINE c == [ order |-> [intent |-> intent, status |-> "PENDING_RISK"],
                    event |-> TermsEvent("ORDER_PROPOSED", intent, at),
                    returns |-> IF allowed THEN "ACCEPTED" ELSE "REJECTED" ]
  <2>1. TermsEvent("ORDER_PROPOSED", intent, at) \in PaperEvent
    BY EventTypes DEF PaperEventType
  <2>2. c \in Call
    BY <2>1 DEF Call, PaperOrder, PaperOrderStatus
  <2>3. "propose" \in Stages \ {"idle"}
    BY DEF Stages
  <2> QED
    BY <1>1, <2>2, <2>3, GotoKeepsTypes DEF Submit
<1>2. ASSUME NEW s \in Sessions, NEW intent \in Intents,
             DuplicateSubmit(s, intent)
      PROVE  TypeOK'
  <2>1. issued' \subseteq PaperOrder
    BY <1>2 DEF DuplicateSubmit, Return, TypeOK, PaperOrder, PaperOrderStatus
  <2>2. /\ pc' \in [Sessions -> Stages]
        /\ call' \in [Sessions -> Call \cup {NoCall}]
        /\ \A t \in Sessions : pc'[t] = "idle" <=> call'[t] = NoCall
    BY <1>2, EndType DEF DuplicateSubmit, Return
  <2> QED
    BY <1>2, <2>1, <2>2 DEF DuplicateSubmit, TypeOK, ledgerVars
<1>3. ASSUME NEW s \in Sessions, Propose(s)
      PROVE  TypeOK'
  <2> DEFINE e == [ BareEvent("RISK_DECISION", call[s].order.intent,
                              call[s].event.at)
                      EXCEPT !.allowed = (call[s].returns = "ACCEPTED") ]
  <2>1. pc[s] # "idle"
    BY <1>3 DEF Propose
  <2>2. BareEvent("RISK_DECISION", call[s].order.intent, call[s].event.at)
          \in PaperEvent
    BY <2>1, CallTypes, EventTypes DEF PaperEventType
  <2>3. e \in PaperEvent
    BY <2>2 DEF PaperEvent
  <2>4. [call[s] EXCEPT !.event = e] \in Call
    BY <2>1, <2>3, CallTypes DEF Call
  <2>5. "decide" \in Stages \ {"idle"}
    BY DEF Stages
  <2>6. /\ AppendEvent(call[s].event) /\ UNCHANGED issued
        /\ Goto(s, "decide", [call[s] EXCEPT !.event = e])
    BY <1>3 DEF Propose
  <2> QED
    BY <2>1, <2>4, <2>5, <2>6, AppendKeepsTypes
<1>4. ASSUME NEW s \in Sessions, Decide(s)
      PROVE  TypeOK'
  <2>1. pc[s] # "idle"
    BY <1>4 DEF Decide
  <2>2. PICK type \in {"ORDER_ACCEPTED", "ORDER_REJECTED"} :
          Goto(s, "conclude",
               [ call[s] EXCEPT !.event =
                   TermsEvent(type, call[s].order.intent, call[s].event.at) ])
    BY <1>4 DEF Decide
  <2>3. TermsEvent(type, call[s].order.intent, call[s].event.at) \in PaperEvent
    BY <2>1, CallTypes, EventTypes DEF PaperEventType
  <2>4. [ call[s] EXCEPT !.event =
            TermsEvent(type, call[s].order.intent, call[s].event.at) ] \in Call
    BY <2>1, <2>3, CallTypes DEF Call
  <2>5. "conclude" \in Stages \ {"idle"}
    BY DEF Stages
  <2>6. AppendEvent(call[s].event) /\ UNCHANGED issued
    BY <1>4 DEF Decide
  <2> QED
    BY <2>1, <2>2, <2>4, <2>5, <2>6, AppendKeepsTypes
<1>5. ASSUME NEW s \in Sessions, Conclude(s) \/ Retain(s)
      PROVE  TypeOK'
  BY <1>5, AppendKeepsTypes DEF Conclude, Retain
<1>6. ASSUME NEW s \in Sessions, NEW order \in issued, NEW at \in Stamps,
             Work(s, order, at) \/ Cancel(s, order, at)
               \/ Reconcile(s, order, at)
      PROVE  TypeOK'
  <2>1. /\ TermsEvent("ORDER_WORKING", order.intent, at) \in PaperEvent
        /\ TermsEvent("ORDER_CANCELLED", order.intent, at) \in PaperEvent
        /\ BareEvent("RECONCILIATION_RECORDED", order.intent, at)
             \in PaperEvent
    BY <1>0 DEF PaperEventType
  <2>2. /\ [ TermsEvent("ORDER_CANCELLED", order.intent, at)
               EXCEPT !.cumulative = Held(order).filled ] \in PaperEvent
        /\ [ BareEvent("RECONCILIATION_RECORDED", order.intent, at)
               EXCEPT !.cumulative = Held(order).filled ] \in PaperEvent
    BY <1>0, <2>1 DEF PaperEvent
  <2>3. {"WORKING", "CANCELLED", "RECONCILED"} \subseteq PaperOrderStatus
    BY DEF PaperOrderStatus
  <2>4. UNCHANGED <<ledgerVars, issued>>
    BY <1>6 DEF Work, Cancel, Reconcile
  <2>5. \E event \in PaperEvent, status \in PaperOrderStatus :
          WillAppend(s, order, event, status)
    BY <1>6, <2>1, <2>2, <2>3 DEF Work, Cancel, Reconcile
  <2> QED
    BY <1>0, <2>4, <2>5, WillAppendKeepsTypes
<1>7. ASSUME NEW s \in Sessions, NEW order \in issued, NEW at \in Stamps,
             NEW quantity \in 1..order.intent.quantity, NEW price \in Prices,
             Fill(s, order, quantity, price, at)
      PROVE  TypeOK'
  <2>1. quantity \in Nat /\ NoSimulation \in Reasons
    BY <1>0 DEF Reasons
  <2>2. /\ FillEvent(order, quantity, price, NoSimulation, at) \in PaperEvent
        /\ FillStatus(order, quantity) \in PaperOrderStatus
    BY <1>0, <2>1, FillEventType DEF PaperOrderStatus
  <2> QED
    BY <1>0, <1>7, <2>2, WillAppendKeepsTypes DEF Fill
<1>8. ASSUME NEW s \in Sessions, NEW order \in issued, NEW at \in Stamps,
             NEW a \in Assumptions, SimulateNoFill(s, order, a, at)
      PROVE  TypeOK'
  <2>1. NoFillReason(a) \in Reasons
    BY DEF NoFillReason, Reasons, NoFillReasons
  <2>2. TermsEvent("ORDER_UNFILLED", order.intent, at) \in PaperEvent
    BY <1>0 DEF PaperEventType
  <2>3. [ TermsEvent("ORDER_UNFILLED", order.intent, at) EXCEPT
            !.cumulative = Held(order).filled, !.reason = NoFillReason(a) ]
          \in PaperEvent
    BY <1>0, <2>1, <2>2 DEF PaperEvent
  <2>4. Held(order).status \in PaperOrderStatus
    BY <1>0 DEF RetainedState
  <2> QED
    BY <1>0, <1>8, <2>3, <2>4, WillAppendKeepsTypes DEF SimulateNoFill
<1>9. ASSUME NEW s \in Sessions, NEW order \in issued, NEW at \in Stamps,
             NEW a \in Assumptions, SimulateLimitFill(s, order, a, at)
      PROVE  TypeOK'
  <2>1. a.available \in Nat /\ a.price \in Prices
    BY AssumptionsAssumption
  <2>2. Remaining(order) \in Nat
    BY <1>0, <1>9
    DEF SimulateLimitFill, RequireActionable, Readable, Remaining
  <2>3. PICK quantity \in Nat, reason \in {Complete, Capped} :
          Goto(s, "record",
               [ order |-> order,
                 event |-> FillEvent(order, quantity, a.price, reason, at),
                 returns |-> order.status ])
    BY <1>9, <2>1, <2>2 DEF SimulateLimitFill
  <2>4. reason \in Reasons
    BY DEF Reasons
  <2>5. FillEvent(order, quantity, a.price, reason, at) \in PaperEvent
    BY <1>0, <2>1, <2>4, FillEventType
  <2>6. [ order |-> order,
          event |-> FillEvent(order, quantity, a.price, reason, at),
          returns |-> order.status ] \in Call
    BY <1>0, <2>5 DEF Call
  <2>7. "record" \in Stages \ {"idle"}
    BY DEF Stages
  <2>8. UNCHANGED <<ledgerVars, issued>>
    BY <1>9 DEF SimulateLimitFill
  <2> QED
    BY <2>3, <2>6, <2>7, <2>8, GotoKeepsTypes
<1>10. ASSUME NEW s \in Sessions, RecordFill(s)
       PROVE  TypeOK'
  <2> DEFINE order == call[s].order
             draft == call[s].event
             event == FillEvent(order, draft.quantity, draft.price,
                                draft.reason, draft.at)
  <2>1. pc[s] # "idle" /\ UNCHANGED <<ledgerVars, issued>>
    BY <1>10 DEF RecordFill
  <2>2. /\ order \in PaperOrder /\ draft.quantity \in Nat
        /\ draft.price \in Prices \cup {0}
        /\ draft.reason \in Reasons /\ draft.at \in Stamps
    BY <2>1, CallTypes DEF Call
  <2>3. event \in PaperEvent
        /\ FillStatus(order, draft.quantity) \in PaperOrderStatus
    BY <2>2, FillEventType DEF PaperOrderStatus
  <2>4. WillAppend(s, order, event, FillStatus(order, draft.quantity)) \/ End(s)
    BY <1>10 DEF RecordFill
  <2> QED
    BY <2>1, <2>2, <2>3, <2>4, WillAppendKeepsTypes, GotoKeepsTypes
<1>11. ASSUME NEW s \in Sessions, RefusedAppend(s) \/ Crash(s)
       PROVE  TypeOK'
  BY <1>11, GotoKeepsTypes DEF RefusedAppend, Crash
<1>12. CASE UNCHANGED vars
  BY <1>12 DEF TypeOK, vars, ledgerVars
<1> QED
  BY <1>1, <1>2, <1>3, <1>4, <1>5, <1>6, <1>7, <1>8, <1>9, <1>10, <1>11,
     <1>12 DEF Next, Start, Continue

(* The empty ledger is well typed.                                         *)
LEMMA InitTypes == Init => TypeOK
<1>1. EmptyPortfolio \in Portfolio
  BY StartingCashAssumption
  DEF EmptyPortfolio, Portfolio, UnknownOrder, ProjectedOrder, NoSide,
      PaperOrderStatus
<1>2. NothingRetained \in RetainedState
  BY DEF NothingRetained, RetainedState, PaperOrderStatus
<1> QED
  BY <1>1, <1>2 DEF Init, TypeOK, Stages

(* Every variable keeps its type, whatever the parameters.                 *)
THEOREM TypeCorrect == Spec => []TypeOK
  BY InitTypes, NextKeepsTypes, PTL DEF Spec

-----------------------------------------------------------------------------
(* The order of evidence. *)

(* An order with any retained event has a retained proposal.               *)
ProposedFirst ==
  \A i \in 1..Len(ledger) : Retains(ledger[i].order_id, "ORDER_PROPOSED")

(* The inductive invariant: the order of the ledger holds because each     *)
(* call in flight and each PaperOrder handed out stands on evidence that   *)
(* is already retained, and retained evidence is never lost.               *)
EvidenceInv ==
  /\ TypeOK
  /\ ProposedFirst
  /\ RiskFirst
  /\ AcceptedFirst
  /\ IssuedOrdersAreEvidenced
  /\ CallsAreEvidenced

(* A decision that allowed an order stays retained.                        *)
LEMMA AllowedDecisionIsKept ==
  ASSUME TypeOK, NEW e \in PaperEvent, AppendEvent(e), NEW o
  PROVE  /\ AllowedDecision(o) => AllowedDecision(o)'
         /\ e.order_id = o /\ e.type = "RISK_DECISION" /\ e.allowed
              => AllowedDecision(o)'
<1>1. /\ Len(ledger') = Len(ledger) + 1 /\ Len(ledger) \in Nat
      /\ \A i \in 1..Len(ledger) : ledger'[i] = ledger[i]
      /\ ledger'[Len(ledger) + 1] = e
  BY AppendEventEffect
<1>2. /\ Len(ledger) + 1 \in 1..Len(ledger')
      /\ \A i \in 1..Len(ledger) : i \in 1..Len(ledger')
  BY <1>1
<1> QED
  BY <1>1, <1>2 DEF AllowedDecision

(* Appending an event whose predecessors are retained keeps the order.     *)
LEMMA AppendKeepsOrder ==
  ASSUME TypeOK, ProposedFirst, RiskFirst, AcceptedFirst,
         NEW e \in PaperEvent, AppendEvent(e),
         e.type = "ORDER_PROPOSED" \/ Retains(e.order_id, "ORDER_PROPOSED"),
         e.type = "ORDER_ACCEPTED" => AllowedDecision(e.order_id),
         e.type \in AcceptedEvidence => Retains(e.order_id, "ORDER_ACCEPTED")
  PROVE  ProposedFirst' /\ RiskFirst' /\ AcceptedFirst'
<1>1. /\ Len(ledger') = Len(ledger) + 1 /\ Len(ledger) \in Nat
      /\ \A i \in 1..Len(ledger) : ledger'[i] = ledger[i]
      /\ ledger'[Len(ledger) + 1] = e
  BY AppendEventEffect
<1>2. /\ \A o, type : Retains(o, type) => Retains(o, type)'
      /\ Retains(e.order_id, e.type)'
  BY EvidenceIsKept
<1>3. \A i \in 1..Len(ledger') :
        i \in 1..Len(ledger) \/ i = Len(ledger) + 1
  BY <1>1
<1>4. ProposedFirst'
  <2> SUFFICES ASSUME NEW i \in 1..Len(ledger')
               PROVE  Retains(ledger[i].order_id, "ORDER_PROPOSED")'
    BY DEF ProposedFirst
  <2>1. CASE i \in 1..Len(ledger)
    <3>1. Retains(ledger[i].order_id, "ORDER_PROPOSED")
      BY <2>1 DEF ProposedFirst
    <3>2. PICK j \in 1..Len(ledger) :
            /\ ledger[j].order_id = ledger[i].order_id
            /\ ledger[j].type = "ORDER_PROPOSED"
      BY <3>1 DEF Retains
    <3>3. /\ j \in 1..Len(ledger') /\ ledger'[j] = ledger[j]
          /\ ledger'[i] = ledger[i]
      BY <1>1, <2>1, <3>2
    <3> QED
      BY <3>2, <3>3 DEF Retains
  <2>2. CASE i = Len(ledger) + 1
    <3>1. \E j \in 1..Len(ledger') :
            /\ ledger'[j].order_id = e.order_id
            /\ ledger'[j].type = "ORDER_PROPOSED"
      <4>1. CASE e.type = "ORDER_PROPOSED"
        BY <1>1, <2>2, <4>1
      <4>2. CASE Retains(e.order_id, "ORDER_PROPOSED")
        <5>1. PICK j \in 1..Len(ledger) :
                /\ ledger[j].order_id = e.order_id
                /\ ledger[j].type = "ORDER_PROPOSED"
          BY <4>2 DEF Retains
        <5>2. j \in 1..Len(ledger') /\ ledger'[j] = ledger[j]
          BY <1>1, <5>1
        <5> QED
          BY <5>1, <5>2
      <4> QED
        BY <4>1, <4>2
    <3> QED
      BY <1>1, <2>2, <3>1 DEF Retains
  <2> QED
    BY <1>3, <2>1, <2>2
<1>5. RiskFirst'
  <2> SUFFICES ASSUME NEW i \in 1..Len(ledger'),
                      ledger'[i].type = "ORDER_ACCEPTED"
               PROVE  \E j \in 1..(i - 1) :
                        /\ ledger'[j].order_id = ledger'[i].order_id
                        /\ ledger'[j].type = "RISK_DECISION"
                        /\ ledger'[j].allowed
    BY DEF RiskFirst
  <2>1. PICK j \in 1..Len(ledger) :
          /\ j < i
          /\ ledger[j].order_id = ledger'[i].order_id
          /\ ledger[j].type = "RISK_DECISION"
          /\ ledger[j].allowed
    <3>1. CASE i \in 1..Len(ledger)
      <4>1. ledger'[i] = ledger[i] /\ ledger[i].type = "ORDER_ACCEPTED"
        BY <1>1, <3>1
      <4>2. PICK j \in 1..(i - 1) :
              /\ ledger[j].order_id = ledger[i].order_id
              /\ ledger[j].type = "RISK_DECISION"
              /\ ledger[j].allowed
        BY <3>1, <4>1 DEF RiskFirst
      <4>3. j \in 1..Len(ledger) /\ j < i
        BY <1>1, <3>1, <4>2
      <4> QED
        BY <4>1, <4>2, <4>3
    <3>2. CASE i = Len(ledger) + 1
      <4>1. ledger'[i] = e
        BY <1>1, <3>2
      <4>2. AllowedDecision(e.order_id)
        BY <4>1
      <4> QED
        BY <1>1, <3>2, <4>1, <4>2 DEF AllowedDecision
    <3> QED
      BY <1>3, <3>1, <3>2
  <2>2. j \in 1..(i - 1) /\ ledger'[j] = ledger[j]
    BY <1>1, <1>3, <2>1
  <2> QED
    BY <2>1, <2>2
<1>6. AcceptedFirst'
  <2> SUFFICES ASSUME NEW i \in 1..Len(ledger'),
                      ledger'[i].type \in AcceptedEvidence
               PROVE  \E j \in 1..(i - 1) :
                        /\ ledger'[j].order_id = ledger'[i].order_id
                        /\ ledger'[j].type = "ORDER_ACCEPTED"
    BY DEF AcceptedFirst
  <2>1. PICK j \in 1..Len(ledger) :
          /\ j < i
          /\ ledger[j].order_id = ledger'[i].order_id
          /\ ledger[j].type = "ORDER_ACCEPTED"
    <3>1. CASE i \in 1..Len(ledger)
      <4>1. ledger'[i] = ledger[i] /\ ledger[i].type \in AcceptedEvidence
        BY <1>1, <3>1
      <4>2. PICK j \in 1..(i - 1) :
              /\ ledger[j].order_id = ledger[i].order_id
              /\ ledger[j].type = "ORDER_ACCEPTED"
        BY <3>1, <4>1 DEF AcceptedFirst
      <4>3. j \in 1..Len(ledger) /\ j < i
        BY <1>1, <3>1, <4>2
      <4> QED
        BY <4>1, <4>2, <4>3
    <3>2. CASE i = Len(ledger) + 1
      <4>1. ledger'[i] = e
        BY <1>1, <3>2
      <4>2. Retains(e.order_id, "ORDER_ACCEPTED")
        BY <4>1
      <4> QED
        BY <1>1, <3>2, <4>1, <4>2 DEF Retains
    <3> QED
      BY <1>3, <3>1, <3>2
  <2>2. j \in 1..(i - 1) /\ ledger'[j] = ledger[j]
    BY <1>1, <1>3, <2>1
  <2> QED
    BY <2>1, <2>2
<1> QED BY <1>4, <1>5, <1>6

(* One step of one session: what it has to bring along for the invariant.  *)
LEMMA EvidenceStep ==
  ASSUME EvidenceInv, TypeOK', ProposedFirst', RiskFirst', AcceptedFirst',
         \A o, type : Retains(o, type) => Retains(o, type)',
         \A o : AllowedDecision(o) => AllowedDecision(o)',
         NEW s \in Sessions, NEW stage, NEW c, Goto(s, stage, c),
         stage # "idle" => CallEvidenced(stage, c)',
         \A order \in issued' \ issued :
           Retains(order.intent.order_id, StatusEvidence(order.status))'
  PROVE  EvidenceInv'
<1>1. IssuedOrdersAreEvidenced'
  <2> SUFFICES ASSUME NEW order \in issued'
               PROVE  Retains(order.intent.order_id,
                              StatusEvidence(order.status))'
    BY DEF IssuedOrdersAreEvidenced
  <2>1. CASE order \in issued
    <3> DEFINE o == order.intent.order_id
               type == StatusEvidence(order.status)
    <3>1. Retains(o, type)
      BY <2>1 DEF IssuedOrdersAreEvidenced, EvidenceInv
    <3> HIDE DEF o, type
    <3>2. Retains(o, type)'
      BY <3>1
    <3> QED
      BY <3>2 DEF o, type
  <2> QED BY <2>1
<1>2. CallsAreEvidenced'
  <2> SUFFICES ASSUME NEW t \in Sessions, pc'[t] # "idle"
               PROVE  CallEvidenced(pc[t], call[t])'
    BY DEF CallsAreEvidenced
  <2>1. CASE t = s
    <3>1. pc'[t] = stage /\ call'[t] = c
      BY <2>1 DEF Goto, EvidenceInv, TypeOK
    <3>2. CallEvidenced(stage, c)'
      BY <3>1
    <3> QED
      BY <3>1, <3>2 DEF CallEvidenced
  <2>2. CASE t # s
    <3>1. pc'[t] = pc[t] /\ call'[t] = call[t]
      BY <2>2 DEF Goto, EvidenceInv, TypeOK
    <3>2. CallEvidenced(pc[t], call[t])
      BY <3>1 DEF CallsAreEvidenced, EvidenceInv
    <3> QED
      BY <3>1, <3>2 DEF CallEvidenced
  <2> QED BY <2>1, <2>2
<1> QED BY <1>1, <1>2 DEF EvidenceInv

(* A step that leaves the ledger alone.                                    *)
LEMMA QuietStep ==
  ASSUME EvidenceInv, TypeOK', UNCHANGED ledger,
         NEW s \in Sessions, NEW stage, NEW c, Goto(s, stage, c),
         stage # "idle" => CallEvidenced(stage, c),
         \A order \in issued' \ issued :
           Retains(order.intent.order_id, StatusEvidence(order.status))
  PROVE  EvidenceInv'
<1>1. ProposedFirst' /\ RiskFirst' /\ AcceptedFirst'
  BY DEF EvidenceInv, ProposedFirst, RiskFirst, AcceptedFirst, Retains
<1>2. \A o, type : Retains(o, type) => Retains(o, type)'
  BY DEF Retains
<1>3. \A o : AllowedDecision(o) => AllowedDecision(o)'
  BY DEF AllowedDecision
<1>4. stage # "idle" => CallEvidenced(stage, c)'
  BY <1>2, <1>3 DEF CallEvidenced
<1>5. ASSUME NEW order \in issued' \ issued
      PROVE  Retains(order.intent.order_id, StatusEvidence(order.status))'
  <2> DEFINE o == order.intent.order_id
             type == StatusEvidence(order.status)
  <2>1. Retains(o, type)
    OBVIOUS
  <2> HIDE DEF o, type
  <2>2. Retains(o, type)'
    BY <1>2, <2>1
  <2> QED
    BY <2>2 DEF o, type
<1> QED
  BY <1>1, <1>2, <1>3, <1>4, <1>5, EvidenceStep

(* A step that appends an event whose predecessors are retained.           *)
LEMMA AppendStep ==
  ASSUME EvidenceInv, TypeOK', NEW e \in PaperEvent, AppendEvent(e),
         e.type = "ORDER_PROPOSED" \/ Retains(e.order_id, "ORDER_PROPOSED"),
         e.type = "ORDER_ACCEPTED" => AllowedDecision(e.order_id),
         e.type \in AcceptedEvidence => Retains(e.order_id, "ORDER_ACCEPTED"),
         NEW s \in Sessions, NEW stage, NEW c, Goto(s, stage, c),
         stage # "idle" => CallEvidenced(stage, c)',
         \A order \in issued' \ issued :
           Retains(order.intent.order_id, StatusEvidence(order.status))'
  PROVE  EvidenceInv'
<1>0. TypeOK /\ ProposedFirst /\ RiskFirst /\ AcceptedFirst
  BY DEF EvidenceInv
<1>1. ProposedFirst' /\ RiskFirst' /\ AcceptedFirst'
  BY <1>0, AppendKeepsOrder
<1>2. \A o, type : Retains(o, type) => Retains(o, type)'
  BY <1>0, EvidenceIsKept
<1>3. \A o : AllowedDecision(o) => AllowedDecision(o)'
  BY <1>0, AllowedDecisionIsKept
<1> QED
  BY <1>1, <1>2, <1>3, EvidenceStep

(* A PaperOrder in hand was proposed, and accepted if it is actionable.    *)
LEMMA HeldOrderIsEvidenced ==
  ASSUME EvidenceInv, NEW order \in issued
  PROVE  /\ Retains(order.intent.order_id, StatusEvidence(order.status))
         /\ Retains(order.intent.order_id, "ORDER_PROPOSED")
         /\ order.status \in Actionable
              => Retains(order.intent.order_id, "ORDER_ACCEPTED")
<1> DEFINE o == order.intent.order_id
           type == StatusEvidence(order.status)
<1>1. Retains(o, type)
  BY DEF EvidenceInv, IssuedOrdersAreEvidenced
<1>2. PICK i \in 1..Len(ledger) : ledger[i].order_id = o /\ ledger[i].type = type
  BY <1>1 DEF Retains
<1>3. Retains(o, "ORDER_PROPOSED")
  <2>1. Retains(ledger[i].order_id, "ORDER_PROPOSED")
    BY DEF EvidenceInv, ProposedFirst
  <2> QED
    BY <1>2, <2>1
<1>4. ASSUME order.status \in Actionable
      PROVE  Retains(o, "ORDER_ACCEPTED")
  <2>1. type \in {"ORDER_ACCEPTED", "ORDER_WORKING", "ORDER_PARTIALLY_FILLED"}
    BY <1>4 DEF Actionable, StatusEvidence
  <2>2. CASE type = "ORDER_ACCEPTED"
    BY <1>1, <2>2
  <2>3. CASE type # "ORDER_ACCEPTED"
    <3>1. \E j \in 1..(i - 1) :
            /\ ledger[j].order_id = ledger[i].order_id
            /\ ledger[j].type = "ORDER_ACCEPTED"
      BY <1>2, <2>1, <2>3 DEF EvidenceInv, AcceptedFirst, AcceptedEvidence
    <3>2. Len(ledger) \in Nat
      BY LenProperties DEF EvidenceInv, TypeOK
    <3> QED
      BY <1>2, <3>1, <3>2 DEF Retains
  <2> QED BY <2>2, <2>3
<1> QED BY <1>1, <1>3, <1>4

(* A session that goes on to append evidence about an order it holds.      *)
LEMMA WillAppendStep ==
  ASSUME EvidenceInv, TypeOK', UNCHANGED <<ledgerVars, issued>>,
         NEW s \in Sessions, NEW order \in issued, NEW event, NEW status,
         event.order_id = order.intent.order_id,
         WillAppend(s, order, event, status),
         \/ event.type = "RECONCILIATION_RECORDED" /\ status = "RECONCILED"
         \/ /\ event.type \in AcceptedEvidence
            /\ order.status \in Actionable
            /\ StatusEvidence(status) = event.type \/ status = order.status
  PROVE  EvidenceInv'
<1> DEFINE c == [order |-> order, event |-> event, returns |-> status]
<1>1. CallEvidenced("append", c)
  BY HeldOrderIsEvidenced DEF CallEvidenced
<1>2. Goto(s, "append", c) /\ UNCHANGED <<ledger, issued>>
  BY DEF WillAppend, ledgerVars
<1> HIDE DEF c
<1> QED
  BY <1>1, <1>2, QuietStep

(* Every step of the specification keeps the order of evidence.            *)
LEMMA NextKeepsEvidence == EvidenceInv /\ [Next]_vars => EvidenceInv'
<1> SUFFICES ASSUME EvidenceInv, [Next]_vars
             PROVE  EvidenceInv'
  OBVIOUS
<1>t. TypeOK /\ TypeOK'
  BY NextKeepsTypes DEF EvidenceInv
<1>o. ASSUME NEW order \in issued
      PROVE  order.intent \in Intents /\ order.status \in PaperOrderStatus
  BY <1>t DEF TypeOK, PaperOrder
<1>c. ASSUME NEW s \in Sessions, pc[s] # "idle"
      PROVE  /\ call[s].event \in PaperEvent
             /\ CallEvidenced(pc[s], call[s])
  BY <1>t, <1>c, CallTypes DEF EvidenceInv, CallsAreEvidenced
<1>1. ASSUME NEW s \in Sessions, NEW intent \in Intents, NEW at \in Stamps,
             NEW allowed \in BOOLEAN, Submit(s, intent, at, allowed)
      PROVE  EvidenceInv'
  <2> DEFINE c == [ order |-> [intent |-> intent, status |-> "PENDING_RISK"],
                    event |-> TermsEvent("ORDER_PROPOSED", intent, at),
                    returns |-> IF allowed THEN "ACCEPTED" ELSE "REJECTED" ]
  <2>1. CallEvidenced("propose", c)
    BY DEF CallEvidenced, TermsEvent
  <2>2. Goto(s, "propose", c) /\ UNCHANGED <<ledger, issued>>
    BY <1>1 DEF Submit, ledgerVars
  <2> HIDE DEF c
  <2> QED
    BY <1>t, <2>1, <2>2, QuietStep
<1>2. ASSUME NEW s \in Sessions, NEW intent \in Intents,
             DuplicateSubmit(s, intent)
      PROVE  EvidenceInv'
  <2>1. Retains(intent.order_id, "ORDER_PROPOSED")
    BY <1>2 DEF DuplicateSubmit, SeenOrderIds, EvidenceInv, ProposedFirst
  <2>2. /\ UNCHANGED ledger /\ Goto(s, "idle", NoCall)
        /\ issued' = issued \cup {[intent |-> intent, status |-> "REJECTED"]}
    BY <1>2 DEF DuplicateSubmit, Return, End, ledgerVars
  <2>3. StatusEvidence("REJECTED") = "ORDER_PROPOSED"
    BY DEF StatusEvidence
  <2>4. ASSUME NEW order \in issued' \ issued
        PROVE  Retains(order.intent.order_id, StatusEvidence(order.status))
    BY <2>1, <2>2, <2>3, <2>4
  <2> QED
    BY <1>t, <2>2, <2>4, QuietStep
<1>3. ASSUME NEW s \in Sessions, Propose(s)
      PROVE  EvidenceInv'
  <2>1. PICK e, n :
          /\ e = call[s].event
          /\ n = [ call[s] EXCEPT !.event =
                     [ BareEvent("RISK_DECISION", call[s].order.intent, e.at)
                         EXCEPT !.allowed = (call[s].returns = "ACCEPTED") ] ]
    OBVIOUS
  <2>2. /\ pc[s] = "propose" /\ AppendEvent(e) /\ Goto(s, "decide", n)
        /\ UNCHANGED issued
    BY <1>3, <2>1, Zenon DEF Propose
  <2>3. /\ call[s] \in Call /\ e \in PaperEvent
        /\ CallEvidenced("propose", call[s])
    BY <1>t, <1>c, <2>1, <2>2, CallTypes
  <2>4. /\ e.type = "ORDER_PROPOSED"
        /\ e.order_id = n.order.intent.order_id
        /\ n.returns \in {"ACCEPTED", "REJECTED"}
        /\ n.event.order_id = n.order.intent.order_id
        /\ n.event.type = "RISK_DECISION"
        /\ n.event.allowed = (n.returns = "ACCEPTED")
    BY <2>1, <2>3 DEF CallEvidenced, Call, BareEvent, TermsEvent
  <2>5. Retains(e.order_id, e.type)'
    BY <1>t, <2>2, <2>3, EvidenceIsKept
  <2>6. CallEvidenced("decide", n)'
    BY <2>4, <2>5 DEF CallEvidenced
  <2> QED
    BY <1>t, <2>2, <2>3, <2>4, <2>6, AppendStep DEF AcceptedEvidence
<1>4. ASSUME NEW s \in Sessions, Decide(s)
      PROVE  EvidenceInv'
  <2>1. PICK e, n :
          /\ e = call[s].event
          /\ n = [ call[s] EXCEPT !.event =
                     TermsEvent(IF e.allowed THEN "ORDER_ACCEPTED"
                                             ELSE "ORDER_REJECTED",
                                call[s].order.intent, e.at) ]
    OBVIOUS
  <2>2. /\ pc[s] = "decide" /\ AppendEvent(e) /\ Goto(s, "conclude", n)
        /\ UNCHANGED issued
    BY <1>4, <2>1, Zenon DEF Decide
  <2>3. /\ call[s] \in Call /\ e \in PaperEvent
        /\ CallEvidenced("decide", call[s])
    BY <1>t, <1>c, <2>1, <2>2, CallTypes
  <2>4. /\ e.type = "RISK_DECISION"
        /\ e.order_id = n.order.intent.order_id
        /\ n.event.order_id = n.order.intent.order_id
        /\ \/ /\ e.allowed /\ n.returns = "ACCEPTED"
              /\ n.event.type = "ORDER_ACCEPTED"
           \/ n.returns = "REJECTED" /\ n.event.type = "ORDER_REJECTED"
        /\ Retains(e.order_id, "ORDER_PROPOSED")
    BY <2>1, <2>3 DEF CallEvidenced, Call, TermsEvent
  <2>5. /\ Retains(e.order_id, "ORDER_PROPOSED")'
        /\ e.allowed => AllowedDecision(e.order_id)'
    BY <1>t, <2>2, <2>3, <2>4, EvidenceIsKept, AllowedDecisionIsKept
  <2>6. CallEvidenced("conclude", n)'
    BY <2>4, <2>5 DEF CallEvidenced
  <2> QED
    BY <1>t, <2>2, <2>3, <2>4, <2>6, AppendStep DEF AcceptedEvidence
<1>5. ASSUME NEW s \in Sessions, Conclude(s)
      PROVE  EvidenceInv'
  <2>1. PICK e, o, status :
          /\ e = call[s].event
          /\ o = [intent |-> call[s].order.intent, status |-> call[s].returns]
          /\ status = call[s].returns
    OBVIOUS
  <2>2. /\ pc[s] = "conclude" /\ AppendEvent(e) /\ Goto(s, "idle", NoCall)
        /\ issued' = issued \cup {o}
    BY <1>5, <2>1 DEF Conclude, Return, End
  <2>3. e \in PaperEvent /\ CallEvidenced("conclude", call[s])
    BY <1>t, <1>c, <2>1, <2>2, CallTypes
  <2>4. /\ e.order_id = o.intent.order_id
        /\ Retains(e.order_id, "ORDER_PROPOSED")
        /\ \/ /\ e.type = "ORDER_ACCEPTED" /\ o.status = "ACCEPTED"
              /\ AllowedDecision(e.order_id)
           \/ e.type = "ORDER_REJECTED" /\ o.status = "REJECTED"
    BY <2>1, <2>3 DEF CallEvidenced
  <2>5. Retains(e.order_id, "ORDER_PROPOSED")' /\ Retains(e.order_id, e.type)'
    BY <1>t, <2>2, <2>3, <2>4, EvidenceIsKept
  <2>6. Retains(o.intent.order_id, StatusEvidence(o.status))'
    BY <2>4, <2>5 DEF StatusEvidence
  <2>7. ASSUME NEW order \in issued' \ issued
        PROVE  Retains(order.intent.order_id, StatusEvidence(order.status))'
    BY <2>2, <2>6, <2>7
  <2> QED
    BY <1>t, <2>2, <2>3, <2>4, <2>7, AppendStep DEF AcceptedEvidence
<1>6. ASSUME NEW s \in Sessions, NEW order \in issued, NEW at \in Stamps,
             Work(s, order, at)
      PROVE  EvidenceInv'
  <2> DEFINE event == TermsEvent("ORDER_WORKING", order.intent, at)
  <2>1. /\ event.order_id = order.intent.order_id
        /\ event.type = "ORDER_WORKING"
    BY DEF TermsEvent
  <2>2. /\ WillAppend(s, order, event, "WORKING")
        /\ UNCHANGED <<ledgerVars, issued>>
        /\ order.status \in Actionable
    BY <1>6 DEF Work, RequireActionable
  <2> HIDE DEF event
  <2> QED
    BY <1>t, <2>1, <2>2, WillAppendStep DEF AcceptedEvidence, StatusEvidence
<1>7. ASSUME NEW s \in Sessions, NEW order \in issued, NEW at \in Stamps,
             Cancel(s, order, at)
      PROVE  EvidenceInv'
  <2> DEFINE event == [ TermsEvent("ORDER_CANCELLED", order.intent, at)
                          EXCEPT !.cumulative = Held(order).filled ]
  <2>1. /\ event.order_id = order.intent.order_id
        /\ event.type = "ORDER_CANCELLED"
    BY DEF TermsEvent
  <2>2. /\ WillAppend(s, order, event, "CANCELLED")
        /\ UNCHANGED <<ledgerVars, issued>>
        /\ order.status \in Actionable
    BY <1>7 DEF Cancel, RequireActionable
  <2> HIDE DEF event
  <2> QED
    BY <1>t, <2>1, <2>2, WillAppendStep DEF AcceptedEvidence, StatusEvidence
<1>8. ASSUME NEW s \in Sessions, NEW order \in issued, NEW at \in Stamps,
             Reconcile(s, order, at)
      PROVE  EvidenceInv'
  <2> DEFINE event == [ BareEvent("RECONCILIATION_RECORDED", order.intent, at)
                          EXCEPT !.cumulative = Held(order).filled ]
  <2>1. /\ event.order_id = order.intent.order_id
        /\ event.type = "RECONCILIATION_RECORDED"
    BY DEF BareEvent, TermsEvent
  <2>2. /\ WillAppend(s, order, event, "RECONCILED")
        /\ UNCHANGED <<ledgerVars, issued>>
    BY <1>8 DEF Reconcile
  <2> HIDE DEF event
  <2> QED
    BY <1>t, <2>1, <2>2, WillAppendStep
<1>9. ASSUME NEW s \in Sessions, NEW order \in issued, NEW at \in Stamps,
             NEW quantity \in 1..order.intent.quantity, NEW price \in Prices,
             Fill(s, order, quantity, price, at)
      PROVE  EvidenceInv'
  <2> DEFINE event == FillEvent(order, quantity, price, NoSimulation, at)
             status == FillStatus(order, quantity)
  <2>1. /\ event.order_id = order.intent.order_id
        /\ event.type \in AcceptedEvidence
        /\ StatusEvidence(status) = event.type
    BY DEF FillEvent, TermsEvent, FillStatus, AcceptedEvidence, StatusEvidence
  <2>2. /\ WillAppend(s, order, event, status)
        /\ UNCHANGED <<ledgerVars, issued>>
        /\ order.status \in Actionable
    BY <1>9 DEF Fill, RequireActionable
  <2> HIDE DEF event, status
  <2> QED
    BY <1>t, <2>1, <2>2, WillAppendStep
<1>10. ASSUME NEW s \in Sessions, NEW order \in issued, NEW at \in Stamps,
              NEW a \in Assumptions, SimulateNoFill(s, order, a, at)
       PROVE  EvidenceInv'
  <2> DEFINE event == [ TermsEvent("ORDER_UNFILLED", order.intent, at) EXCEPT
                          !.cumulative = Held(order).filled,
                          !.reason = NoFillReason(a) ]
             status == Held(order).status
  <2>1. /\ event.order_id = order.intent.order_id
        /\ event.type = "ORDER_UNFILLED"
    BY DEF TermsEvent
  <2>2. /\ WillAppend(s, order, event, status)
        /\ UNCHANGED <<ledgerVars, issued>>
        /\ order.status \in Actionable /\ status = order.status
    BY <1>10 DEF SimulateNoFill, RequireActionable
  <2> HIDE DEF event, status
  <2> QED
    BY <1>t, <2>1, <2>2, WillAppendStep DEF AcceptedEvidence
<1>11. ASSUME NEW s \in Sessions, NEW order \in issued, NEW at \in Stamps,
              NEW a \in Assumptions, SimulateLimitFill(s, order, a, at)
       PROVE  EvidenceInv'
  <2>1. PICK quantity, reason :
          /\ Goto(s, "record",
                  [ order |-> order,
                    event |-> FillEvent(order, quantity, a.price, reason, at),
                    returns |-> order.status ])
          /\ UNCHANGED <<ledger, issued>> /\ order.status \in Actionable
    BY <1>11, Zenon DEF SimulateLimitFill, RequireActionable, ledgerVars
  <2> DEFINE c == [ order |-> order,
                    event |-> FillEvent(order, quantity, a.price, reason, at),
                    returns |-> order.status ]
  <2>2. c.event.order_id = order.intent.order_id /\ c.order = order
    BY DEF FillEvent, TermsEvent
  <2> HIDE DEF c
  <2>3. CallEvidenced("record", c)
    BY <2>1, <2>2, HeldOrderIsEvidenced DEF CallEvidenced
  <2>4. Goto(s, "record", c)
    BY <2>1 DEF c
  <2> QED
    BY <1>t, <2>1, <2>3, <2>4, QuietStep
<1>12. ASSUME NEW s \in Sessions, RecordFill(s)
       PROVE  EvidenceInv'
  <2>1. PICK order, draft : order = call[s].order /\ draft = call[s].event
    OBVIOUS
  <2> DEFINE event == FillEvent(order, draft.quantity, draft.price,
                                draft.reason, draft.at)
             status == FillStatus(order, draft.quantity)
             c == [order |-> order, event |-> event, returns |-> status]
  <2>2. /\ pc[s] = "record" /\ UNCHANGED <<ledger, issued>>
        /\ Goto(s, "append", c) \/ Goto(s, "idle", NoCall)
    BY <1>12, <2>1, Zenon DEF RecordFill, WillAppend, End, ledgerVars
  <2>3. /\ Retains(order.intent.order_id, "ORDER_PROPOSED")
        /\ Retains(order.intent.order_id, "ORDER_ACCEPTED")
    BY <1>c, <2>1, <2>2 DEF CallEvidenced
  <2>4. /\ event.order_id = order.intent.order_id
        /\ event.type \in AcceptedEvidence
        /\ StatusEvidence(status) = event.type
    BY DEF FillEvent, TermsEvent, FillStatus, AcceptedEvidence, StatusEvidence
  <2> HIDE DEF event, status
  <2>5. CallEvidenced("append", c)
    BY <2>3, <2>4 DEF CallEvidenced
  <2> HIDE DEF c
  <2> QED
    BY <1>t, <2>2, <2>5, QuietStep
<1>13. ASSUME NEW s \in Sessions, Retain(s)
       PROVE  EvidenceInv'
  <2>1. PICK e, o :
          /\ e = call[s].event
          /\ o = [intent |-> call[s].order.intent, status |-> call[s].returns]
    OBVIOUS
  <2>2. /\ pc[s] = "append" /\ AppendEvent(e) /\ Goto(s, "idle", NoCall)
        /\ issued' = issued \cup {o}
    BY <1>13, <2>1 DEF Retain, Return, End
  <2>3. e \in PaperEvent /\ CallEvidenced("append", call[s])
    BY <1>t, <1>c, <2>1, <2>2, CallTypes
  <2>4. /\ e.order_id = o.intent.order_id
        /\ Retains(e.order_id, "ORDER_PROPOSED")
        /\ \/ e.type = "RECONCILIATION_RECORDED" /\ o.status = "RECONCILED"
           \/ /\ e.type \in AcceptedEvidence
              /\ Retains(e.order_id, "ORDER_ACCEPTED")
              /\ \/ StatusEvidence(o.status) = e.type
                 \/ Retains(e.order_id, StatusEvidence(o.status))
    BY <2>1, <2>3 DEF CallEvidenced
  <2>5. /\ \A type : Retains(e.order_id, type) => Retains(e.order_id, type)'
        /\ Retains(e.order_id, e.type)'
    BY <1>t, <2>2, <2>3, EvidenceIsKept
  <2>6. Retains(o.intent.order_id, StatusEvidence(o.status))'
    <3>1. CASE e.type = StatusEvidence(o.status)
      BY <2>4, <2>5, <3>1
    <3>2. CASE e.type # StatusEvidence(o.status)
      <4>1. Retains(e.order_id, StatusEvidence(o.status))
        BY <2>4, <3>2 DEF StatusEvidence
      <4> QED
        BY <2>4, <2>5, <4>1
    <3> QED BY <3>1, <3>2
  <2>7. ASSUME NEW order \in issued' \ issued
        PROVE  Retains(order.intent.order_id, StatusEvidence(order.status))'
    BY <2>2, <2>6, <2>7
  <2> QED
    BY <1>t, <2>2, <2>3, <2>4, <2>7, AppendStep DEF AcceptedEvidence
<1>14. ASSUME NEW s \in Sessions, RefusedAppend(s) \/ Crash(s)
       PROVE  EvidenceInv'
  <2>1. Goto(s, "idle", NoCall) /\ UNCHANGED <<ledger, issued>>
    BY <1>14 DEF RefusedAppend, Crash, End, ledgerVars
  <2> QED
    BY <1>t, <2>1, QuietStep
<1>15. CASE UNCHANGED vars
  <2>1. UNCHANGED ledger /\ UNCHANGED <<issued, pc, call>>
    BY <1>15 DEF vars, ledgerVars
  <2>2. ProposedFirst' /\ RiskFirst' /\ AcceptedFirst'
    BY <2>1 DEF EvidenceInv, ProposedFirst, RiskFirst, AcceptedFirst, Retains
  <2>3. IssuedOrdersAreEvidenced'
    BY <2>1 DEF EvidenceInv, IssuedOrdersAreEvidenced, Retains
  <2>4. CallsAreEvidenced'
    BY <2>1 DEF EvidenceInv, CallsAreEvidenced, CallEvidenced, Retains,
                AllowedDecision
  <2> QED
    BY <1>t, <2>2, <2>3, <2>4 DEF EvidenceInv
<1> QED
  BY <1>1, <1>2, <1>3, <1>4, <1>5, <1>6, <1>7, <1>8, <1>9, <1>10, <1>11,
     <1>12, <1>13, <1>14, <1>15 DEF Next, Start, Continue

LEMMA InitEvidence == Init => EvidenceInv
<1>1. Init => TypeOK
  BY InitTypes
<1>2. ASSUME Init
      PROVE  /\ ProposedFirst /\ RiskFirst /\ AcceptedFirst
             /\ IssuedOrdersAreEvidenced /\ CallsAreEvidenced
  <2>1. Len(ledger) = 0 /\ 1..0 = {}
    BY <1>2 DEF Init
  <2> QED
    BY <1>2, <2>1
    DEF Init, ProposedFirst, RiskFirst, AcceptedFirst,
        IssuedOrdersAreEvidenced, CallsAreEvidenced
<1> QED
  BY <1>1, <1>2 DEF EvidenceInv

(* The inductive invariant holds in every state of every behaviour.        *)
LEMMA EvidenceCorrect == Spec => []EvidenceInv
  BY InitEvidence, NextKeepsEvidence, PTL DEF Spec

(* Risk first, for any number of racing and crashing sessions.             *)
THEOREM RiskComesFirst == Spec => []RiskFirst
<1>1. EvidenceInv => RiskFirst
  BY DEF EvidenceInv
<1> QED BY <1>1, EvidenceCorrect, PTL

(* Working, fill, no-fill and cancellation evidence follows acceptance.    *)
THEOREM AcceptanceComesFirst == Spec => []AcceptedFirst
<1>1. EvidenceInv => AcceptedFirst
  BY DEF EvidenceInv
<1> QED BY <1>1, EvidenceCorrect, PTL

(* A PaperOrder the service hands out is backed by the ledger.             *)
THEOREM IssuedOrdersAreBacked == Spec => []IssuedOrdersAreEvidenced
<1>1. EvidenceInv => IssuedOrdersAreEvidenced
  BY DEF EvidenceInv
<1> QED BY <1>1, EvidenceCorrect, PTL

(* Every call in flight stands on retained evidence.                       *)
THEOREM CallsAreBacked == Spec => []CallsAreEvidenced
<1>1. EvidenceInv => CallsAreEvidenced
  BY DEF EvidenceInv
<1> QED BY <1>1, EvidenceCorrect, PTL

-----------------------------------------------------------------------------
(* What a step does to the ledger. *)

(* A submission about to be proposed carries the terms of its intent.      *)
ProposalsCarryTerms ==
  \A s \in Sessions : pc[s] = "propose" =>
    /\ call[s].order.intent \in Intents
    /\ call[s].event = TermsEvent("ORDER_PROPOSED", call[s].order.intent,
                                  call[s].event.at)

(* An event that may come next: a proposal of an intent, or evidence about *)
(* an order whose proposal is retained.                                    *)
MayComeNext(e) ==
  IF e.type = "ORDER_PROPOSED"
  THEN \E intent \in Intents : e = TermsEvent("ORDER_PROPOSED", intent, e.at)
  ELSE Retains(e.order_id, "ORDER_PROPOSED")

(* Whatever a session does, the ledger stays as it is or gets one event.   *)
LEMMA OneEventAtMost ==
  ASSUME EvidenceInv, ProposalsCarryTerms, [Next]_vars
  PROVE  \/ UNCHANGED ledgerVars
         \/ \E e \in PaperEvent : AppendEvent(e) /\ MayComeNext(e)
<1>1. ASSUME NEW s \in Sessions, pc[s] # "idle"
      PROVE  call[s].event \in PaperEvent /\ CallEvidenced(pc[s], call[s])
  BY <1>1, CallTypes DEF EvidenceInv, CallsAreEvidenced
<1>2. ASSUME NEW s \in Sessions, Continue(s)
      PROVE  \/ UNCHANGED ledgerVars
             \/ \E e \in PaperEvent : AppendEvent(e) /\ MayComeNext(e)
  <2>1. CASE Propose(s)
    <3>1. pc[s] = "propose" /\ AppendEvent(call[s].event)
      BY <2>1 DEF Propose
    <3>2. call[s].event.type = "ORDER_PROPOSED"
      BY <1>1, <3>1 DEF CallEvidenced
    <3>3. MayComeNext(call[s].event)
      BY <3>1, <3>2 DEF MayComeNext, ProposalsCarryTerms
    <3> QED
      BY <1>1, <3>1, <3>3
  <2>2. CASE Decide(s) \/ Conclude(s) \/ Retain(s)
    <3>1. /\ pc[s] \in {"decide", "conclude", "append"}
          /\ AppendEvent(call[s].event)
      BY <2>2 DEF Decide, Conclude, Retain
    <3>2. /\ call[s].event.type # "ORDER_PROPOSED"
          /\ Retains(call[s].event.order_id, "ORDER_PROPOSED")
      BY <1>1, <3>1 DEF CallEvidenced, AcceptedEvidence
    <3>3. MayComeNext(call[s].event)
      BY <3>2 DEF MayComeNext
    <3> QED
      BY <1>1, <3>1, <3>3
  <2>3. CASE RecordFill(s) \/ RefusedAppend(s)
    BY <2>3 DEF RecordFill, RefusedAppend
  <2> QED
    BY <1>2, <2>1, <2>2, <2>3 DEF Continue
<1>3. ASSUME NEW s \in Sessions, Start(s)
      PROVE  UNCHANGED ledgerVars
  BY <1>3 DEF Start, Submit, DuplicateSubmit, Work, Cancel, Reconcile, Fill,
              SimulateNoFill, SimulateLimitFill
<1>4. ASSUME NEW s \in Sessions, Crash(s)
      PROVE  UNCHANGED ledgerVars
  BY <1>4 DEF Crash
<1> QED
  BY <1>2, <1>3, <1>4 DEF Next, vars, ledgerVars

LEMMA NextKeepsProposals ==
  ASSUME EvidenceInv, ProposalsCarryTerms, [Next]_vars
  PROVE  ProposalsCarryTerms'
<1> USE DEF ProposalsCarryTerms
<1>1. /\ pc \in [Sessions -> Stages]
      /\ call \in [Sessions -> Call \cup {NoCall}]
  BY DEF EvidenceInv, TypeOK
<1>2. ASSUME NEW s \in Sessions, NEW intent \in Intents, NEW at \in Stamps,
             NEW allowed \in BOOLEAN, Submit(s, intent, at, allowed)
      PROVE  ProposalsCarryTerms'
  BY <1>1, <1>2 DEF Submit, Goto, TermsEvent
<1>3. ASSUME NEW s \in Sessions, NEW stage, NEW c, stage # "propose",
             Goto(s, stage, c)
      PROVE  ProposalsCarryTerms'
  BY <1>1, <1>3 DEF Goto
<1>4. ASSUME NEW s \in Sessions, NEW intent \in Intents, DuplicateSubmit(s, intent)
      PROVE  ProposalsCarryTerms'
  BY <1>3, <1>4 DEF DuplicateSubmit, Return, End
<1>5. ASSUME NEW s \in Sessions, NEW order \in issued, NEW at \in Stamps,
             \/ Work(s, order, at) \/ Cancel(s, order, at) \/ Reconcile(s, order, at)
             \/ \E quantity \in 1..order.intent.quantity, price \in Prices :
                  Fill(s, order, quantity, price, at)
             \/ \E a \in Assumptions : \/ SimulateNoFill(s, order, a, at)
                                       \/ SimulateLimitFill(s, order, a, at)
      PROVE  ProposalsCarryTerms'
  <2>1. \E stage \in {"append", "record"}, c \in {call'[s]} : Goto(s, stage, c)
    BY <1>1, <1>5 DEF Work, Cancel, Reconcile, Fill, SimulateNoFill,
       SimulateLimitFill, WillAppend, Goto
  <2> QED
    BY <1>3, <2>1
<1>6. ASSUME NEW s \in Sessions, Continue(s) \/ Crash(s)
      PROVE  ProposalsCarryTerms'
  <2>1. \E stage \in Stages \ {"propose"}, c \in {call'[s]} : Goto(s, stage, c)
    BY <1>1, <1>6 DEF Continue, Propose, Decide, Conclude, RecordFill, Retain,
       RefusedAppend, Crash, Return, End, WillAppend, Goto, Stages
  <2> QED
    BY <1>3, <2>1
<1>7. CASE UNCHANGED vars
  BY <1>7 DEF vars
<1> QED
  BY <1>2, <1>4, <1>5, <1>6, <1>7 DEF Next, Start

-----------------------------------------------------------------------------
(* The two replays. *)

(* Unless it lists one of its events as unprojectable, the projector is    *)
(* with every order where the service is: also on whether a risk decision  *)
(* was seen, which decides what a rejection will be taken for.             *)
ReplaysAgree ==
  \A o \in OrderIds :
    \/ Len(ledger) > ReadLimit
    \/ \E e \in portfolio.unprojectable : e.order_id = o
    \/ /\ retained[o].valid
       /\ retained[o].status = portfolio.orders[o].status
       /\ retained[o].filled = portfolio.orders[o].filled
       /\ retained[o].risk_seen = portfolio.orders[o].risk_seen

(* What the projector takes, the service can read too, and both conclude   *)
(* the same from it.                                                       *)
LEMMA ProjectableIsReadable ==
  ASSUME NEW p \in Portfolio, NEW r \in RetainedState, NEW e \in PaperEvent,
         r.valid, r.status = p.orders[e.order_id].status,
         r.filled = p.orders[e.order_id].filled,
         r.risk_seen = p.orders[e.order_id].risk_seen,
         Projectable(p, e)
  PROVE  /\ RetainedStep(r, e).valid
         /\ RetainedStep(r, e).status = Projected(p.orders[e.order_id], e).status
         /\ RetainedStep(r, e).filled = Projected(p.orders[e.order_id], e).filled
         /\ RetainedStep(r, e).risk_seen = Projected(p.orders[e.order_id], e).risk_seen
<1> DEFINE o == p.orders[e.order_id]
<1>1. o \in ProjectedOrder
  BY DEF Portfolio, PaperEvent
<1>2. RetainedAccepts(r, e)
  BY DEF Projectable, RetainedAccepts, FillFits
<1>3. /\ RetainedStep(r, e).valid
      /\ RetainedStep(r, e).status = Apply(r.status, e.type, e.allowed)
      /\ RetainedStep(r, e).filled = IF e.type \in FillEvents THEN e.cumulative
                                                              ELSE r.filled
      /\ RetainedStep(r, e).risk_seen = (r.risk_seen \/ e.type = "RISK_DECISION")
  BY <1>2 DEF RetainedStep, RetainedState
<1>4. SameInstrument(o, e)
  BY DEF Projectable
<1>5. /\ Noted(o, e).filled = o.filled
      /\ Noted(o, e).risk_seen = (o.risk_seen \/ e.type = "RISK_DECISION")
      /\ DOMAIN Noted(o, e) = {"instrument_id", "side", "quantity", "status",
                               "filled", "risk_seen"}
  BY <1>1, <1>4 DEF Noted, ProjectedOrder
<1>6. /\ Projected(o, e).status = Apply(o.status, e.type, e.allowed)
      /\ Projected(o, e).filled = IF e.type \in FillEvents THEN e.cumulative
                                                           ELSE o.filled
      /\ Projected(o, e).risk_seen = (o.risk_seen \/ e.type = "RISK_DECISION")
  BY <1>5 DEF Projected
<1> QED
  BY <1>3, <1>6

(* The order an event is about moves; every other order stays.             *)
LEMMA AppendKeepsAgreement ==
  ASSUME TypeOK, ReplaysAgree, NEW e \in PaperEvent, AppendEvent(e)
  PROVE  ReplaysAgree'
<1>1. /\ Len(ledger') = Len(ledger) + 1 /\ Len(ledger) \in Nat
      /\ ReadLimit \in Nat
  BY AppendEventEffect, ReadLimitAssumption
<1>2. /\ portfolio \in Portfolio
      /\ portfolio.orders \in [OrderIds -> ProjectedOrder]
      /\ retained \in [OrderIds -> RetainedState]
      /\ e.order_id \in OrderIds
  BY DEF TypeOK, Portfolio, PaperEvent
<1>3. retained' = [retained EXCEPT ![e.order_id] =
                     RetainedStep(retained[e.order_id], e)]
  BY DEF AppendEvent
<1>4. CASE Len(ledger) >= ReadLimit
  BY <1>1, <1>4 DEF ReplaysAgree
<1>5. CASE Len(ledger) < ReadLimit /\ ~Projectable(portfolio, e)
  <2>1. portfolio' = ProjectEvent(portfolio, e)
    BY <1>5 DEF AppendEvent
  <2>2. /\ portfolio'.orders = [portfolio.orders EXCEPT ![e.order_id] =
                                  Noted(portfolio.orders[e.order_id], e)]
        /\ portfolio'.unprojectable = portfolio.unprojectable \cup {e}
    BY <1>2, <1>5, <2>1, ProjectEventEffect
  <2>3. ASSUME NEW o \in OrderIds, o # e.order_id
        PROVE  portfolio'.orders[o] = portfolio.orders[o] /\ retained'[o] = retained[o]
    BY <1>2, <1>3, <2>2, <2>3
  <2>4. ~(Len(ledger) > ReadLimit)
    BY <1>1, <1>5
  <2> QED
    BY <2>2, <2>3, <2>4 DEF ReplaysAgree
<1>6. CASE Len(ledger) < ReadLimit /\ Projectable(portfolio, e)
  <2>1. portfolio' = ProjectEvent(portfolio, e)
    BY <1>6 DEF AppendEvent
  <2>2. /\ portfolio'.orders = [portfolio.orders EXCEPT ![e.order_id] =
                                  Projected(portfolio.orders[e.order_id], e)]
        /\ portfolio'.unprojectable = portfolio.unprojectable
    BY <1>2, <1>6, <2>1, ProjectEventEffect
  <2>3. ASSUME NEW o \in OrderIds, o # e.order_id
        PROVE  portfolio'.orders[o] = portfolio.orders[o] /\ retained'[o] = retained[o]
    BY <1>2, <1>3, <2>2, <2>3
  <2>4. ~(Len(ledger) > ReadLimit)
    BY <1>1, <1>6
  <2>5. /\ portfolio'.orders[e.order_id] = Projected(portfolio.orders[e.order_id], e)
        /\ retained'[e.order_id] = RetainedStep(retained[e.order_id], e)
        /\ retained[e.order_id] \in RetainedState
    BY <1>2, <1>3, <2>2
  <2>6. ASSUME retained[e.order_id].valid,
               retained[e.order_id].status = portfolio.orders[e.order_id].status,
               retained[e.order_id].filled = portfolio.orders[e.order_id].filled,
               retained[e.order_id].risk_seen = portfolio.orders[e.order_id].risk_seen
        PROVE  /\ retained'[e.order_id].valid
               /\ retained'[e.order_id].status = portfolio'.orders[e.order_id].status
               /\ retained'[e.order_id].filled = portfolio'.orders[e.order_id].filled
               /\ retained'[e.order_id].risk_seen
                    = portfolio'.orders[e.order_id].risk_seen
    BY <1>2, <1>6, <2>5, <2>6, ProjectableIsReadable
  <2> QED
    BY <2>2, <2>3, <2>4, <2>6 DEF ReplaysAgree
<1> QED
  BY <1>1, <1>4, <1>5, <1>6

(* The service and the projector never part silently.                      *)
THEOREM ReplaysPartOpenly == Spec => []DivergenceIsFlagged
<1> DEFINE Inv == EvidenceInv /\ ProposalsCarryTerms /\ ReplaysAgree
<1>1. Init => Inv
  <2>1. Init => EvidenceInv /\ ProposalsCarryTerms
    <3>1. Init => ProposalsCarryTerms
      BY DEF Init, ProposalsCarryTerms
    <3> QED
      BY <3>1, InitEvidence
  <2>2. Init => ReplaysAgree
    <3> SUFFICES ASSUME Init, NEW o \in OrderIds
                 PROVE  /\ retained[o].valid
                        /\ retained[o].status = portfolio.orders[o].status
                        /\ retained[o].filled = portfolio.orders[o].filled
                        /\ retained[o].risk_seen = portfolio.orders[o].risk_seen
      BY DEF ReplaysAgree
    <3>1. retained[o] = NothingRetained /\ portfolio.orders[o] = UnknownOrder
      BY DEF Init, EmptyPortfolio
    <3> QED
      BY <3>1 DEF NothingRetained, UnknownOrder
  <2> QED
    BY <2>1, <2>2
<1>2. Inv /\ [Next]_vars => Inv'
  <2> SUFFICES ASSUME EvidenceInv, ProposalsCarryTerms, ReplaysAgree, [Next]_vars
               PROVE  EvidenceInv' /\ ProposalsCarryTerms' /\ ReplaysAgree'
    OBVIOUS
  <2>1. EvidenceInv' /\ ProposalsCarryTerms'
    BY NextKeepsEvidence, NextKeepsProposals
  <2>2. CASE UNCHANGED ledgerVars
    <3>1. ledger' = ledger /\ retained' = retained /\ portfolio' = portfolio
      BY <2>2 DEF ledgerVars
    <3> QED
      BY <2>1, <3>1 DEF ReplaysAgree
  <2>3. ASSUME NEW e \in PaperEvent, AppendEvent(e)
        PROVE  ReplaysAgree'
    BY <2>3, AppendKeepsAgreement DEF EvidenceInv
  <2> QED
    BY <2>1, <2>2, <2>3, OneEventAtMost
<1>3. Inv => DivergenceIsFlagged
  BY DEF ReplaysAgree, DivergenceIsFlagged
<1> QED
  BY <1>1, <1>2, <1>3, PTL DEF Spec

-----------------------------------------------------------------------------
(* The projected portfolio is an order book. *)

(* The projector knows the terms of an order.                              *)
HasTerms(o) ==
  o.instrument_id \in Instruments /\ o.side \in OrderSide /\ o.quantity > 0

(* No position is short, and an order is either known to the projector or  *)
(* untouched; while the replay reaches the end of the ledger, it knows     *)
(* every order that was proposed.                                          *)
BookInv ==
  /\ \A i \in Instruments : portfolio.positions[i] >= 0
  /\ \A o \in OrderIds :
       \/ HasTerms(portfolio.orders[o])
       \/ /\ portfolio.orders[o] = UnknownOrder
          /\ Len(ledger) > ReadLimit \/ ~Retains(o, "ORDER_PROPOSED")

(* Noting an event leaves a known order in the book as it is.              *)
LEMMA NotedStaysBooked ==
  ASSUME NEW o \in ProjectedOrder, HasTerms(o), NEW e \in PaperEvent
  PROVE  /\ BookedOrder(Noted(o, e)) = BookedOrder(o)
         /\ HasTerms(Noted(o, e))
<1>1. /\ Noted(o, e).instrument_id = o.instrument_id /\ Noted(o, e).side = o.side
      /\ Noted(o, e).quantity = o.quantity /\ Noted(o, e).status = o.status
      /\ Noted(o, e).filled = o.filled
  BY NoInstrumentAssumption DEF Noted, SameInstrument, HasTerms, ProjectedOrder
<1> QED
  BY <1>1 DEF BookedOrder, HasTerms

(* An event the projector takes moves the status and the filled quantity   *)
(* of a known order and leaves its terms alone.                            *)
LEMMA ProjectedKeepsTerms ==
  ASSUME NEW p \in Portfolio, NEW e \in PaperEvent,
         HasTerms(p.orders[e.order_id]), Projectable(p, e)
  PROVE  LET o == p.orders[e.order_id]
             n == Projected(o, e)
         IN  /\ n.instrument_id = o.instrument_id
             /\ n.side = o.side /\ n.quantity = o.quantity
             /\ n.status = Apply(o.status, e.type, e.allowed)
             /\ n.filled = IF e.type \in FillEvents THEN e.cumulative ELSE o.filled
             /\ e.instrument_id = o.instrument_id
             /\ HasTerms(n)
<1> DEFINE o == p.orders[e.order_id]
<1>1. o \in ProjectedOrder
  BY DEF Portfolio, PaperEvent
<1>2. e.instrument_id = o.instrument_id
  BY NoInstrumentAssumption DEF Projectable, SameInstrument, HasTerms
<1>3. SetsTerms(e) => e.side = o.side /\ e.quantity = o.quantity
  <2>1. SetsTerms(e) => CarriesTerms(e)
    BY DEF SetsTerms, CarriesTerms, FillEvents
  <2>2. o.side # NoSide /\ o.quantity # 0
    BY DEF HasTerms, OrderSide, NoSide
  <2> QED
    BY <2>1, <2>2 DEF Projectable, TermsMatch
<1>4. /\ DOMAIN Noted(o, e) = {"instrument_id", "side", "quantity", "status",
                               "filled", "risk_seen"}
      /\ Noted(o, e).instrument_id = o.instrument_id /\ Noted(o, e).side = o.side
      /\ Noted(o, e).quantity = o.quantity /\ Noted(o, e).filled = o.filled
  BY <1>1, <1>2 DEF Noted, ProjectedOrder, SameInstrument
<1>5. /\ Projected(o, e).instrument_id = o.instrument_id
      /\ Projected(o, e).side = o.side /\ Projected(o, e).quantity = o.quantity
      /\ Projected(o, e).status = Apply(o.status, e.type, e.allowed)
      /\ Projected(o, e).filled = IF e.type \in FillEvents THEN e.cumulative
                                                           ELSE o.filled
  BY <1>3, <1>4 DEF Projected
<1> QED
  BY <1>2, <1>5 DEF HasTerms

(* The event that may come next about an order the projector has not met   *)
(* is its proposal, and the projector takes it.                            *)
LEMMA FirstEventIsProposal ==
  ASSUME NEW p \in Portfolio, NEW e \in PaperEvent,
         p.orders[e.order_id] = UnknownOrder,
         e.type = "ORDER_PROPOSED", MayComeNext(e)
  PROVE  /\ Projectable(p, e)
         /\ \E intent \in Intents : e.quantity = intent.quantity
         /\ e.side \in OrderSide /\ e.quantity > 0
         /\ BookedOrder(Projected(UnknownOrder, e)) =
              [ BookedOrder(UnknownOrder) EXCEPT
                  !.instrument_id = e.instrument_id, !.side = e.side,
                  !.quantity = e.quantity ]
         /\ HasTerms(Projected(UnknownOrder, e))
<1>1. PICK intent \in Intents : e = TermsEvent("ORDER_PROPOSED", intent, e.at)
  BY DEF MayComeNext
<1>2. /\ intent \in OrderIntent
      /\ e.side = intent.side /\ e.quantity = intent.quantity
      /\ e.instrument_id = intent.instrument_id
  BY <1>1, IntentsAssumption DEF TermsEvent
<1>3. /\ e.side \in OrderSide /\ e.quantity \in Nat /\ e.quantity > 0
      /\ e.instrument_id \in Instruments /\ e.side # NoSide
  BY <1>2 DEF OrderIntent, OrderSide, NoSide
<1>4. Apply("PENDING_RISK", e.type, e.allowed) = "PENDING_RISK"
  BY DEF Apply
<1>5. Projectable(p, e)
  BY <1>3, <1>4
  DEF Projectable, UnknownOrder, SameInstrument, TermsMatch, FillEvents,
      OutOfSequence
<1>6. Noted(UnknownOrder, e) =
        [ instrument_id |-> e.instrument_id, side |-> NoSide, quantity |-> 0,
          status |-> "PENDING_RISK", filled |-> 0, risk_seen |-> FALSE ]
  BY DEF Noted, UnknownOrder, SameInstrument
<1>7. /\ Projected(UnknownOrder, e).instrument_id = e.instrument_id
      /\ Projected(UnknownOrder, e).side = e.side
      /\ Projected(UnknownOrder, e).quantity = e.quantity
      /\ Projected(UnknownOrder, e).status = "PENDING_RISK"
      /\ Projected(UnknownOrder, e).filled = 0
  BY <1>4, <1>6 DEF Projected, SetsTerms, FillEvents, UnknownOrder
<1>8. BookedOrder(Projected(UnknownOrder, e)) =
        [ BookedOrder(UnknownOrder) EXCEPT
            !.instrument_id = e.instrument_id, !.side = e.side,
            !.quantity = e.quantity ]
  <2>1. BookedOrder(UnknownOrder) =
          [ instrument_id |-> NoInstrument, side |-> NoSide, quantity |-> 0,
            status |-> "PENDING_RISK", filled |-> 0 ]
    BY DEF BookedOrder, UnknownOrder
  <2>2. BookedOrder(Projected(UnknownOrder, e)) =
          [ instrument_id |-> e.instrument_id, side |-> e.side,
            quantity |-> e.quantity, status |-> "PENDING_RISK", filled |-> 0 ]
    BY <1>7 DEF BookedOrder
  <2> DEFINE Record(i, side, quantity) ==
               [ instrument_id |-> i, side |-> side, quantity |-> quantity,
                 status |-> "PENDING_RISK", filled |-> 0 ]
  <2>3. /\ [ Record(NoInstrument, NoSide, 0) EXCEPT
               !.instrument_id = e.instrument_id ]
             = Record(e.instrument_id, NoSide, 0)
        /\ [ Record(e.instrument_id, NoSide, 0) EXCEPT !.side = e.side ]
             = Record(e.instrument_id, e.side, 0)
        /\ [ Record(e.instrument_id, e.side, 0) EXCEPT !.quantity = e.quantity ]
             = Record(e.instrument_id, e.side, e.quantity)
    OBVIOUS
  <2> QED
    BY <2>1, <2>2, <2>3
<1> QED
  BY <1>2, <1>3, <1>5, <1>7, <1>8 DEF HasTerms

(* One appended event is one step of the book, or none.                    *)
LEMMA AppendIsBookStep ==
  ASSUME TypeOK, BookInv, NEW e \in PaperEvent, AppendEvent(e), MayComeNext(e)
  PROVE  /\ [Book!Next]_(Book!bookVars)
         /\ BookInv'
<1> DEFINE k == e.order_id
           o == portfolio.orders[k]
           n == Projected(o, e)
<1>1. /\ portfolio \in Portfolio
      /\ portfolio.orders \in [OrderIds -> ProjectedOrder]
      /\ portfolio.positions \in [Instruments -> Int]
      /\ portfolio.cash \in Int
      /\ k \in OrderIds /\ e.instrument_id \in Instruments
      /\ o \in ProjectedOrder
  BY DEF TypeOK, Portfolio, PaperEvent
<1>2. /\ Len(ledger') = Len(ledger) + 1 /\ Len(ledger) \in Nat
      /\ ReadLimit \in Nat
  BY AppendEventEffect, ReadLimitAssumption
<1>3. \A x \in OrderIds :
        x # k /\ Retains(x, "ORDER_PROPOSED")' => Retains(x, "ORDER_PROPOSED")
  <2> SUFFICES ASSUME NEW x \in OrderIds, x # k, Retains(x, "ORDER_PROPOSED")'
               PROVE  Retains(x, "ORDER_PROPOSED")
    OBVIOUS
  <2>1. PICK i \in 1..Len(ledger') :
          ledger'[i].order_id = x /\ ledger'[i].type = "ORDER_PROPOSED"
    BY DEF Retains
  <2>2. i \in 1..Len(ledger)
    BY <1>2, <2>1, AppendEventEffect
  <2> QED
    BY <2>1, <2>2, AppendEventEffect DEF Retains
<1>4. CASE Len(ledger) >= ReadLimit
  <2>1. portfolio' = portfolio
    BY <1>2, <1>4 DEF AppendEvent
  <2>2. UNCHANGED Book!bookVars
    BY <2>1 DEF Book!bookVars, BookedOrders
  <2>3. BookInv'
    BY <1>2, <1>4, <2>1 DEF BookInv
  <2> QED
    BY <2>2, <2>3
<1>5. CASE Len(ledger) < ReadLimit /\ ~Projectable(portfolio, e)
  <2>1. portfolio' = ProjectEvent(portfolio, e)
    BY <1>5 DEF AppendEvent
  <2>2. /\ portfolio'.orders = [portfolio.orders EXCEPT ![k] = Noted(o, e)]
        /\ portfolio'.positions = portfolio.positions
        /\ portfolio'.cash = portfolio.cash
    BY <1>1, <1>5, <2>1, ProjectEventEffect
  <2>3. HasTerms(o)
    <3>1. SUFFICES ASSUME o = UnknownOrder, ~Retains(k, "ORDER_PROPOSED")
                   PROVE  FALSE
      BY <1>1, <1>2, <1>5 DEF BookInv
    <3>2. e.type = "ORDER_PROPOSED"
      BY <3>1 DEF MayComeNext
    <3> QED
      BY <1>1, <1>5, <3>1, <3>2, FirstEventIsProposal
  <2>4. BookedOrder(Noted(o, e)) = BookedOrder(o) /\ HasTerms(Noted(o, e))
    BY <1>1, <2>3, NotedStaysBooked
  <2>5. BookedOrders' = BookedOrders
    <3>1. \A x \in OrderIds :
            BookedOrder(portfolio'.orders[x]) = BookedOrder(portfolio.orders[x])
      BY <1>1, <2>2, <2>4
    <3>2. BookedOrders' = [x \in OrderIds |-> BookedOrder(portfolio'.orders[x])]
      BY DEF BookedOrders, BookedOrder
    <3> QED
      BY <3>1, <3>2 DEF BookedOrders
  <2>6. UNCHANGED Book!bookVars
    BY <2>2, <2>5 DEF Book!bookVars
  <2>7. BookInv'
    <3>1. \A x \in OrderIds :
            portfolio'.orders[x] = IF x = k THEN Noted(o, e) ELSE portfolio.orders[x]
      BY <1>1, <2>2
    <3>2. \A x \in OrderIds :
            \/ HasTerms(portfolio'.orders[x])
            \/ /\ portfolio'.orders[x] = UnknownOrder
               /\ Len(ledger') > ReadLimit \/ ~Retains(x, "ORDER_PROPOSED")'
      BY <1>2, <1>3, <1>5, <2>4, <3>1 DEF BookInv
    <3> QED
      BY <2>2, <3>2 DEF BookInv, HasTerms
  <2> QED
    BY <2>6, <2>7
<1>6. CASE Len(ledger) < ReadLimit /\ Projectable(portfolio, e)
  <2>1. /\ portfolio'.orders = [portfolio.orders EXCEPT ![k] = n]
        /\ portfolio'.positions = [portfolio.positions EXCEPT ![e.instrument_id] =
                                     portfolio.positions[e.instrument_id]
                                       + PositionMove(e)]
        /\ portfolio'.cash = portfolio.cash - PositionMove(e) * e.price
    <3>1. portfolio' = ProjectEvent(portfolio, e)
      BY <1>6 DEF AppendEvent
    <3> QED
      BY <1>1, <1>6, <3>1, ProjectEventEffect
  <2>2. /\ BookedOrders' = [BookedOrders EXCEPT ![k] = BookedOrder(n)]
        /\ BookedOrders[k] = BookedOrder(o)
    <3>1. \A x \in OrderIds :
            portfolio'.orders[x] = IF x = k THEN n ELSE portfolio.orders[x]
      BY <1>1, <2>1
    <3>2. BookedOrders' = [x \in OrderIds |-> BookedOrder(portfolio'.orders[x])]
      BY DEF BookedOrders, BookedOrder
    <3> QED
      BY <1>1, <3>1, <3>2 DEF BookedOrders
  <2>3. ASSUME HasTerms(n),
               \A i \in Instruments : portfolio'.positions[i] >= 0
        PROVE  BookInv'
    <3>1. \A x \in OrderIds :
            portfolio'.orders[x] = IF x = k THEN n ELSE portfolio.orders[x]
      BY <1>1, <2>1
    <3>2. \A x \in OrderIds :
            \/ HasTerms(portfolio'.orders[x])
            \/ /\ portfolio'.orders[x] = UnknownOrder
               /\ Len(ledger') > ReadLimit \/ ~Retains(x, "ORDER_PROPOSED")'
      BY <1>2, <1>3, <1>6, <2>3, <3>1 DEF BookInv
    <3> QED
      BY <2>3, <3>2 DEF BookInv, HasTerms
  <2>4. ASSUME e.type \notin FillEvents
        PROVE  /\ portfolio'.positions = portfolio.positions
               /\ portfolio'.cash = portfolio.cash
               /\ \A i \in Instruments : portfolio'.positions[i] >= 0
    <3>1. PositionMove(e) = 0
      BY <2>4 DEF PositionMove
    <3>2. e.price \in Int
      <4>1. e.price \in Prices \cup {0}
        BY DEF PaperEvent
      <4>2. \A x \in Prices : x \in Int
        BY PricesAssumption
      <4> QED
        BY <4>1, <4>2
    <3>3. portfolio.positions[e.instrument_id] + 0
            = portfolio.positions[e.instrument_id]
          /\ portfolio.cash - 0 * e.price = portfolio.cash
      BY <1>1, <3>2
    <3> QED
      BY <1>1, <2>1, <3>1, <3>3 DEF BookInv
  <2>5. CASE o = UnknownOrder /\ ~Retains(k, "ORDER_PROPOSED")
    <3>1. e.type = "ORDER_PROPOSED"
      BY <2>5 DEF MayComeNext
    <3>2. /\ \E intent \in Intents : e.quantity = intent.quantity
          /\ e.side \in {"BUY", "SELL"}
          /\ BookedOrder(n) =
               [ BookedOrder(o) EXCEPT
                   !.instrument_id = e.instrument_id, !.side = e.side,
                   !.quantity = e.quantity ]
          /\ HasTerms(n)
      BY <1>1, <2>5, <3>1, FirstEventIsProposal DEF OrderSide
    <3>3. e.type \notin FillEvents
      BY <3>1 DEF FillEvents
    <3>4. BookedOrders[k] = Book!Unproposed
      BY <2>2, <2>5 DEF BookedOrder, UnknownOrder, Book!Unproposed, NoSide
    <3>5. Book!Propose(k, e.instrument_id, e.side, e.quantity)
      BY <2>2, <2>4, <3>2, <3>3, <3>4 DEF Book!Propose
    <3>6. Book!Next
      BY <1>1, <3>2, <3>5 DEF Book!Next
    <3> QED
      BY <2>3, <2>4, <3>2, <3>3, <3>6
  <2>6. CASE HasTerms(o)
    <3>1. /\ n.instrument_id = o.instrument_id
          /\ n.side = o.side /\ n.quantity = o.quantity
          /\ n.status = Apply(o.status, e.type, e.allowed)
          /\ n.filled = IF e.type \in FillEvents THEN e.cumulative ELSE o.filled
          /\ e.instrument_id = o.instrument_id
          /\ HasTerms(n)
      BY <1>1, <1>6, <2>6, ProjectedKeepsTerms
    <3>2. /\ BookedOrders[k].quantity = o.quantity /\ o.quantity > 0
          /\ BookedOrders[k].status = o.status
          /\ BookedOrders[k].instrument_id = o.instrument_id
          /\ BookedOrders[k].side = o.side
          /\ BookedOrders[k].filled = o.filled
      BY <2>2, <2>6 DEF BookedOrder, HasTerms
    <3>3. Apply(o.status, e.type, e.allowed) # OutOfSequence
      BY <1>6 DEF Projectable
    <3>4. CASE e.type \notin FillEvents
      <4>1. BookedOrder(n) = [ BookedOrder(o) EXCEPT !.status = n.status ]
        BY <3>1, <3>4 DEF BookedOrder
      <4>2. BookedOrders' = [BookedOrders EXCEPT ![k].status = n.status]
        BY <2>2, <4>1
      <4>3. \/ n.status = o.status
            \/ o.status = "PENDING_RISK" /\ n.status \in {"RISK_APPROVED", "REJECTED"}
            \/ o.status = "RISK_APPROVED" /\ n.status = "ACCEPTED"
            \/ o.status = "ACCEPTED" /\ n.status = "WORKING"
            \/ o.status \in Actionable /\ n.status = "CANCELLED"
            \/ o.status \in Terminal /\ n.status = "RECONCILED"
        BY <3>1, <3>3, <3>4 DEF Apply, OutOfSequence, FillEvents
      <4>4. CASE n.status = o.status
        <5>1. BookedOrders' = BookedOrders
          BY <1>1, <2>2, <4>2, <4>4 DEF BookedOrders, BookedOrder
        <5>2. UNCHANGED Book!bookVars
          BY <2>4, <3>4, <5>1 DEF Book!bookVars
        <5> QED
          BY <2>3, <2>4, <3>1, <3>4, <5>2
      <4>5. ASSUME NEW from, o.status \in from
            PROVE  Book!Move(k, from, n.status)
        BY <2>4, <3>2, <3>4, <4>2, <4>5 DEF Book!Move
      <4>6. CASE n.status # o.status
        <5>1. \/ Book!Approve(k) \/ Book!Reject(k) \/ Book!Accept(k)
              \/ Book!Work(k) \/ Book!Cancel(k) \/ Book!Reconcile(k)
          BY <4>3, <4>5, <4>6
          DEF Book!Approve, Book!Reject, Book!Accept, Book!Work, Book!Cancel,
              Book!Reconcile, Book!Open, Actionable, Terminal
        <5>2. Book!Next
          BY <1>1, <5>1 DEF Book!Next
        <5> QED
          BY <2>3, <2>4, <3>1, <3>4, <5>2
      <4> QED
        BY <4>4, <4>6
    <3>5. CASE e.type \in FillEvents
      <4> DEFINE bought == IF o.side = "BUY" THEN e.quantity ELSE -e.quantity
                 held == portfolio.positions[o.instrument_id]
      <4>1. /\ e.side = o.side /\ e.quantity > 0 /\ e.price > 0
            /\ e.cumulative = o.filled + e.quantity
            /\ IF e.type = "ORDER_FILLED" THEN e.cumulative = o.quantity
                                          ELSE e.cumulative < o.quantity
            /\ e.side = "SELL" => e.quantity <= held
        BY <1>6, <3>1, <3>5 DEF Projectable, FillFits
      <4>2. /\ e.quantity \in Nat /\ o.quantity \in Nat /\ o.filled \in Nat
            /\ held \in Int /\ held >= 0
            /\ o.side \in {"BUY", "SELL"} /\ o.instrument_id \in Instruments
        BY <1>1, <2>6 DEF PaperEvent, ProjectedOrder, HasTerms, OrderSide, BookInv
      <4>3. e.price \in Prices
        BY <4>1 DEF PaperEvent
      <4>4. PositionMove(e) = bought /\ bought \in Int /\ held + bought >= 0
        BY <3>5, <4>1, <4>2 DEF PositionMove
      <4>5. /\ o.status \in Actionable
            /\ n.status = IF e.type = "ORDER_FILLED" THEN "FILLED"
                                                     ELSE "PARTIALLY_FILLED"
        BY <3>1, <3>3, <3>5 DEF Apply, OutOfSequence, FillEvents
      <4>6. /\ o.filled + e.quantity <= o.quantity
            /\ e.type = "ORDER_FILLED" <=> o.filled + e.quantity = o.quantity
            /\ e.quantity \in 1..o.quantity
        BY <4>1, <4>2
      <4>7. BookedOrder(n) =
              [ BookedOrder(o) EXCEPT
                  !.filled = o.filled + e.quantity,
                  !.status = IF o.filled + e.quantity = o.quantity
                             THEN "FILLED" ELSE "PARTIALLY_FILLED" ]
        <5>1. n.status = IF o.filled + e.quantity = o.quantity
                         THEN "FILLED" ELSE "PARTIALLY_FILLED"
          BY <4>5, <4>6
        <5>2. n.filled = o.filled + e.quantity
          BY <3>1, <3>5, <4>1
        <5>3. BookedOrder(n) =
                [ BookedOrder(o) EXCEPT !.filled = n.filled, !.status = n.status ]
          <6> DEFINE Record(status, filled) ==
                       [ instrument_id |-> o.instrument_id, side |-> o.side,
                         quantity |-> o.quantity, status |-> status,
                         filled |-> filled ]
          <6>1. /\ BookedOrder(o) = Record(o.status, o.filled)
                /\ BookedOrder(n) = Record(n.status, n.filled)
            BY <3>1 DEF BookedOrder
          <6>2. /\ [ Record(o.status, o.filled) EXCEPT !.filled = n.filled ]
                     = Record(o.status, n.filled)
                /\ [ Record(o.status, n.filled) EXCEPT !.status = n.status ]
                     = Record(n.status, n.filled)
            OBVIOUS
          <6> QED
            BY <6>1, <6>2
        <5> QED
          BY <5>1, <5>2, <5>3
      <4>8. /\ portfolio'.positions =
                 [portfolio.positions EXCEPT ![o.instrument_id] = @ + bought]
            /\ portfolio'.cash = portfolio.cash - bought * e.price
        BY <2>1, <3>1, <4>4
      <4>9. Book!Fill(k, e.quantity, e.price)
        BY <2>2, <3>2, <4>4, <4>5, <4>6, <4>7, <4>8
        DEF Book!Fill, Book!Open, Actionable
      <4>10. Book!Next
        BY <1>1, <3>2, <4>3, <4>6, <4>9 DEF Book!Next
      <4>11. \A i \in Instruments : portfolio'.positions[i] >= 0
        BY <1>1, <4>2, <4>4, <4>8 DEF BookInv
      <4> QED
        BY <2>3, <3>1, <4>10, <4>11
    <3> QED
      BY <3>4, <3>5
  <2> QED
    BY <1>1, <1>2, <1>6, <2>5, <2>6 DEF BookInv
<1> QED
  BY <1>2, <1>4, <1>5, <1>6

LEMMA InitBook == Init => BookInv /\ ProposalsCarryTerms /\ Book!Init
<1> SUFFICES ASSUME Init
             PROVE  BookInv /\ ProposalsCarryTerms /\ Book!Init
  OBVIOUS
<1>1. ledger = << >> /\ portfolio = EmptyPortfolio /\ pc = [s \in Sessions |-> "idle"]
  BY DEF Init
<1>2. /\ portfolio.orders = [o \in OrderIds |-> UnknownOrder]
      /\ portfolio.positions = [i \in Instruments |-> 0]
      /\ portfolio.cash = StartingCash
  BY <1>1 DEF EmptyPortfolio
<1>3. \A o \in OrderIds : ~Retains(o, "ORDER_PROPOSED")
  <2>1. Len(ledger) = 0 /\ 1..0 = {}
    BY <1>1
  <2> QED
    BY <2>1 DEF Retains
<1>4. BookInv
  BY <1>2, <1>3 DEF BookInv
<1>5. ProposalsCarryTerms
  BY <1>1 DEF ProposalsCarryTerms
<1>6. Book!Init
  <2>1. BookedOrder(UnknownOrder) = Book!Unproposed
    BY DEF BookedOrder, UnknownOrder, Book!Unproposed, NoSide
  <2>2. BookedOrders = [o \in OrderIds |-> Book!Unproposed]
    BY <1>2, <2>1 DEF BookedOrders
  <2> QED
    BY <1>2, <2>2 DEF Book!Init
<1> QED
  BY <1>4, <1>5, <1>6

(* What the projector makes of the ledger is a legal history of a          *)
(* long-only order book, whatever races and crashes do to the ledger.      *)
THEOREM PortfolioIsABook == Spec => ImplementsBook
<1> DEFINE Inv == EvidenceInv /\ ProposalsCarryTerms /\ BookInv
<1>1. Init => Inv /\ Book!Init
  BY InitEvidence, InitBook
<1>2. Inv /\ [Next]_vars => Inv' /\ [Book!Next]_(Book!bookVars)
  <2> SUFFICES ASSUME EvidenceInv, ProposalsCarryTerms, BookInv, [Next]_vars
               PROVE  /\ EvidenceInv' /\ ProposalsCarryTerms' /\ BookInv'
                      /\ [Book!Next]_(Book!bookVars)
    OBVIOUS
  <2>1. EvidenceInv' /\ ProposalsCarryTerms'
    BY NextKeepsEvidence, NextKeepsProposals
  <2>2. CASE UNCHANGED ledgerVars
    <3>1. ledger' = ledger /\ portfolio' = portfolio
      BY <2>2 DEF ledgerVars
    <3>2. BookInv'
      BY <3>1 DEF BookInv, Retains
    <3>3. UNCHANGED Book!bookVars
      BY <3>1 DEF Book!bookVars, BookedOrders
    <3> QED
      BY <2>1, <3>2, <3>3
  <2>3. ASSUME NEW e \in PaperEvent, AppendEvent(e), MayComeNext(e)
        PROVE  BookInv' /\ [Book!Next]_(Book!bookVars)
    BY <2>3, AppendIsBookStep DEF EvidenceInv
  <2> QED
    BY <2>1, <2>2, <2>3, OneEventAtMost
<1> QED
  BY <1>1, <1>2, PTL DEF Spec, ImplementsBook, Book!Spec

-----------------------------------------------------------------------------
(* A ledger that one session writes. *)

Serial == \A s, t \in Sessions : s = t

Closing == {"ORDER_FILLED", "ORDER_CANCELLED"}
ClosedStatus == {"FILLED", "CANCELLED", "RECONCILED"}

(* Every stream is readable, opened once and closed for good.              *)
LedgerFits ==
  /\ StreamsStayReadable
  /\ OneProposalPerOrder
  /\ ClosedOrdersStayClosed
  /\ \A o \in OrderIds \ SeenOrderIds : retained[o] = NothingRetained
  /\ \A i \in 1..Len(ledger) :
       ledger[i].type \in Closing => retained[ledger[i].order_id].status \in ClosedStatus

(* What a lone session is about to append still fits the stream it read.   *)
CallFits(stage, c) ==
  LET r == retained[c.event.order_id] IN
  /\ stage = "propose" => c.event.order_id \notin SeenOrderIds
  /\ stage = "decide" => r.status = "PENDING_RISK"
  /\ stage = "conclude" =>
       /\ r.risk_seen
       /\ r.status = IF c.event.type = "ORDER_ACCEPTED" THEN "RISK_APPROVED"
                                                        ELSE "PENDING_RISK"
  /\ stage = "append" => RetainedAccepts(r, c.event)

SerialInv ==
  /\ LedgerFits
  /\ \A s \in Sessions : CallFits(pc[s], call[s])

(* An event that fits its stream, and opens one only where none is, keeps  *)
(* the streams as they should be.                                          *)
LEMMA FittingEventKeepsLedger ==
  ASSUME TypeOK, LedgerFits, NEW e \in PaperEvent, AppendEvent(e),
         RetainedAccepts(retained[e.order_id], e),
         e.type = "ORDER_PROPOSED" => e.order_id \notin SeenOrderIds
  PROVE  LedgerFits'
<1> DEFINE r == retained[e.order_id]
<1>1. /\ Len(ledger') = Len(ledger) + 1 /\ Len(ledger) \in Nat
      /\ \A i \in 1..Len(ledger) : ledger'[i] = ledger[i]
      /\ ledger'[Len(ledger) + 1] = e
      /\ \A i \in 1..Len(ledger) : ledger[i] \in PaperEvent
  BY AppendEventEffect DEF TypeOK
<1>2. \A i \in 1..Len(ledger') : i \in 1..Len(ledger) \/ i = Len(ledger) + 1
  BY <1>1
<1>3. /\ e.order_id \in OrderIds /\ r \in RetainedState
      /\ \A i \in 1..Len(ledger) : ledger[i].order_id \in OrderIds
  BY <1>1 DEF TypeOK, PaperEvent
<1>4. \A o \in OrderIds :
        retained'[o] = IF o = e.order_id THEN RetainedStep(r, e) ELSE retained[o]
  BY <1>3 DEF TypeOK, AppendEvent
<1>5. /\ RetainedStep(r, e).valid
      /\ RetainedStep(r, e).status = Apply(r.status, e.type, e.allowed)
      /\ Apply(r.status, e.type, e.allowed) # OutOfSequence
  BY <1>3 DEF RetainedStep, RetainedState, RetainedAccepts
<1>6. StreamsStayReadable'
  BY <1>4, <1>5 DEF StreamsStayReadable, LedgerFits
<1>7. OneProposalPerOrder'
  <2> SUFFICES ASSUME NEW i \in 1..Len(ledger'), NEW j \in 1..Len(ledger'),
                      ledger'[i].type = "ORDER_PROPOSED",
                      ledger'[j].type = "ORDER_PROPOSED",
                      ledger'[i].order_id = ledger'[j].order_id
               PROVE  i = j
    BY DEF OneProposalPerOrder
  <2>1. ASSUME NEW x \in 1..Len(ledger),
               e.type = "ORDER_PROPOSED", ledger[x].order_id = e.order_id
        PROVE  FALSE
    BY <2>1 DEF SeenOrderIds
  <2> QED
    BY <1>1, <1>2, <2>1 DEF LedgerFits, OneProposalPerOrder
<1>8. ASSUME NEW x \in 1..Len(ledger), ledger[x].type \in Closing,
             ledger[x].order_id = e.order_id
      PROVE  e.type \notin FillEvents \cup {"ORDER_CANCELLED"}
  <2>1. r.status \in ClosedStatus
    BY <1>8 DEF LedgerFits
  <2> QED
    BY <1>5, <2>1
    DEF ClosedStatus, Apply, OutOfSequence, FillEvents, Actionable
<1>9. ClosedOrdersStayClosed'
  <2> SUFFICES ASSUME NEW i \in 1..Len(ledger'), NEW j \in 1..Len(ledger'),
                      ledger'[i].order_id = ledger'[j].order_id,
                      ledger'[i].type \in Closing,
                      ledger'[j].type \in FillEvents \cup {"ORDER_CANCELLED"}
               PROVE  j <= i
    BY DEF ClosedOrdersStayClosed, Closing
  <2>1. CASE i \in 1..Len(ledger) /\ j \in 1..Len(ledger)
    BY <1>1, <2>1 DEF LedgerFits, ClosedOrdersStayClosed, Closing
  <2>2. CASE i \in 1..Len(ledger) /\ j = Len(ledger) + 1
    BY <1>1, <1>8, <2>2
  <2>3. CASE i = Len(ledger) + 1
    BY <1>1, <2>3
  <2> QED
    BY <1>2, <2>1, <2>2, <2>3
<1>10. \A o \in OrderIds \ SeenOrderIds' : retained'[o] = NothingRetained
  <2> SUFFICES ASSUME NEW o \in OrderIds, o \notin SeenOrderIds'
               PROVE  retained'[o] = NothingRetained
    OBVIOUS
  <2>1. Len(ledger) + 1 \in 1..Len(ledger') /\ 1..Len(ledger) \subseteq 1..Len(ledger')
    BY <1>1
  <2>2. o # e.order_id /\ o \notin SeenOrderIds
    BY <1>1, <2>1 DEF SeenOrderIds
  <2> QED
    BY <1>4, <2>2 DEF LedgerFits
<1>11. \A i \in 1..Len(ledger') :
         ledger'[i].type \in Closing => retained'[ledger'[i].order_id].status \in ClosedStatus
  <2> SUFFICES ASSUME NEW i \in 1..Len(ledger'), ledger'[i].type \in Closing
               PROVE  retained'[ledger'[i].order_id].status \in ClosedStatus
    OBVIOUS
  <2>1. CASE i = Len(ledger) + 1
    <3>1. Apply(r.status, e.type, e.allowed) \in ClosedStatus
      BY <1>1, <1>5, <2>1 DEF ClosedStatus, Closing, Apply, OutOfSequence, FillEvents
    <3> QED
      BY <1>1, <1>3, <1>4, <1>5, <2>1, <3>1
  <2>2. CASE i \in 1..Len(ledger) /\ ledger[i].order_id # e.order_id
    BY <1>1, <1>3, <1>4, <2>2 DEF LedgerFits
  <2>3. CASE i \in 1..Len(ledger) /\ ledger[i].order_id = e.order_id
    <3>1. r.status \in ClosedStatus
      BY <1>1, <2>3 DEF LedgerFits
    <3>2. Apply(r.status, e.type, e.allowed) \in ClosedStatus
      BY <1>5, <3>1 DEF ClosedStatus, Apply, OutOfSequence, Actionable, Terminal
    <3> QED
      BY <1>1, <1>3, <1>4, <1>5, <2>3, <3>2
  <2> QED
    BY <1>2, <2>1, <2>2, <2>3
<1> QED
  BY <1>6, <1>7, <1>9, <1>10, <1>11 DEF LedgerFits

(* The event a lone session appends fits its stream.                       *)
LEMMA SerialAppendFits ==
  ASSUME EvidenceInv, SerialInv, NEW s \in Sessions,
         pc[s] \in {"propose", "decide", "conclude", "append"}
  PROVE  LET e == call[s].event IN
         /\ e \in PaperEvent
         /\ e.order_id = call[s].order.intent.order_id
         /\ RetainedAccepts(retained[e.order_id], e)
         /\ e.type = "ORDER_PROPOSED" <=> pc[s] = "propose"
         /\ e.type = "ORDER_PROPOSED" => e.order_id \notin SeenOrderIds
<1> DEFINE e == call[s].event
           r == retained[e.order_id]
<1>1. /\ e \in PaperEvent /\ e.order_id \in OrderIds
      /\ CallEvidenced(pc[s], call[s])
  BY CallTypes DEF EvidenceInv, CallsAreEvidenced, PaperEvent
<1>2. /\ CallFits(pc[s], call[s]) /\ r.valid
      /\ e.order_id \notin SeenOrderIds => r = NothingRetained
  BY <1>1 DEF SerialInv, LedgerFits, StreamsStayReadable
<1>3. /\ e.type = "ORDER_PROPOSED" <=> pc[s] = "propose"
      /\ e.type = "ORDER_PROPOSED" => e.order_id \notin SeenOrderIds
  BY <1>1, <1>2 DEF CallEvidenced, CallFits, AcceptedEvidence
<1>4. CASE pc[s] = "propose"
  <2>1. e.type = "ORDER_PROPOSED" /\ r = NothingRetained
    BY <1>2, <1>3, <1>4
  <2>2. r.valid /\ r.status = "PENDING_RISK"
    BY <2>1 DEF NothingRetained
  <2>3. RetainedAccepts(r, e)
    BY <2>1, <2>2 DEF RetainedAccepts, Apply, OutOfSequence, FillEvents
  <2> QED
    BY <1>1, <1>3, <2>3 DEF CallEvidenced
<1>5. CASE pc[s] = "decide"
  BY <1>1, <1>2, <1>3, <1>5
  DEF CallEvidenced, CallFits, RetainedAccepts, Apply, OutOfSequence, FillEvents
<1>6. CASE pc[s] = "conclude"
  BY <1>1, <1>2, <1>3, <1>6
  DEF CallEvidenced, CallFits, RetainedAccepts, Apply, OutOfSequence, FillEvents
<1>7. CASE pc[s] = "append"
  BY <1>1, <1>2, <1>3, <1>7 DEF CallEvidenced, CallFits
<1> QED
  BY <1>4, <1>5, <1>6, <1>7

(* The event a call on an actionable order settles on fits the stream the  *)
(* call has read.                                                          *)
LEMMA ActionableEventsFit ==
  ASSUME TypeOK, NEW order \in PaperOrder, NEW at \in Stamps
  PROVE  LET r == retained[order.intent.order_id]
             terms(type) == TermsEvent(type, order.intent, at)
         IN
         /\ RequireActionable(order) =>
              /\ r.status = "ACCEPTED" =>
                   RetainedAccepts(r, terms("ORDER_WORKING"))
              /\ \A filled :
                   RetainedAccepts(r, [terms("ORDER_CANCELLED") EXCEPT
                                         !.cumulative = filled])
              /\ \A filled, reason :
                   RetainedAccepts(r, [terms("ORDER_UNFILLED") EXCEPT
                                         !.cumulative = filled, !.reason = reason])
              /\ \A quantity \in 1..Remaining(order) : \A price, reason :
                   RetainedAccepts(r, FillEvent(order, quantity, price, reason, at))
         /\ order.status \in Terminal /\ r.status = order.status
              /\ Readable(r, order.intent) =>
              \A filled :
                RetainedAccepts(r, [BareEvent("RECONCILIATION_RECORDED",
                                              order.intent, at) EXCEPT
                                      !.cumulative = filled])
<1> DEFINE r == retained[order.intent.order_id]
           terms(type) == TermsEvent(type, order.intent, at)
<1>1. ASSUME RequireActionable(order)
      PROVE  r.valid /\ r.status \in Actionable
  BY <1>1 DEF RequireActionable, Readable, Held
<1>2. ASSUME RequireActionable(order)
      PROVE  /\ r.status = "ACCEPTED" => RetainedAccepts(r, terms("ORDER_WORKING"))
             /\ \A filled :
                  RetainedAccepts(r, [terms("ORDER_CANCELLED") EXCEPT
                                        !.cumulative = filled])
             /\ \A filled, reason :
                  RetainedAccepts(r, [terms("ORDER_UNFILLED") EXCEPT
                                        !.cumulative = filled, !.reason = reason])
  BY <1>1, <1>2
  DEF RetainedAccepts, TermsEvent, Apply, OutOfSequence, FillEvents, Actionable
<1>3. ASSUME RequireActionable(order), NEW quantity \in 1..Remaining(order),
             NEW price, NEW reason
      PROVE  RetainedAccepts(r, FillEvent(order, quantity, price, reason, at))
  <2> DEFINE e == FillEvent(order, quantity, price, reason, at)
  <2>1. /\ e.type \in FillEvents /\ e.quantity = quantity
        /\ e.cumulative = r.filled + quantity
    BY DEF FillEvent, TermsEvent, FillEvents, Held
  <2>2. quantity > 0
    <3>1. order.intent.order_id \in OrderIds /\ order.intent.quantity \in Nat
      BY IntentsAssumption DEF PaperOrder, OrderIntent
    <3>2. Remaining(order) \in Int
      BY <3>1 DEF Remaining, Held, TypeOK, RetainedState
    <3> QED
      BY <3>2
  <2> HIDE DEF e
  <2>3. Apply(r.status, e.type, e.allowed) # OutOfSequence
    BY <1>1, <1>3, <2>1 DEF Apply, OutOfSequence, FillEvents, Actionable
  <2>4. RetainedAccepts(r, e)
    BY <1>1, <1>3, <2>1, <2>2, <2>3 DEF RetainedAccepts, FillEvents
  <2> QED
    BY <2>4 DEF e
<1>4. ASSUME order.status \in Terminal, r.status = order.status,
             Readable(r, order.intent), NEW filled
      PROVE  RetainedAccepts(r, [BareEvent("RECONCILIATION_RECORDED",
                                           order.intent, at) EXCEPT
                                   !.cumulative = filled])
  BY <1>4
  DEF RetainedAccepts, BareEvent, TermsEvent, Apply, OutOfSequence, FillEvents,
      Terminal, Readable
<1> QED
  BY <1>2, <1>3, <1>4

LEMMA SerialQuietStep ==
  ASSUME Serial, TypeOK, SerialInv, NEW s \in Sessions, NEW stage, NEW c,
         Goto(s, stage, c), UNCHANGED ledgerVars, CallFits(stage, c)
  PROVE  SerialInv'
<1>1. ledger' = ledger /\ retained' = retained /\ portfolio' = portfolio
  BY DEF ledgerVars
<1>2. LedgerFits'
  BY <1>1
  DEF SerialInv, LedgerFits, StreamsStayReadable, OneProposalPerOrder,
      ClosedOrdersStayClosed, SeenOrderIds
<1>3. ASSUME NEW t \in Sessions
      PROVE  CallFits(pc[t], call[t])'
  <2>1. t = s
    BY DEF Serial
  <2>2. pc'[t] = stage /\ call'[t] = c
    BY <2>1 DEF Goto, TypeOK
  <2> QED
    BY <1>1, <2>2 DEF CallFits, SeenOrderIds
<1> QED
  BY <1>2, <1>3 DEF SerialInv

LEMMA SerialAppendStep ==
  ASSUME Serial, EvidenceInv, SerialInv, NEW s \in Sessions,
         pc[s] \in {"propose", "decide", "conclude", "append"},
         AppendEvent(call[s].event),
         CallFits(pc[s], call[s])'
  PROVE  SerialInv'
<1>1. LedgerFits'
  BY SerialAppendFits, FittingEventKeepsLedger DEF EvidenceInv, SerialInv
<1>2. ASSUME NEW t \in Sessions
      PROVE  CallFits(pc[t], call[t])'
  <2>1. t = s
    BY DEF Serial
  <2> QED
    BY <2>1
<1> QED
  BY <1>1, <1>2 DEF SerialInv

LEMMA NextKeepsSerial ==
  ASSUME Serial, EvidenceInv, SerialInv, [Next]_vars
  PROVE  SerialInv'
<1>t. TypeOK /\ EvidenceInv'
  BY NextKeepsEvidence DEF EvidenceInv
<1>p. /\ pc \in [Sessions -> Stages]
      /\ call \in [Sessions -> Call \cup {NoCall}]
      /\ issued \subseteq PaperOrder
  BY <1>t DEF TypeOK
<1>1. ASSUME NEW s \in Sessions, NEW intent \in Intents, NEW at \in Stamps,
             NEW allowed \in BOOLEAN, Submit(s, intent, at, allowed)
      PROVE  SerialInv'
  <2> DEFINE c == [ order |-> [intent |-> intent, status |-> "PENDING_RISK"],
                    event |-> TermsEvent("ORDER_PROPOSED", intent, at),
                    returns |-> IF allowed THEN "ACCEPTED" ELSE "REJECTED" ]
  <2>1. CallFits("propose", c)
    BY <1>1 DEF Submit, CallFits, TermsEvent
  <2>2. Goto(s, "propose", c) /\ UNCHANGED ledgerVars
    BY <1>1 DEF Submit
  <2> HIDE DEF c
  <2> QED
    BY <1>t, <2>1, <2>2, SerialQuietStep
<1>2. ASSUME NEW s \in Sessions, End(s), UNCHANGED ledgerVars
      PROVE  SerialInv'
  <2>1. CallFits("idle", NoCall)
    BY DEF CallFits
  <2> QED
    BY <1>t, <1>2, <2>1, SerialQuietStep DEF End
<1>3. ASSUME NEW s \in Sessions, NEW order, NEW event, NEW status,
             WillAppend(s, order, event, status), UNCHANGED ledgerVars,
             RetainedAccepts(retained[event.order_id], event)
      PROVE  SerialInv'
  <2> DEFINE c == [order |-> order, event |-> event, returns |-> status]
  <2>1. CallFits("append", c)
    BY <1>3 DEF CallFits
  <2>2. Goto(s, "append", c)
    BY <1>3 DEF WillAppend
  <2> HIDE DEF c
  <2> QED
    BY <1>t, <1>3, <2>1, <2>2, SerialQuietStep
<1>4. ASSUME NEW s \in Sessions, NEW order \in issued, NEW at \in Stamps,
             Work(s, order, at)
      PROVE  SerialInv'
  <2> DEFINE e == TermsEvent("ORDER_WORKING", order.intent, at)
  <2>1. RetainedAccepts(retained[order.intent.order_id], e)
    BY <1>t, <1>p, <1>4, ActionableEventsFit DEF Work, Held
  <2>2. e.order_id = order.intent.order_id
    BY DEF TermsEvent
  <2>3. WillAppend(s, order, e, "WORKING") /\ UNCHANGED ledgerVars
    BY <1>4 DEF Work
  <2> HIDE DEF e
  <2> QED
    BY <1>3, <2>1, <2>2, <2>3
<1>5. ASSUME NEW s \in Sessions, NEW order \in issued, NEW at \in Stamps,
             Cancel(s, order, at)
      PROVE  SerialInv'
  <2> DEFINE e == [ TermsEvent("ORDER_CANCELLED", order.intent, at) EXCEPT
                      !.cumulative = Held(order).filled ]
  <2>1. RetainedAccepts(retained[order.intent.order_id], e)
    BY <1>t, <1>p, <1>5, ActionableEventsFit DEF Cancel
  <2>2. e.order_id = order.intent.order_id
    BY DEF TermsEvent
  <2>3. WillAppend(s, order, e, "CANCELLED") /\ UNCHANGED ledgerVars
    BY <1>5 DEF Cancel
  <2> HIDE DEF e
  <2> QED
    BY <1>3, <2>1, <2>2, <2>3
<1>6. ASSUME NEW s \in Sessions, NEW order \in issued, NEW at \in Stamps,
             Reconcile(s, order, at)
      PROVE  SerialInv'
  <2> DEFINE e == [ BareEvent("RECONCILIATION_RECORDED", order.intent, at) EXCEPT
                      !.cumulative = Held(order).filled ]
  <2>1. RetainedAccepts(retained[order.intent.order_id], e)
    BY <1>t, <1>p, <1>6, ActionableEventsFit DEF Reconcile, Held
  <2>2. e.order_id = order.intent.order_id
    BY DEF BareEvent, TermsEvent
  <2>3. WillAppend(s, order, e, "RECONCILED") /\ UNCHANGED ledgerVars
    BY <1>6 DEF Reconcile
  <2> HIDE DEF e
  <2> QED
    BY <1>3, <2>1, <2>2, <2>3
<1>7. ASSUME NEW s \in Sessions, NEW order \in PaperOrder, NEW at \in Stamps,
             NEW quantity \in 1..Remaining(order), NEW price, NEW reason,
             RequireActionable(order), UNCHANGED ledgerVars,
             WillAppend(s, order, FillEvent(order, quantity, price, reason, at),
                        FillStatus(order, quantity))
      PROVE  SerialInv'
  <2> DEFINE e == FillEvent(order, quantity, price, reason, at)
             status == FillStatus(order, quantity)
  <2>1. RetainedAccepts(retained[order.intent.order_id], e)
    BY <1>t, <1>7, ActionableEventsFit
  <2>2. e.order_id = order.intent.order_id
    BY DEF FillEvent, TermsEvent
  <2>3. WillAppend(s, order, e, status) /\ UNCHANGED ledgerVars
    BY <1>7
  <2> HIDE DEF e, status
  <2> QED
    BY <1>3, <2>1, <2>2, <2>3
<1>8. ASSUME NEW s \in Sessions, NEW order \in issued, NEW at \in Stamps,
             NEW a \in Assumptions, SimulateNoFill(s, order, a, at)
      PROVE  SerialInv'
  <2> DEFINE e == [ TermsEvent("ORDER_UNFILLED", order.intent, at) EXCEPT
                      !.cumulative = Held(order).filled,
                      !.reason = NoFillReason(a) ]
             status == Held(order).status
  <2>1. RetainedAccepts(retained[order.intent.order_id], e)
    BY <1>t, <1>p, <1>8, ActionableEventsFit DEF SimulateNoFill
  <2>2. e.order_id = order.intent.order_id
    BY DEF TermsEvent
  <2>3. WillAppend(s, order, e, status) /\ UNCHANGED ledgerVars
    BY <1>8 DEF SimulateNoFill
  <2> HIDE DEF e, status
  <2> QED
    BY <1>3, <2>1, <2>2, <2>3
<1>9. ASSUME NEW s \in Sessions, NEW order \in issued, NEW at \in Stamps,
             NEW a \in Assumptions, SimulateLimitFill(s, order, a, at)
      PROVE  SerialInv'
  <2>1. PICK c : Goto(s, "record", c)
    BY <1>9 DEF SimulateLimitFill
  <2>2. CallFits("record", c)
    BY DEF CallFits
  <2>3. UNCHANGED ledgerVars
    BY <1>9 DEF SimulateLimitFill
  <2> QED
    BY <1>t, <2>1, <2>2, <2>3, SerialQuietStep
<1>10. ASSUME NEW s \in Sessions, RecordFill(s)
       PROVE  SerialInv'
  <2> DEFINE order == call[s].order
             draft == call[s].event
  <2>1. /\ pc[s] = "record" /\ UNCHANGED ledgerVars
        /\ order \in PaperOrder /\ draft.at \in Stamps
    BY <1>t, <1>10, CallTypes DEF RecordFill, Call
  <2>2. CASE RequireActionable(order) /\ draft.quantity \in 1..Remaining(order)
    <3>1. WillAppend(s, order,
                     FillEvent(order, draft.quantity, draft.price, draft.reason,
                               draft.at),
                     FillStatus(order, draft.quantity))
      BY <1>10, <2>2 DEF RecordFill
    <3> HIDE DEF order, draft
    <3> QED
      BY <1>7, <2>1, <2>2, <3>1
  <2>3. CASE ~(RequireActionable(order) /\ draft.quantity \in 1..Remaining(order))
    <3>1. End(s)
      BY <1>10, <2>3 DEF RecordFill
    <3> QED
      BY <1>2, <2>1, <3>1
  <2> QED
    BY <2>2, <2>3
<1>11. ASSUME NEW s \in Sessions, Propose(s)
       PROVE  SerialInv'
  <2> DEFINE c == call[s]
             e == c.event
             d == [ c EXCEPT !.event =
                      [ BareEvent("RISK_DECISION", c.order.intent, e.at)
                          EXCEPT !.allowed = (c.returns = "ACCEPTED") ] ]
  <2>1. /\ pc[s] = "propose" /\ AppendEvent(e)
        /\ Goto(s, "decide", d)
    BY <1>11 DEF Propose
  <2>2. /\ e \in PaperEvent /\ e.order_id = c.order.intent.order_id
        /\ RetainedAccepts(retained[e.order_id], e)
        /\ e.type = "ORDER_PROPOSED" /\ e.order_id \in OrderIds
    BY <2>1, SerialAppendFits DEF PaperEvent
  <2>3. pc'[s] = "decide" /\ call'[s] = d
    BY <1>p, <2>1 DEF Goto
  <2>4. d.event.order_id = e.order_id
    <3>1. c \in Call
      BY <1>t, <2>1, CallTypes
    <3> QED
      BY <2>2, <3>1 DEF BareEvent, TermsEvent, Call
  <2>5. retained'[e.order_id] = RetainedStep(retained[e.order_id], e)
    BY <1>t, <2>1, <2>2 DEF AppendEvent, TypeOK
  <2>6. RetainedStep(retained[e.order_id], e).status = "PENDING_RISK"
    <3>1. retained[e.order_id] \in RetainedState
      BY <1>t, <2>2 DEF TypeOK
    <3> QED
      BY <2>2, <3>1
      DEF RetainedStep, RetainedState, RetainedAccepts, Apply, OutOfSequence
  <2> HIDE DEF d
  <2>7. CallFits(pc[s], call[s])'
    BY <2>3, <2>4, <2>5, <2>6 DEF CallFits
  <2> QED
    BY <2>1, <2>7, SerialAppendStep
<1>12. ASSUME NEW s \in Sessions, Decide(s)
       PROVE  SerialInv'
  <2> DEFINE c == call[s]
             e == c.event
             conclusion == IF e.allowed THEN "ORDER_ACCEPTED" ELSE "ORDER_REJECTED"
             d == [ c EXCEPT !.event = TermsEvent(conclusion, c.order.intent, e.at) ]
  <2>1. /\ pc[s] = "decide" /\ AppendEvent(e)
        /\ Goto(s, "conclude", d)
    BY <1>12 DEF Decide
  <2>2. /\ e \in PaperEvent /\ e.order_id = c.order.intent.order_id
        /\ RetainedAccepts(retained[e.order_id], e)
        /\ e.order_id \in OrderIds
    BY <2>1, SerialAppendFits DEF PaperEvent
  <2>3. pc'[s] = "conclude" /\ call'[s] = d
    BY <1>p, <2>1 DEF Goto
  <2>4. d.event.order_id = e.order_id /\ d.event.type = conclusion
    <3>1. c \in Call
      BY <1>t, <2>1, CallTypes
    <3> QED
      BY <2>2, <3>1 DEF TermsEvent, Call
  <2>5. retained'[e.order_id] = RetainedStep(retained[e.order_id], e)
    BY <1>t, <2>1, <2>2 DEF AppendEvent, TypeOK
  <2>6. e.type = "RISK_DECISION" /\ retained[e.order_id].status = "PENDING_RISK"
    <3>1. CallEvidenced(pc[s], c) /\ CallFits(pc[s], c)
      BY <2>1 DEF EvidenceInv, CallsAreEvidenced, SerialInv
    <3> QED
      BY <2>1, <3>1 DEF CallEvidenced, CallFits
  <2>7. /\ RetainedStep(retained[e.order_id], e).status =
             IF e.allowed THEN "RISK_APPROVED" ELSE "PENDING_RISK"
        /\ RetainedStep(retained[e.order_id], e).risk_seen
    <3>1. retained[e.order_id] \in RetainedState
      BY <1>t, <2>2 DEF TypeOK
    <3> QED
      BY <2>2, <2>6, <3>1 DEF RetainedStep, RetainedState, Apply
  <2> HIDE DEF d
  <2>8. CallFits(pc[s], call[s])'
    BY <2>3, <2>4, <2>5, <2>7 DEF CallFits
  <2> QED
    BY <2>1, <2>8, SerialAppendStep
<1>13. ASSUME NEW s \in Sessions, Conclude(s) \/ Retain(s)
       PROVE  SerialInv'
  <2>1. /\ pc[s] \in {"conclude", "append"} /\ AppendEvent(call[s].event) /\ End(s)
    BY <1>13 DEF Conclude, Retain, Return
  <2>2. pc'[s] = "idle"
    BY <1>p, <2>1 DEF End, Goto
  <2>3. CallFits(pc[s], call[s])'
    BY <2>2 DEF CallFits
  <2> QED
    BY <2>1, <2>3, SerialAppendStep
<1>14. ASSUME NEW s \in Sessions, NEW intent \in Intents, DuplicateSubmit(s, intent)
       PROVE  SerialInv'
  BY <1>2, <1>14 DEF DuplicateSubmit, Return
<1>15. ASSUME NEW s \in Sessions, RefusedAppend(s) \/ Crash(s)
       PROVE  SerialInv'
  BY <1>2, <1>15 DEF RefusedAppend, Crash
<1>16. ASSUME NEW s \in Sessions, NEW order \in issued, NEW at \in Stamps,
              NEW quantity \in 1..order.intent.quantity, NEW price \in Prices,
              Fill(s, order, quantity, price, at)
       PROVE  SerialInv'
  BY <1>p, <1>7, <1>16 DEF Fill
<1>17. CASE UNCHANGED vars
  <2>1. /\ UNCHANGED ledgerVars /\ ledger' = ledger /\ retained' = retained
        /\ pc' = pc /\ call' = call
    BY <1>17 DEF vars, ledgerVars
  <2> QED
    BY <2>1
    DEF SerialInv, LedgerFits, StreamsStayReadable, OneProposalPerOrder,
        ClosedOrdersStayClosed, SeenOrderIds, CallFits
<1> QED
  BY <1>1, <1>4, <1>5, <1>6, <1>8, <1>9, <1>10, <1>11, <1>12, <1>13, <1>14,
     <1>15, <1>16, <1>17 DEF Next, Start, Continue

LEMMA InitSerial == Init => SerialInv
<1> SUFFICES ASSUME Init
             PROVE  SerialInv
  OBVIOUS
<1>1. /\ Len(ledger) = 0 /\ 1..0 = {} /\ pc = [s \in Sessions |-> "idle"]
      /\ retained = [o \in OrderIds |-> NothingRetained]
  BY DEF Init
<1>2. StreamsStayReadable
  BY <1>1 DEF StreamsStayReadable, NothingRetained
<1>3. LedgerFits
  BY <1>1, <1>2 DEF LedgerFits, OneProposalPerOrder, ClosedOrdersStayClosed
<1>4. \A s \in Sessions : CallFits(pc[s], call[s])
  BY <1>1 DEF CallFits
<1> QED
  BY <1>3, <1>4 DEF SerialInv

LEMMA SerialCorrect == ASSUME Serial PROVE Spec => []SerialInv
<1>1. EvidenceInv /\ SerialInv /\ [Next]_vars => EvidenceInv' /\ SerialInv'
  BY NextKeepsEvidence, NextKeepsSerial
<1> QED
  BY <1>1, InitEvidence, InitSerial, PTL DEF Spec

(* A lone session retains one proposal of each order identity, whatever    *)
(* crashes and whatever it is asked again.                                 *)
THEOREM AloneProposesOnce ==
  ASSUME Serial PROVE Spec => []OneProposalPerOrder
<1>1. SerialInv => OneProposalPerOrder
  BY DEF SerialInv, LedgerFits
<1> QED
  BY <1>1, SerialCorrect, PTL

(* A lone session can always read back what it has retained.               *)
THEOREM AloneReadsItsLedger ==
  ASSUME Serial PROVE Spec => []StreamsStayReadable
<1>1. SerialInv => StreamsStayReadable
  BY DEF SerialInv, LedgerFits
<1> QED
  BY <1>1, SerialCorrect, PTL

(* A lone session never fills or cancels an order it has closed.           *)
THEOREM AloneKeepsOrdersClosed ==
  ASSUME Serial PROVE Spec => []ClosedOrdersStayClosed
<1>1. SerialInv => ClosedOrdersStayClosed
  BY DEF SerialInv, LedgerFits
<1> QED
  BY <1>1, SerialCorrect, PTL

-----------------------------------------------------------------------------
(* What a sequence has at some of its positions. *)

(* k keeps, of the first i elements of s, those at the positions in P.     *)
Keeps(s, P, n, k) ==
  k = [ i \in 0..n |->
          IF i = 0 THEN << >>
          ELSE IF i \in P THEN Append(k[i - 1], s[i]) ELSE k[i - 1] ]

LEMMA KeepsExist ==
  ASSUME NEW s, NEW P
  PROVE  \A n \in Nat : \E k : Keeps(s, P, n, k)
<1> DEFINE Fine == { n \in Nat : \E k : Keeps(s, P, n, k) }
<1>1. 0 \in Fine
  <2> DEFINE k == [ i \in 0..0 |-> << >> ]
  <2>1. k = [ i \in 0..0 |->
                IF i = 0 THEN << >>
                ELSE IF i \in P THEN Append(k[i - 1], s[i]) ELSE k[i - 1] ]
    OBVIOUS
  <2> HIDE DEF k
  <2>2. Keeps(s, P, 0, k)
    BY <2>1 DEF Keeps
  <2> QED
    BY <2>2
<1>2. ASSUME NEW n \in Nat, n \in Fine
      PROVE  n + 1 \in Fine
  <2>1. PICK k : Keeps(s, P, n, k)
    BY <1>2
  <2> DEFINE V(i, f) == IF i = 0 THEN << >>
                        ELSE IF i \in P THEN Append(f[i - 1], s[i]) ELSE f[i - 1]
             h == [ i \in 0..(n + 1) |-> V(i, k) ]
  <2>2. \A i \in 0..n : k[i] = V(i, k)
    BY <2>1 DEF Keeps
  <2>3. \A i \in 0..n : h[i] = k[i]
    <3> HIDE DEF V
    <3> QED
      BY <2>2
  <2>4. \A i \in 0..(n + 1) : V(i, k) = V(i, h)
    <3>1. \A i \in 0..(n + 1) : i # 0 => i - 1 \in 0..n
      OBVIOUS
    <3> HIDE DEF h
    <3> QED
      BY <2>3, <3>1
  <2>5. h = [ i \in 0..(n + 1) |-> V(i, h) ]
    <3> HIDE DEF V
    <3> QED
      BY <2>4
  <2> HIDE DEF h
  <2>6. Keeps(s, P, n + 1, h)
    BY <2>5 DEF Keeps
  <2> QED
    BY <2>6
<1> HIDE DEF Fine
<1>3. \A n \in Nat : n \in Fine
  BY <1>1, <1>2, EveryNumber
<1> QED
  BY <1>3 DEF Fine

LEMMA PickedKeeps ==
  ASSUME NEW s, NEW P, Len(s) \in Nat
  PROVE  \E k : Keeps(s, P, Len(s), k) /\ Picked(s, P) = k[Len(s)]
<1> DEFINE k == CHOOSE kept : Keeps(s, P, Len(s), kept)
<1>1. Keeps(s, P, Len(s), k)
  BY KeepsExist
<1>2. Picked(s, P) = k[Len(s)]
  BY DEF Picked, Keeps
<1> QED
  BY <1>1, <1>2

KeepsAlike(s, P, t, Q, n) ==
  \A i \in 1..n : s[i] = t[i] /\ (i \in P <=> i \in Q)

LEMMA KeepsAgree ==
  ASSUME NEW s, NEW P, NEW n \in Nat, NEW k, Keeps(s, P, n, k),
         NEW t, NEW Q, NEW m \in Nat, NEW l, Keeps(t, Q, m, l),
         n <= m, KeepsAlike(s, P, t, Q, n)
  PROVE  \A i \in 0..n : k[i] = l[i]
<1> DEFINE Fine == { i \in Nat : i <= n => k[i] = l[i] }
<1>1. 0 \in Fine
  BY DEF Keeps
<1>2. ASSUME NEW i \in Nat, i \in Fine
      PROVE  i + 1 \in Fine
  <2> SUFFICES ASSUME i + 1 <= n
               PROVE  k[i + 1] = l[i + 1]
    OBVIOUS
  <2>1. k[i] = l[i]
    BY <1>2
  <2>2. /\ i + 1 \in 0..n /\ i + 1 \in 0..m /\ i + 1 \in 1..n
        /\ i + 1 # 0 /\ (i + 1) - 1 = i
    OBVIOUS
  <2>3. k[i + 1] = IF i + 1 \in P THEN Append(k[i], s[i + 1]) ELSE k[i]
    BY <2>2 DEF Keeps
  <2>4. l[i + 1] = IF i + 1 \in Q THEN Append(l[i], t[i + 1]) ELSE l[i]
    BY <2>2 DEF Keeps
  <2> QED
    BY <2>1, <2>2, <2>3, <2>4 DEF KeepsAlike
<1> HIDE DEF Fine
<1>3. \A i \in Nat : i \in Fine
  BY <1>1, <1>2, EveryNumber
<1> QED
  BY <1>3 DEF Fine

(* Nothing is picked from nothing.                                         *)
LEMMA PickedFromNone ==
  ASSUME NEW P
  PROVE  Picked(<< >>, P) = << >>
<1>1. Len(<< >>) = 0
  OBVIOUS
<1>2. PICK k : Keeps(<< >>, P, 0, k) /\ Picked(<< >>, P) = k[0]
  BY <1>1, PickedKeeps
<1> QED
  BY <1>2 DEF Keeps

(* What is picked from a longer sequence is what was picked before and     *)
(* perhaps the new element.                                                *)
LEMMA PickedFromAppend ==
  ASSUME NEW T, NEW s \in Seq(T), NEW e \in T, NEW P, NEW Q,
         \A i \in 1..Len(s) : i \in P <=> i \in Q
  PROVE  Picked(Append(s, e), Q) = IF Len(s) + 1 \in Q THEN Append(Picked(s, P), e)
                                                       ELSE Picked(s, P)
<1> DEFINE t == Append(s, e)
           n == Len(s)
<1>1. /\ n \in Nat /\ Len(t) = n + 1
      /\ \A i \in 1..n : t[i] = s[i]
      /\ t[n + 1] = e
  OBVIOUS
<1> HIDE DEF t, n
<1>2. PICK k : Keeps(s, P, n, k) /\ Picked(s, P) = k[n]
  BY <1>1, PickedKeeps DEF n
<1>3. PICK l : Keeps(t, Q, n + 1, l) /\ Picked(t, Q) = l[n + 1]
  BY <1>1, PickedKeeps
<1>4. k[n] = l[n]
  <2>1. KeepsAlike(s, P, t, Q, n)
    BY <1>1 DEF KeepsAlike, n
  <2>2. n + 1 \in Nat /\ n <= n + 1 /\ n \in 0..n
    BY <1>1
  <2> QED
    BY <1>1, <1>2, <1>3, <2>1, <2>2, KeepsAgree
<1>5. l[n + 1] = IF n + 1 \in Q THEN Append(l[n], t[n + 1]) ELSE l[n]
  <2>1. n + 1 \in 0..(n + 1) /\ n + 1 # 0 /\ (n + 1) - 1 = n
    BY <1>1
  <2> QED
    BY <1>3, <2>1 DEF Keeps
<1> QED
  BY <1>1, <1>2, <1>3, <1>4, <1>5 DEF t, n

(* What is picked is a sequence of the same kind, and no longer.           *)
LEMMA PickedType ==
  ASSUME NEW T, NEW s \in Seq(T), NEW P
  PROVE  Picked(s, P) \in Seq(T) /\ Len(Picked(s, P)) <= Len(s)
<1>1. Len(s) \in Nat
  OBVIOUS
<1>2. PICK k : Keeps(s, P, Len(s), k) /\ Picked(s, P) = k[Len(s)]
  BY <1>1, PickedKeeps
<1> DEFINE Fine == { i \in Nat : i <= Len(s) => k[i] \in Seq(T) /\ Len(k[i]) <= i }
<1>3. 0 \in Fine
  <2>1. k[0] = << >>
    BY <1>1, <1>2 DEF Keeps
  <2>2. << >> \in Seq(T) /\ Len(<< >>) = 0
    OBVIOUS
  <2>3. k[0] \in Seq(T) /\ Len(k[0]) <= 0
    BY <2>1, <2>2
  <2> QED
    BY <2>3
<1>4. ASSUME NEW i \in Nat, i \in Fine
      PROVE  i + 1 \in Fine
  <2> SUFFICES ASSUME i + 1 <= Len(s)
               PROVE  k[i + 1] \in Seq(T) /\ Len(k[i + 1]) <= i + 1
    OBVIOUS
  <2>1. k[i] \in Seq(T) /\ Len(k[i]) <= i
    BY <1>1, <1>4
  <2>2. i + 1 \in 0..Len(s) /\ i + 1 # 0 /\ (i + 1) - 1 = i /\ s[i + 1] \in T
    BY <1>1
  <2>3. k[i + 1] = IF i + 1 \in P THEN Append(k[i], s[i + 1]) ELSE k[i]
    BY <1>2, <2>2 DEF Keeps
  <2> QED
    BY <2>1, <2>2, <2>3
<1> HIDE DEF Fine
<1>5. \A i \in Nat : i \in Fine
  BY <1>3, <1>4, EveryNumber
<1> QED
  BY <1>1, <1>2, <1>5 DEF Fine

(* Everything is picked when every position is.                            *)
LEMMA PickedWhole ==
  ASSUME NEW T, NEW s \in Seq(T), NEW P, 1..Len(s) \subseteq P
  PROVE  Picked(s, P) = s
<1>1. Len(s) \in Nat
  OBVIOUS
<1>2. PICK k : Keeps(s, P, Len(s), k) /\ Picked(s, P) = k[Len(s)]
  BY <1>1, PickedKeeps
<1> DEFINE Upto(q, i) == q \in Seq(T) /\ Len(q) = i /\ \A j \in 1..i : q[j] = s[j]
           Fine == { i \in Nat : i <= Len(s) => Upto(k[i], i) }
<1>3. 0 \in Fine
  <2>1. k[0] = << >>
    BY <1>1, <1>2 DEF Keeps
  <2>2. << >> \in Seq(T) /\ Len(<< >>) = 0
    OBVIOUS
  <2>3. Upto(k[0], 0)
    BY <2>1, <2>2
  <2> HIDE DEF Upto
  <2> QED
    BY <2>3
<1>4. ASSUME NEW i \in Nat, i \in Fine
      PROVE  i + 1 \in Fine
  <2> SUFFICES ASSUME i + 1 <= Len(s)
               PROVE  Upto(k[i + 1], i + 1)
    OBVIOUS
  <2>1. Upto(k[i], i)
    BY <1>1, <1>4
  <2>2. /\ i + 1 \in 0..Len(s) /\ i + 1 # 0 /\ (i + 1) - 1 = i /\ s[i + 1] \in T
        /\ i + 1 \in P
    BY <1>1
  <2>3. k[i + 1] = Append(k[i], s[i + 1])
    BY <1>2, <2>2 DEF Keeps
  <2> QED
    BY <2>1, <2>2, <2>3
<1>5. Upto(k[Len(s)], Len(s))
  <2> HIDE DEF Fine, Upto
  <2>1. \A i \in Nat : i \in Fine
    BY <1>3, <1>4, EveryNumber
  <2> QED
    BY <1>1, <2>1 DEF Fine
<1> QED
  BY <1>2, <1>5

(* Nothing is picked when no position is.                                  *)
LEMMA PickedNothing ==
  ASSUME NEW T, NEW s \in Seq(T), NEW P, \A i \in 1..Len(s) : i \notin P
  PROVE  Picked(s, P) = << >>
<1>1. Len(s) \in Nat
  OBVIOUS
<1>2. PICK k : Keeps(s, P, Len(s), k) /\ Picked(s, P) = k[Len(s)]
  BY <1>1, PickedKeeps
<1> DEFINE Fine == { i \in Nat : i <= Len(s) => k[i] = << >> }
<1>3. 0 \in Fine
  BY <1>1, <1>2 DEF Keeps
<1>4. ASSUME NEW i \in Nat, i \in Fine
      PROVE  i + 1 \in Fine
  <2> SUFFICES ASSUME i + 1 <= Len(s)
               PROVE  k[i + 1] = << >>
    OBVIOUS
  <2>1. i + 1 \in 0..Len(s) /\ i + 1 # 0 /\ (i + 1) - 1 = i /\ i + 1 \notin P
    BY <1>1
  <2>2. k[i + 1] = k[i]
    BY <1>2, <2>1 DEF Keeps
  <2> QED
    BY <1>1, <1>4, <2>2
<1> HIDE DEF Fine
<1>5. \A i \in Nat : i \in Fine
  BY <1>3, <1>4, EveryNumber
<1> QED
  BY <1>1, <1>2, <1>5 DEF Fine

-----------------------------------------------------------------------------
(* The audit's replay. *)

(* a is the audit's reading of the first i events, for i up to n.          *)
Reads(events, n, a) ==
  a = [ i \in 0..n |->
          IF i = 0 THEN NothingRead ELSE Read(a[i - 1], events[i]) ]

LEMMA ReadsExist ==
  ASSUME NEW events
  PROVE  \A n \in Nat : \E a : Reads(events, n, a)
<1> DEFINE Fine == { n \in Nat : \E a : Reads(events, n, a) }
<1>1. 0 \in Fine
  <2> DEFINE a == [ i \in 0..0 |-> NothingRead ]
  <2>1. a = [ i \in 0..0 |->
                IF i = 0 THEN NothingRead ELSE Read(a[i - 1], events[i]) ]
    OBVIOUS
  <2> HIDE DEF a
  <2>2. Reads(events, 0, a)
    BY <2>1 DEF Reads
  <2> QED
    BY <2>2
<1>2. ASSUME NEW n \in Nat, n \in Fine
      PROVE  n + 1 \in Fine
  <2>1. PICK a : Reads(events, n, a)
    BY <1>2
  <2> DEFINE V(i, f) == IF i = 0 THEN NothingRead ELSE Read(f[i - 1], events[i])
             h == [ i \in 0..(n + 1) |-> V(i, a) ]
  <2>2. \A i \in 0..n : a[i] = V(i, a)
    BY <2>1 DEF Reads
  <2>3. \A i \in 0..n : h[i] = a[i]
    <3> HIDE DEF V
    <3> QED
      BY <2>2
  <2>4. \A i \in 0..(n + 1) : V(i, a) = V(i, h)
    <3>1. \A i \in 0..(n + 1) : i # 0 => i - 1 \in 0..n
      OBVIOUS
    <3> HIDE DEF h
    <3> QED
      BY <2>3, <3>1
  <2>5. h = [ i \in 0..(n + 1) |-> V(i, h) ]
    <3> HIDE DEF V
    <3> QED
      BY <2>4
  <2> HIDE DEF h
  <2>6. Reads(events, n + 1, h)
    BY <2>5 DEF Reads
  <2> QED
    BY <2>6
<1> HIDE DEF Fine
<1>3. \A n \in Nat : n \in Fine
  BY <1>1, <1>2, EveryNumber
<1> QED
  BY <1>3 DEF Fine

LEMMA AuditReplayReads ==
  ASSUME NEW events, Len(events) \in Nat
  PROVE  \E a : Reads(events, Len(events), a) /\ AuditReplay(events) = a[Len(events)]
<1> DEFINE a == CHOOSE after : Reads(events, Len(events), after)
<1>1. Reads(events, Len(events), a)
  BY ReadsExist
<1>2. AuditReplay(events) = a[Len(events)]
  BY DEF AuditReplay, Reads
<1> QED
  BY <1>1, <1>2

LEMMA ReadsAgree ==
  ASSUME NEW s, NEW n \in Nat, NEW a, Reads(s, n, a),
         NEW t, NEW m \in Nat, NEW b, Reads(t, m, b),
         n <= m, \A i \in 1..n : s[i] = t[i]
  PROVE  \A i \in 0..n : a[i] = b[i]
<1> DEFINE Fine == { i \in Nat : i <= n => a[i] = b[i] }
<1>1. 0 \in Fine
  BY DEF Reads
<1>2. ASSUME NEW i \in Nat, i \in Fine
      PROVE  i + 1 \in Fine
  <2> SUFFICES ASSUME i + 1 <= n
               PROVE  a[i + 1] = b[i + 1]
    OBVIOUS
  <2>1. a[i] = b[i]
    BY <1>2
  <2>2. /\ i + 1 \in 0..n /\ i + 1 \in 0..m /\ i + 1 \in 1..n
        /\ i + 1 # 0 /\ (i + 1) - 1 = i
    OBVIOUS
  <2>3. a[i + 1] = Read(a[i], s[i + 1])
    BY <2>2 DEF Reads
  <2>4. b[i + 1] = Read(b[i], t[i + 1])
    BY <2>2 DEF Reads
  <2> QED
    BY <2>1, <2>2, <2>3, <2>4
<1> HIDE DEF Fine
<1>3. \A i \in Nat : i \in Fine
  BY <1>1, <1>2, EveryNumber
<1> QED
  BY <1>3 DEF Fine

LEMMA ReplayOfNone == AuditReplay(<< >>) = NothingRead
<1>1. Len(<< >>) = 0
  OBVIOUS
<1>2. PICK a : Reads(<< >>, 0, a) /\ AuditReplay(<< >>) = a[0]
  BY <1>1, AuditReplayReads
<1> QED
  BY <1>2 DEF Reads

(* One event more is read on top of what the others left.                  *)
LEMMA ReplayOfAppend ==
  ASSUME NEW T, NEW s \in Seq(T), NEW e \in T
  PROVE  AuditReplay(Append(s, e)) = Read(AuditReplay(s), e)
<1> DEFINE t == Append(s, e)
           n == Len(s)
<1>1. /\ n \in Nat /\ Len(t) = n + 1
      /\ \A i \in 1..n : s[i] = t[i]
      /\ t[n + 1] = e
  OBVIOUS
<1> HIDE DEF t, n
<1>2. PICK a : Reads(s, n, a) /\ AuditReplay(s) = a[n]
  BY <1>1, AuditReplayReads DEF n
<1>3. PICK b : Reads(t, n + 1, b) /\ AuditReplay(t) = b[n + 1]
  BY <1>1, AuditReplayReads
<1>4. a[n] = b[n]
  <2>1. n + 1 \in Nat /\ n <= n + 1 /\ n \in 0..n
    BY <1>1
  <2> QED
    BY <1>1, <1>2, <1>3, <2>1, ReadsAgree
<1>5. b[n + 1] = Read(b[n], t[n + 1])
  <2>1. n + 1 \in 0..(n + 1) /\ n + 1 # 0 /\ (n + 1) - 1 = n
    BY <1>1
  <2> QED
    BY <1>3, <2>1 DEF Reads
<1> QED
  BY <1>1, <1>2, <1>3, <1>4, <1>5 DEF t

AuditRow ==
  [ event : PaperEvent,
    lifecycle_state : PaperOrderStatus \cup {"UNPROJECTABLE"},
    integrity_status : {"VALID", "INVALID_LIFECYCLE"} ]

Reading ==
  [ states : [OrderIds -> PaperOrderStatus], rows : Seq(AuditRow) ]

(* What reading one event more does, by what becomes of its order.         *)
LEMMA ReadEffect ==
  ASSUME NEW b \in Reading, NEW e \in PaperEvent
  PROVE  LET next == Apply(b.states[e.order_id], e.type, e.allowed) IN
         /\ Read(b, e) \in Reading
         /\ next \in PaperOrderStatus \cup {OutOfSequence}
         /\ Row(e, next) \in AuditRow
         /\ Read(b, e).rows = Append(b.rows, Row(e, next))
         /\ Read(b, e).states[e.order_id] =
              IF next = OutOfSequence THEN b.states[e.order_id] ELSE next
         /\ \A o \in OrderIds : o # e.order_id =>
              Read(b, e).states[o] = b.states[o]
<1> DEFINE next == Apply(b.states[e.order_id], e.type, e.allowed)
           states == IF next = OutOfSequence THEN b.states
                     ELSE [b.states EXCEPT ![e.order_id] = next]
<1>1. /\ b.states \in [OrderIds -> PaperOrderStatus] /\ b.rows \in Seq(AuditRow)
      /\ e.order_id \in OrderIds /\ e.allowed \in BOOLEAN
  BY DEF Reading, PaperEvent
<1>2. next \in PaperOrderStatus \cup {OutOfSequence}
  BY <1>1, ApplyType
<1>3. Read(b, e) = [ states |-> states, rows |-> Append(b.rows, Row(e, next)) ]
  BY DEF Read, NextState
<1> HIDE DEF next
<1>4. Row(e, next) \in AuditRow
  BY <1>2 DEF Row, AuditRow
<1>5. states \in [OrderIds -> PaperOrderStatus]
  BY <1>1, <1>2
<1>6. /\ states[e.order_id] = IF next = OutOfSequence THEN b.states[e.order_id] ELSE next
      /\ \A o \in OrderIds : o # e.order_id => states[o] = b.states[o]
  BY <1>1
<1> HIDE DEF states
<1>7. Append(b.rows, Row(e, next)) \in Seq(AuditRow)
  BY <1>1, <1>4
<1>8. Read(b, e) \in Reading
  BY <1>3, <1>5, <1>7 DEF Reading
<1> QED
  BY <1>2, <1>3, <1>4, <1>6, <1>8 DEF next

(* What a reading is, and that it has a row for each event, in order.      *)
LEMMA ReplayType ==
  ASSUME NEW s \in Seq(PaperEvent)
  PROVE  /\ AuditReplay(s) \in Reading
         /\ Len(AuditReplay(s).rows) = Len(s)
         /\ \A i \in 1..Len(s) : AuditReplay(s).rows[i].event = s[i]
<1>1. Len(s) \in Nat
  OBVIOUS
<1>2. PICK a : Reads(s, Len(s), a) /\ AuditReplay(s) = a[Len(s)]
  BY <1>1, AuditReplayReads
<1> DEFINE Upto(b, i) == /\ b \in Reading /\ Len(b.rows) = i
                         /\ \A j \in 1..i : b.rows[j].event = s[j]
           Fine == { i \in Nat : i <= Len(s) => Upto(a[i], i) }
<1>3. 0 \in Fine
  <2>1. a[0] = NothingRead
    BY <1>1, <1>2 DEF Reads
  <2>2. << >> \in Seq(AuditRow) /\ Len(<< >>) = 0
    OBVIOUS
  <2>3. [o \in OrderIds |-> "PENDING_RISK"] \in [OrderIds -> PaperOrderStatus]
    BY DEF PaperOrderStatus
  <2>4. Upto(NothingRead, 0)
    BY <2>2, <2>3 DEF NothingRead, Reading
  <2> HIDE DEF Upto
  <2> QED
    BY <2>1, <2>4
<1>4. ASSUME NEW i \in Nat, i \in Fine
      PROVE  i + 1 \in Fine
  <2> SUFFICES ASSUME i + 1 <= Len(s)
               PROVE  Upto(a[i + 1], i + 1)
    OBVIOUS
  <2>1. Upto(a[i], i)
    BY <1>1, <1>4
  <2>2. i + 1 \in 0..Len(s) /\ i + 1 # 0 /\ (i + 1) - 1 = i /\ s[i + 1] \in PaperEvent
    BY <1>1
  <2>3. a[i + 1] = Read(a[i], s[i + 1])
    BY <1>2, <2>2 DEF Reads
  <2>4. PICK row \in AuditRow : /\ a[i + 1] \in Reading
                                /\ a[i + 1].rows = Append(a[i].rows, row)
                                /\ row.event = s[i + 1]
    <3> DEFINE next == Apply(a[i].states[s[i + 1].order_id], s[i + 1].type,
                             s[i + 1].allowed)
               r == Row(s[i + 1], next)
    <3>1. r.event = s[i + 1]
      BY DEF Row
    <3>2. /\ r \in AuditRow /\ a[i + 1] \in Reading
          /\ a[i + 1].rows = Append(a[i].rows, r)
      <4>1. a[i] \in Reading /\ s[i + 1] \in PaperEvent
        BY <2>1, <2>2
      <4>2. /\ r \in AuditRow /\ Read(a[i], s[i + 1]) \in Reading
            /\ Read(a[i], s[i + 1]).rows = Append(a[i].rows, r)
        <5> HIDE DEF Upto
        <5> QED
          BY <4>1, ReadEffect
      <4> QED
        BY <2>3, <4>2
    <3> HIDE DEF r
    <3> QED
      BY <3>1, <3>2
  <2>5. a[i].rows \in Seq(AuditRow)
    BY <2>1 DEF Reading
  <2> QED
    BY <2>1, <2>4, <2>5
<1>5. Upto(a[Len(s)], Len(s))
  <2> HIDE DEF Fine, Upto
  <2>1. \A i \in Nat : i \in Fine
    BY <1>3, <1>4, EveryNumber
  <2> QED
    BY <1>1, <2>1 DEF Fine
<1> QED
  BY <1>2, <1>5

-----------------------------------------------------------------------------
(* The audit beside the other two replays. *)

Faultless(rows) ==
  \A i \in 1..Len(rows) : /\ rows[i].integrity_status = "VALID"
                          /\ rows[i].lifecycle_state # "UNPROJECTABLE"

OfOrder(rows, o) ==
  Picked(rows, { i \in 1..Len(rows) : rows[i].event.order_id = o })

(* An order's own reading is its part of the whole one; and it finds no    *)
(* fault, and the same status, wherever the service or the projector does. *)
AuditFollows(o) ==
  LET own == AuditReplay(Stream(o))
      whole == AuditReplay(ledger)
  IN
  /\ own.states[o] = whole.states[o]
  /\ OfOrder(whole.rows, o) = own.rows
  /\ own.rows # << >> /\ Faultless(own.rows) =>
       own.rows[Len(own.rows)].lifecycle_state = own.states[o]
  /\ retained[o].valid =>
       Faultless(own.rows) /\ own.states[o] = retained[o].status
  /\ Len(ledger) <= ReadLimit /\ (\A e \in portfolio.unprojectable : e.order_id # o) =>
       Faultless(own.rows) /\ own.states[o] = portfolio.orders[o].status

LEMMA StreamType ==
  ASSUME TypeOK, NEW o
  PROVE  Stream(o) \in Seq(PaperEvent) /\ Len(Stream(o)) <= Len(ledger)
BY PickedType DEF TypeOK, Stream

LEMMA StreamStep ==
  ASSUME TypeOK, NEW e \in PaperEvent, AppendEvent(e), NEW o
  PROVE  Stream(o)' = IF e.order_id = o THEN Append(Stream(o), e) ELSE Stream(o)
<1> DEFINE P == { i \in 1..Len(ledger) : ledger[i].order_id = o }
           Q == { i \in 1..Len(ledger') : ledger'[i].order_id = o }
<1>1. ledger \in Seq(PaperEvent) /\ ledger' = Append(ledger, e)
  BY DEF TypeOK, AppendEvent
<1>2. /\ Len(ledger) \in Nat /\ Len(ledger') = Len(ledger) + 1
      /\ \A i \in 1..Len(ledger) : ledger'[i] = ledger[i]
      /\ ledger'[Len(ledger) + 1] = e
  BY AppendEventEffect
<1>3. \A i \in 1..Len(ledger) : i \in P <=> i \in Q
  BY <1>2
<1>4. Len(ledger) + 1 \in Q <=> e.order_id = o
  BY <1>2
<1> HIDE DEF P, Q
<1>5. Picked(ledger', Q) = IF Len(ledger) + 1 \in Q THEN Append(Picked(ledger, P), e)
                                                    ELSE Picked(ledger, P)
  BY <1>1, <1>3, PickedFromAppend
<1> QED
  BY <1>4, <1>5 DEF Stream, P, Q

(* A row more belongs to its order only.                                   *)
LEMMA OfOrderStep ==
  ASSUME NEW rows \in Seq(AuditRow), NEW row \in AuditRow, NEW o
  PROVE  OfOrder(Append(rows, row), o) =
           IF row.event.order_id = o THEN Append(OfOrder(rows, o), row)
                                     ELSE OfOrder(rows, o)
<1> DEFINE more == Append(rows, row)
           P == { i \in 1..Len(rows) : rows[i].event.order_id = o }
           Q == { i \in 1..Len(more) : more[i].event.order_id = o }
<1>1. /\ Len(rows) \in Nat /\ Len(more) = Len(rows) + 1
      /\ \A i \in 1..Len(rows) : more[i] = rows[i]
      /\ more[Len(rows) + 1] = row
  OBVIOUS
<1>2. \A i \in 1..Len(rows) : i \in P <=> i \in Q
  <2> HIDE DEF more
  <2> QED
    BY <1>1
<1>3. Len(rows) + 1 \in Q <=> row.event.order_id = o
  <2> HIDE DEF more
  <2> QED
    BY <1>1
<1> HIDE DEF P, Q
<1>4. Picked(more, Q) = IF Len(rows) + 1 \in Q THEN Append(Picked(rows, P), row)
                                               ELSE Picked(rows, P)
  BY <1>2, PickedFromAppend
<1> QED
  BY <1>3, <1>4 DEF OfOrder, P, Q

(* A sound row more leaves faultless rows faultless, and comes last.       *)
LEMMA FaultlessStep ==
  ASSUME NEW rows \in Seq(AuditRow), NEW row \in AuditRow
  PROVE  LET more == Append(rows, row) IN
         /\ more # << >> /\ more[Len(more)] = row
         /\ Faultless(more) <=>
              /\ Faultless(rows)
              /\ row.integrity_status = "VALID"
              /\ row.lifecycle_state # "UNPROJECTABLE"
<1> DEFINE more == Append(rows, row)
<1>1. /\ Len(rows) \in Nat /\ Len(more) = Len(rows) + 1
      /\ \A i \in 1..Len(rows) : more[i] = rows[i]
      /\ more[Len(rows) + 1] = row
  OBVIOUS
<1>2. more # << >>
  <2>1. Len(<< >>) = 0
    OBVIOUS
  <2> HIDE DEF more
  <2> QED
    BY <1>1, <2>1
<1> HIDE DEF more
<1>3. 1..Len(more) = 1..Len(rows) \cup {Len(rows) + 1}
  BY <1>1
<1>4. Faultless(more) <=>
              /\ Faultless(rows)
              /\ row.integrity_status = "VALID"
              /\ row.lifecycle_state # "UNPROJECTABLE"
  BY <1>1, <1>3 DEF Faultless
<1> QED
  BY <1>1, <1>2, <1>4 DEF more

(* The order an event is about is read one row further, every other order  *)
(* as before.                                                              *)
LEMMA AppendKeepsAudit ==
  ASSUME TypeOK, NEW e \in PaperEvent, AppendEvent(e), NEW o \in OrderIds,
         AuditFollows(o)
  PROVE  AuditFollows(o)'
<1> DEFINE own == AuditReplay(Stream(o))
           whole == AuditReplay(ledger)
           ownNext == AuditReplay(Stream(o)')
           wholeNext == AuditReplay(ledger')
           next == Apply(whole.states[e.order_id], e.type, e.allowed)
           row == Row(e, next)
<1>1. /\ ledger \in Seq(PaperEvent) /\ Stream(o) \in Seq(PaperEvent)
      /\ ledger' = Append(ledger, e)
      /\ Len(ledger) \in Nat /\ Len(ledger') = Len(ledger) + 1
      /\ ReadLimit \in Nat
  BY StreamType, AppendEventEffect, ReadLimitAssumption DEF TypeOK, AppendEvent
<1>2. own \in Reading /\ whole \in Reading
  BY <1>1, ReplayType
<1>3. own.rows \in Seq(AuditRow) /\ whole.rows \in Seq(AuditRow)
  BY <1>2 DEF Reading
<1>4. wholeNext = Read(whole, e)
  BY <1>1, ReplayOfAppend
<1>5. /\ retained \in [OrderIds -> RetainedState] /\ portfolio \in Portfolio
      /\ portfolio.orders \in [OrderIds -> ProjectedOrder]
      /\ e.order_id \in OrderIds
      /\ retained' = [retained EXCEPT ![e.order_id] =
                        RetainedStep(retained[e.order_id], e)]
  BY DEF TypeOK, Portfolio, PaperEvent, AppendEvent
<1>6. Len(ledger) < ReadLimit => portfolio' = ProjectEvent(portfolio, e)
  BY DEF AppendEvent
<1>7. /\ row.event = e
      /\ row.lifecycle_state = IF next = OutOfSequence THEN "UNPROJECTABLE" ELSE next
      /\ row.integrity_status = IF next = OutOfSequence THEN "INVALID_LIFECYCLE"
                                                        ELSE "VALID"
  BY DEF Row
<1>8. /\ wholeNext.rows = Append(whole.rows, row) /\ row \in AuditRow
      /\ next \in PaperOrderStatus \cup {OutOfSequence}
      /\ wholeNext.states[e.order_id] =
           IF next = OutOfSequence THEN whole.states[e.order_id] ELSE next
      /\ \A p \in OrderIds : p # e.order_id => wholeNext.states[p] = whole.states[p]
  <2> HIDE DEF whole, wholeNext
  <2> QED
    BY <1>2, <1>4, ReadEffect
<1>9. /\ own.states[o] = whole.states[o]
      /\ OfOrder(whole.rows, o) = own.rows
      /\ own.rows # << >> /\ Faultless(own.rows) =>
           own.rows[Len(own.rows)].lifecycle_state = own.states[o]
      /\ retained[o].valid =>
           Faultless(own.rows) /\ own.states[o] = retained[o].status
      /\ Len(ledger) <= ReadLimit
           /\ (\A f \in portfolio.unprojectable : f.order_id # o) =>
           Faultless(own.rows) /\ own.states[o] = portfolio.orders[o].status
  BY DEF AuditFollows
<1>10. OfOrder(wholeNext.rows, o) =
         IF e.order_id = o THEN Append(OfOrder(whole.rows, o), row)
                           ELSE OfOrder(whole.rows, o)
  <2>1. whole.rows \in Seq(AuditRow) /\ row \in AuditRow /\ row.event = e
        /\ wholeNext.rows = Append(whole.rows, row)
    BY <1>3, <1>7, <1>8
  <2> HIDE DEF whole, wholeNext, next, row
  <2>2. OfOrder(Append(whole.rows, row), o) =
          IF row.event.order_id = o THEN Append(OfOrder(whole.rows, o), row)
                                    ELSE OfOrder(whole.rows, o)
    BY <2>1, OfOrderStep
  <2> QED
    BY <2>1, <2>2, Zenon
<1>11. Stream(o)' = IF e.order_id = o THEN Append(Stream(o), e) ELSE Stream(o)
  BY StreamStep
<1>12. SUFFICES
      /\ ownNext.states[o] = wholeNext.states[o]
      /\ OfOrder(wholeNext.rows, o) = ownNext.rows
      /\ ownNext.rows # << >> /\ Faultless(ownNext.rows) =>
           ownNext.rows[Len(ownNext.rows)].lifecycle_state = ownNext.states[o]
      /\ retained'[o].valid =>
           Faultless(ownNext.rows) /\ ownNext.states[o] = retained'[o].status
      /\ Len(ledger') <= ReadLimit
           /\ (\A f \in portfolio'.unprojectable : f.order_id # o) =>
           Faultless(ownNext.rows) /\ ownNext.states[o] = portfolio'.orders[o].status
  BY DEF AuditFollows
<1>13. CASE o # e.order_id
  <2>1. ownNext = own
    BY <1>11, <1>13
  <2>2. retained'[o] = retained[o]
    BY <1>5, <1>13
  <2>3. ASSUME Len(ledger') <= ReadLimit
        PROVE  /\ Len(ledger) <= ReadLimit
               /\ portfolio'.orders[o] = portfolio.orders[o]
               /\ portfolio.unprojectable \subseteq portfolio'.unprojectable
    <3>1. Len(ledger) < ReadLimit /\ Len(ledger) <= ReadLimit
      BY <1>1, <2>3
    <3>2. portfolio' = ProjectEvent(portfolio, e)
      BY <1>6, <3>1
    <3>3. CASE Projectable(portfolio, e)
      <4>1. /\ portfolio'.orders = [portfolio.orders EXCEPT ![e.order_id] =
                                      Projected(portfolio.orders[e.order_id], e)]
            /\ portfolio'.unprojectable = portfolio.unprojectable
        BY <1>5, <3>2, <3>3, ProjectEventEffect
      <4> QED
        BY <1>5, <1>13, <3>1, <4>1
    <3>4. CASE ~Projectable(portfolio, e)
      <4>1. /\ portfolio'.orders = [portfolio.orders EXCEPT ![e.order_id] =
                                      Noted(portfolio.orders[e.order_id], e)]
            /\ portfolio'.unprojectable = portfolio.unprojectable \cup {e}
        BY <1>5, <3>2, <3>4, ProjectEventEffect
      <4> QED
        BY <1>5, <1>13, <3>1, <4>1
    <3> QED
      BY <3>3, <3>4
  <2>4. wholeNext.states[o] = whole.states[o]
    BY <1>8, <1>13
  <2>5. OfOrder(wholeNext.rows, o) = OfOrder(whole.rows, o)
    BY <1>10, <1>13
  <2> HIDE DEF own, whole, ownNext, wholeNext, next, row
  <2> QED
    BY <1>9, <2>1, <2>2, <2>3, <2>4, <2>5
<1>14. CASE o = e.order_id
  <2>1. ownNext = Read(own, e)
    <3>1. Stream(o)' = Append(Stream(o), e)
      BY <1>11, <1>14
    <3> QED
      BY <1>1, <3>1, ReplayOfAppend
  <2>2. next = Apply(own.states[e.order_id], e.type, e.allowed)
    BY <1>9, <1>14
  <2>3. /\ ownNext.rows = Append(own.rows, row)
        /\ ownNext.states[o] = IF next = OutOfSequence THEN own.states[o] ELSE next
    <3>1. /\ Read(own, e).rows =
               Append(own.rows,
                      Row(e, Apply(own.states[e.order_id], e.type, e.allowed)))
          /\ Read(own, e).states[e.order_id] =
               IF Apply(own.states[e.order_id], e.type, e.allowed) = OutOfSequence
               THEN own.states[e.order_id]
               ELSE Apply(own.states[e.order_id], e.type, e.allowed)
      <4> HIDE DEF own
      <4> QED
        BY <1>2, ReadEffect
    <3> HIDE DEF own, ownNext, next
    <3> QED
      BY <1>14, <2>1, <2>2, <3>1
  <2>4. OfOrder(wholeNext.rows, o) = Append(OfOrder(whole.rows, o), row)
    BY <1>10, <1>14
  <2>5. wholeNext.states[o] = IF next = OutOfSequence THEN whole.states[o] ELSE next
    BY <1>8, <1>14
  <2>6. retained'[o] = RetainedStep(retained[o], e) /\ retained[o] \in RetainedState
    BY <1>5, <1>14
  <2>7. ASSUME retained'[o].valid
        PROVE  /\ retained[o].valid
               /\ retained'[o].status = Apply(retained[o].status, e.type, e.allowed)
               /\ Apply(retained[o].status, e.type, e.allowed) # OutOfSequence
    <3>1. RetainedAccepts(retained[o], e)
      <4> SUFFICES ASSUME ~RetainedAccepts(retained[o], e)
                   PROVE  FALSE
        OBVIOUS
      <4>1. RetainedStep(retained[o], e) = [ retained[o] EXCEPT !.valid = FALSE ]
        BY DEF RetainedStep
      <4> QED
        BY <2>6, <2>7, <4>1 DEF RetainedState
    <3> QED
      BY <2>6, <3>1 DEF RetainedAccepts, RetainedStep, RetainedState
  <2>8. ASSUME Len(ledger') <= ReadLimit,
               \A f \in portfolio'.unprojectable : f.order_id # o
        PROVE  /\ Len(ledger) <= ReadLimit
               /\ \A f \in portfolio.unprojectable : f.order_id # o
               /\ portfolio'.orders[o].status =
                    Apply(portfolio.orders[o].status, e.type, e.allowed)
               /\ Apply(portfolio.orders[o].status, e.type, e.allowed) # OutOfSequence
    <3>1. Len(ledger) < ReadLimit /\ Len(ledger) <= ReadLimit
      BY <1>1, <2>8
    <3>2. portfolio' = ProjectEvent(portfolio, e)
      BY <1>6, <3>1
    <3>3. Projectable(portfolio, e)
      <4> SUFFICES ASSUME ~Projectable(portfolio, e)
                   PROVE  FALSE
        OBVIOUS
      <4>1. portfolio'.unprojectable = portfolio.unprojectable \cup {e}
        BY <1>5, <3>2, ProjectEventEffect
      <4> QED
        BY <1>14, <2>8, <4>1
    <3>4. /\ portfolio'.orders = [portfolio.orders EXCEPT ![e.order_id] =
                                    Projected(portfolio.orders[e.order_id], e)]
          /\ portfolio'.unprojectable = portfolio.unprojectable
      BY <1>5, <3>2, <3>3, ProjectEventEffect
    <3>5. portfolio'.orders[o] = Projected(portfolio.orders[o], e)
          /\ portfolio.orders[o] \in ProjectedOrder
      BY <1>5, <1>14, <3>4
    <3>6. Projected(portfolio.orders[o], e).status =
            Apply(portfolio.orders[o].status, e.type, e.allowed)
      BY <3>5 DEF Projected, Noted, ProjectedOrder
    <3>7. Apply(portfolio.orders[o].status, e.type, e.allowed) # OutOfSequence
      BY <1>14, <3>3 DEF Projectable
    <3> QED
      BY <2>8, <3>1, <3>4, <3>5, <3>6, <3>7
  <2>9. /\ ownNext.rows # << >> /\ ownNext.rows[Len(ownNext.rows)] = row
        /\ Faultless(ownNext.rows) <=>
             /\ Faultless(own.rows)
             /\ row.integrity_status = "VALID"
             /\ row.lifecycle_state # "UNPROJECTABLE"
    <3> HIDE DEF own, ownNext, row
    <3> QED
      BY <1>3, <1>8, <2>3, FaultlessStep
  <2>10. next # OutOfSequence =>
           row.integrity_status = "VALID" /\ row.lifecycle_state # "UNPROJECTABLE"
    <3>1. "UNPROJECTABLE" \notin PaperOrderStatus
      BY DEF PaperOrderStatus
    <3> HIDE DEF next, row
    <3> QED
      BY <1>7, <1>8, <3>1
  <2>11. next = OutOfSequence => row.integrity_status # "VALID"
    <3> HIDE DEF next, row
    <3> QED
      BY <1>7
  <2>12. ASSUME Faultless(own.rows), NEW status, own.states[o] = status,
                Apply(status, e.type, e.allowed) # OutOfSequence
         PROVE  /\ Faultless(ownNext.rows)
                /\ ownNext.states[o] = Apply(status, e.type, e.allowed)
    <3>1. next = Apply(status, e.type, e.allowed)
      BY <1>14, <2>2, <2>12
    <3> HIDE DEF own, ownNext, next, row
    <3> QED
      BY <2>3, <2>9, <2>10, <2>12, <3>1
  <2> HIDE DEF own, whole, ownNext, wholeNext, next, row
  <2>13. ownNext.states[o] = wholeNext.states[o]
    BY <1>9, <2>3, <2>5
  <2>14. OfOrder(wholeNext.rows, o) = ownNext.rows
    BY <1>9, <2>3, <2>4
  <2>15. ownNext.rows # << >> /\ Faultless(ownNext.rows) =>
           ownNext.rows[Len(ownNext.rows)].lifecycle_state = ownNext.states[o]
    BY <1>7, <2>3, <2>9, <2>11
  <2>16. retained'[o].valid =>
           Faultless(ownNext.rows) /\ ownNext.states[o] = retained'[o].status
    BY <1>9, <2>7, <2>12
  <2>17. Len(ledger') <= ReadLimit
           /\ (\A f \in portfolio'.unprojectable : f.order_id # o) =>
           Faultless(ownNext.rows) /\ ownNext.states[o] = portfolio'.orders[o].status
    BY <1>9, <2>8, <2>12
  <2> QED
    BY <2>13, <2>14, <2>15, <2>16, <2>17
<1> QED
  BY <1>13, <1>14

LEMMA InitAudit == Init => \A o \in OrderIds : AuditFollows(o)
<1> SUFFICES ASSUME Init, NEW o \in OrderIds
             PROVE  AuditFollows(o)
  OBVIOUS
<1>1. /\ ledger = << >> /\ retained[o] = NothingRetained
      /\ portfolio.orders[o] = UnknownOrder
  BY DEF Init, EmptyPortfolio
<1>2. Stream(o) = << >>
  BY <1>1, PickedFromNone DEF Stream
<1>3. AuditReplay(Stream(o)) = NothingRead /\ AuditReplay(ledger) = NothingRead
  BY <1>1, <1>2, ReplayOfNone
<1>4. NothingRead.rows = << >> /\ NothingRead.states[o] = "PENDING_RISK"
  BY DEF NothingRead
<1>5. OfOrder(<< >>, o) = << >>
  BY PickedFromNone DEF OfOrder
<1>6. Faultless(<< >>)
  <2>1. Len(<< >>) = 0
    OBVIOUS
  <2> QED
    BY <2>1 DEF Faultless
<1>7. retained[o].status = "PENDING_RISK" /\ portfolio.orders[o].status = "PENDING_RISK"
  BY <1>1 DEF NothingRetained, UnknownOrder
<1> QED
  BY <1>3, <1>4, <1>5, <1>6, <1>7 DEF AuditFollows

(* The window the page proposes takes every event in.                      *)
LEMMA WindowTakesAll ==
  ASSUME NEW s \in Seq(PaperEvent), s # << >>
  PROVE  \A i \in 1..Len(s) : s[i].at \in Unfiltered(s).start..Unfiltered(s).end
<1> DEFINE S == { s[i].at : i \in 1..Len(s) }
           start == CHOOSE t \in S : \A i \in 1..Len(s) : t <= s[i].at
           end == CHOOSE t \in S : \A i \in 1..Len(s) : t >= s[i].at
<1>1. Len(s) \in Nat /\ 1 \in 1..Len(s)
  OBVIOUS
<1>2. \A i \in 1..Len(s) : s[i].at \in Nat
  <2>1. \A i \in 1..Len(s) : s[i] \in PaperEvent
    OBVIOUS
  <2>2. \A i \in 1..Len(s) : s[i].at \in Stamps
    BY <2>1 DEF PaperEvent
  <2> QED
    BY <2>2, StampsAssumption
<1>3. S \in SUBSET Nat /\ S # {}
  BY <1>1, <1>2
<1>4. \E t \in S : \A i \in 1..Len(s) : t <= s[i].at
  <2>1. Min(S) \in S /\ \A n \in S : Min(S) <= n
    <3> HIDE DEF S
    <3> QED
      BY <1>3, FirstPosition
  <2> QED
    BY <2>1
<1>5. \E t \in S : \A i \in 1..Len(s) : t >= s[i].at
  <2> DEFINE f == [ i \in 1..Len(s) |-> s[i].at ]
             R == {s[1].at} \cup { f[j] : j \in 1..Len(s) }
  <2>1. R = S
    BY <1>1
  <2>2. s[1].at \in Int /\ \A j \in 1..Len(s) : f[j] \in Int
    BY <1>1, <1>2
  <2>3. HasGreatest(R)
    <3> HIDE DEF f
    <3> QED
      BY <1>1, <2>2, GreatestExists
  <2>4. Max(R) \in S /\ \A x \in S : Max(R) >= x
    <3> HIDE DEF R, S
    <3> QED
      BY <2>1, <2>3 DEF HasGreatest
  <2> HIDE DEF R
  <2> QED
    BY <2>4
<1>6. start \in S /\ end \in S
      /\ \A i \in 1..Len(s) : start <= s[i].at /\ end >= s[i].at
  <2> HIDE DEF S
  <2> QED
    BY <1>4, <1>5
<1>7. Unfiltered(s).start = start /\ Unfiltered(s).end = end
  BY DEF Unfiltered
<1> HIDE DEF S, start, end
<1> QED
  BY <1>2, <1>3, <1>6, <1>7

(* Without a filter every row is shown, and of faultless rows the filter   *)
(* for issues shows none.                                                  *)
LEMMA UnfilteredShowsAll ==
  ASSUME NEW s \in Seq(PaperEvent), s # << >>
  PROVE  LET rows == AuditReplay(s).rows
             issues == [ Unfiltered(s) EXCEPT !.integrity = "ISSUES" ]
         IN /\ Rows(s, Unfiltered(s)) = rows
            /\ Faultless(rows) => Rows(s, issues) = << >>
<1> DEFINE rows == AuditReplay(s).rows
           issues == [ Unfiltered(s) EXCEPT !.integrity = "ISSUES" ]
<1>1. /\ rows \in Seq(AuditRow) /\ Len(rows) = Len(s)
      /\ \A i \in 1..Len(s) : rows[i].event = s[i]
  BY ReplayType DEF Reading
<1>2. \A i \in 1..Len(rows) : rows[i].event.at \in Unfiltered(s).start..Unfiltered(s).end
  BY <1>1, WindowTakesAll
<1>3. /\ Unfiltered(s).integrity = AllRows /\ Unfiltered(s).event_type = AllRows
      /\ Unfiltered(s).lifecycle_state = AllRows
      /\ Unfiltered(s).instrument_id = NoInstrument
      /\ Unfiltered(s).side = NoSide
      /\ issues.integrity = "ISSUES"
  BY DEF Unfiltered
<1> HIDE DEF rows, issues
<1>4. Rows(s, Unfiltered(s)) = rows
  <2> DEFINE P == { i \in 1..Len(rows) : Matches(rows[i], Unfiltered(s)) }
  <2>1. 1..Len(rows) \subseteq P
    BY <1>2, <1>3 DEF Matches, AllRows
  <2>2. Picked(rows, P) = rows
    <3> HIDE DEF P
    <3> QED
      BY <1>1, <2>1, PickedWhole
  <2> QED
    BY <2>2 DEF Rows, Interpreted, rows
<1>5. ASSUME Faultless(rows)
      PROVE  Rows(s, issues) = << >>
  <2> DEFINE P == { i \in 1..Len(rows) : Matches(rows[i], issues) }
  <2>1. \A i \in 1..Len(rows) : i \notin P
    BY <1>3, <1>5 DEF Matches, Faultless
  <2>2. Picked(rows, P) = << >>
    <3> HIDE DEF P
    <3> QED
      BY <1>1, <2>1, PickedNothing
  <2> QED
    BY <2>2 DEF Rows, Interpreted, rows
<1> QED
  BY <1>4, <1>5 DEF rows, issues

(* A limit that is not reached cuts nothing off.                           *)
LEMMA FirstOfShort ==
  ASSUME NEW T, NEW s \in Seq(T), NEW limit \in Nat, Len(s) <= limit
  PROVE  FirstOf(s, limit) = s
<1>1. Len(s) \in Nat /\ (IF Len(s) < limit THEN Len(s) ELSE limit) = Len(s)
  OBVIOUS
<1>2. SubSeq(s, 1, Len(s)) = s
  OBVIOUS
<1> QED
  BY <1>1, <1>2 DEF FirstOf

(* The timeline agrees with both replays, on every order.                  *)
LEMMA AuditAgrees ==
  ASSUME TypeOK, \A o \in OrderIds : AuditFollows(o)
  PROVE  AuditTracksReplay
<1> SUFFICES ASSUME NEW o \in OrderIds,
                    EventsOf(o, ReadLimit) # << >>, Len(ledger) <= ReadLimit
             PROVE
      LET events == EventsOf(o, ReadLimit)
          rows == Rows(events, Unfiltered(events))
          whole == Rows(AllEvents(ReadLimit), Unfiltered(ledger))
          issues == [ Unfiltered(events) EXCEPT !.integrity = "ISSUES" ]
      IN
      /\ Picked(whole, { i \in 1..Len(whole) : whole[i].event.order_id = o }) = rows
      /\ retained[o].valid =>
           /\ Summary(rows).invalid_lifecycle = 0
           /\ Rows(events, issues) = << >>
           /\ StateShown(rows) = retained[o].status
      /\ (\A e \in portfolio.unprojectable : e.order_id # o) =>
           StateShown(rows) = portfolio.orders[o].status
  BY DEF AuditTracksReplay
<1>1. /\ ledger \in Seq(PaperEvent) /\ ReadLimit \in Nat
      /\ Stream(o) \in Seq(PaperEvent) /\ Len(Stream(o)) <= ReadLimit
  <2>1. Len(Stream(o)) <= Len(ledger) /\ Stream(o) \in Seq(PaperEvent)
    BY StreamType
  <2>2. ledger \in Seq(PaperEvent) /\ ReadLimit \in Nat
    BY ReadLimitAssumption DEF TypeOK
  <2>3. Len(ledger) \in Nat /\ Len(Stream(o)) \in Nat
    BY <2>1, <2>2
  <2> QED
    BY <2>1, <2>2, <2>3
<1>2. EventsOf(o, ReadLimit) = Stream(o) /\ AllEvents(ReadLimit) = ledger
  BY <1>1, FirstOfShort DEF EventsOf, AllEvents
<1> DEFINE own == AuditReplay(Stream(o)).rows
           all == AuditReplay(ledger).rows
           issues == [ Unfiltered(Stream(o)) EXCEPT !.integrity = "ISSUES" ]
<1>3. Stream(o) # << >> /\ ledger # << >>
  <2>1. Stream(o) # << >>
    BY <1>2
  <2>2. Len(Stream(o)) <= Len(ledger)
    BY StreamType
  <2> QED
    BY <1>1, <2>1, <2>2
<1>4. /\ Rows(Stream(o), Unfiltered(Stream(o))) = own
      /\ Faultless(own) => Rows(Stream(o), issues) = << >>
      /\ Rows(ledger, Unfiltered(ledger)) = all
  BY <1>1, <1>3, UnfilteredShowsAll
<1>5. Len(own) = Len(Stream(o)) /\ own # << >>
  <2>1. Len(own) = Len(Stream(o)) /\ own \in Seq(AuditRow)
    BY <1>1, ReplayType DEF Reading
  <2> HIDE DEF own
  <2> QED
    BY <1>1, <1>3, <2>1
<1>6. /\ OfOrder(all, o) = own
      /\ Faultless(own) =>
           own[Len(own)].lifecycle_state = AuditReplay(Stream(o)).states[o]
      /\ retained[o].valid =>
           Faultless(own) /\ AuditReplay(Stream(o)).states[o] = retained[o].status
      /\ (\A e \in portfolio.unprojectable : e.order_id # o) =>
           /\ Faultless(own)
           /\ AuditReplay(Stream(o)).states[o] = portfolio.orders[o].status
  BY <1>5 DEF AuditFollows
<1> HIDE DEF own, all, issues
<1>7. Faultless(own) => Summary(own).invalid_lifecycle = 0
  <2> SUFFICES ASSUME Faultless(own)
               PROVE  Summary(own).invalid_lifecycle = 0
    OBVIOUS
  <2>1. { i \in 1..Len(own) : own[i].lifecycle_state = "UNPROJECTABLE" } = {}
    BY DEF Faultless
  <2> QED
    BY <2>1, FS_EmptySet DEF Summary
<1>8. StateShown(own) = own[Len(own)].lifecycle_state
  BY DEF StateShown
<1> QED
  BY <1>2, <1>4, <1>6, <1>7, <1>8 DEF OfOrder, issues

(* Where the service can read an order's stream back, or the projector     *)
(* takes all of its events, the audit finds no issue in the order's        *)
(* timeline and ends with the same status.                                 *)
THEOREM AuditIsAThirdReplay == Spec => []AuditTracksReplay
<1> DEFINE Inv == /\ EvidenceInv /\ ProposalsCarryTerms
                  /\ \A o \in OrderIds : AuditFollows(o)
<1>1. Init => Inv
  <2>1. Init => ProposalsCarryTerms
    BY DEF Init, ProposalsCarryTerms
  <2> QED
    BY <2>1, InitEvidence, InitAudit
<1>2. Inv /\ [Next]_vars => Inv'
  <2> SUFFICES ASSUME EvidenceInv, ProposalsCarryTerms,
                      \A o \in OrderIds : AuditFollows(o), [Next]_vars
               PROVE  /\ EvidenceInv' /\ ProposalsCarryTerms'
                      /\ (\A o \in OrderIds : AuditFollows(o))'
    OBVIOUS
  <2>1. EvidenceInv' /\ ProposalsCarryTerms'
    BY NextKeepsEvidence, NextKeepsProposals
  <2>2. CASE UNCHANGED ledgerVars
    <3>1. ledger' = ledger /\ retained' = retained /\ portfolio' = portfolio
      BY <2>2 DEF ledgerVars
    <3> QED
      BY <2>1, <3>1 DEF AuditFollows, Stream
  <2>3. ASSUME NEW e \in PaperEvent, AppendEvent(e)
        PROVE  (\A o \in OrderIds : AuditFollows(o))'
    BY <2>3, AppendKeepsAudit DEF EvidenceInv
  <2> QED
    BY <2>1, <2>2, <2>3, OneEventAtMost
<1>3. Inv => AuditTracksReplay
  BY AuditAgrees DEF EvidenceInv
<1> QED
  BY <1>1, <1>2, <1>3, PTL DEF Spec

=============================================================================
